---------------------------- MODULE SaveStorage ----------------------------
(***************************************************************************)
(* DS save files.  A running game writes its save into a file of the       *)
(* in-memory file system (WasmEmulator.cpp); webmelon-sdk/webmelon.js      *)
(* copies the whole directory to IndexedDB some time later, and back once  *)
(* per page load.  The boot of a game (cores/nds.ts) and the Save Data     *)
(* page (settings-menus/savedata.tsx) both start that restore and both     *)
(* write.  The page may be reloaded or closed at any point.                *)
(*                                                                         *)
(* What a file holds is a number: 0 is no file, and every save and every   *)
(* upload is a new number.  FS.syncfs is external: a restore replaces the  *)
(* directory by the stored one, a sync replaces the stored one.            *)
(***************************************************************************)
EXTENDS Naturals

CONSTANTS
    Games,      \* game codes: each names one save file
    NoGame,
    MaxWrites,  \* bound on the number of saves and uploads
    MaxSyncs    \* bound on the syncs the Save Data page has under way

ASSUME GamesAssumption  == NoGame \notin Games
ASSUME BoundsAssumption == MaxWrites \in Nat /\ MaxSyncs \in Nat

VARIABLES
    restore,  \* /savefiles: "none" (no directory), "running", "done" or "failed"
    file,     \* the directory /savefiles
    stored,   \* its copy in IndexedDB
    isSaving, \* storage.isSaving
    timers,   \* pending setTimeout(storage.sync, 500)
    reading,  \* syncs that have not copied the files yet
    closing,  \* syncs that have, and whose callback is still to come
    booting,  \* the game whose boot awaits the restore
    game,     \* the game that runs
    menu,     \* the Save Data page: "closed", "waiting" or "ready"
    latest,   \* what the user last saved, uploaded or deleted
    writes,   \* saves and uploads so far
    firmware, \* /firmware: "none", "restoring" (and /savefiles again) or "made"
    careful   \* see below: an assumption on the user and the browser

memory      == <<file, isSaving, timers, reading, closing>>
storageVars == <<restore, memory, stored, booting, game, menu, latest, writes, firmware, careful>>

FileContents == 0..MaxWrites

----------------------------------------------------------------------------
\* A careful user opens the Save Data page only once the saves have been
\* restored, and his IndexedDB never fails.  He plays once the entry page has
\* found the runtime ready, and so has made /firmware first.
StorageInit ==
    /\ stored = [g \in Games |-> 0] /\ latest = stored /\ writes = 0
    /\ restore = "none" /\ file = [g \in Games |-> 0]
    /\ isSaving = FALSE /\ timers = 0 /\ reading = 0 /\ closing = 0
    /\ booting = NoGame /\ game = NoGame /\ menu = "closed"
    /\ firmware = "none" /\ careful \in BOOLEAN

\* onSaveWrite: one delayed sync at a time.
OnSaveWrite ==
    /\ isSaving' = TRUE
    /\ timers' = IF isSaving THEN timers ELSE timers + 1

\* loadRom hands an existing file to the cart, which writes it straight back.
LoadCart(g, files) ==
    /\ game' = g
    /\ IF files[g] # 0 THEN OnSaveWrite ELSE UNCHANGED <<isSaving, timers>>

\* initializeFirmwareDirectory: its syncfs(true) restores whatever is mounted.
InitializeFirmware ==
    firmware' = IF firmware # "none" THEN firmware
                ELSE IF restore = "none" THEN "made" ELSE "restoring"

\* Seeded fault: the boot does not wait for the restore it has started.
PlayWithoutWaiting(g) ==
    /\ game = NoGame /\ booting = NoGame
    /\ careful => firmware = "made"
    /\ LoadCart(g, file)
    /\ restore' = IF restore = "none" THEN "running" ELSE restore
    /\ UNCHANGED <<file, stored, reading, closing,
                   booting, menu, latest, writes, firmware, careful>>

\* boot: create and restore the directory, or take it as it is.  It ends with
\* prepareVirtualFilesystem.
Play(g) ==
    /\ game = NoGame /\ booting = NoGame
    /\ careful => firmware = "made"
    /\ IF restore = "none"
       THEN /\ restore' = "running" /\ booting' = g
            /\ UNCHANGED <<game, isSaving, timers, firmware>>
       ELSE /\ LoadCart(g, file) /\ InitializeFirmware
            /\ UNCHANGED <<restore, booting>>
    /\ UNCHANGED <<file, stored, reading, closing, menu, latest, writes, careful>>

\* Seeded fault: syncfs is called with the directions swapped.
RestoreBackwards ==
    /\ restore = "running"
    /\ restore' = "done"
    /\ stored' = file
    /\ booting' = NoGame
    /\ IF booting = NoGame THEN UNCHANGED <<game, isSaving, timers>> ELSE LoadCart(booting, file)
    /\ menu' = IF menu = "waiting" THEN "ready" ELSE menu
    /\ UNCHANGED <<file, reading, closing, latest, writes, firmware, careful>>

\* The callback of the restore, in whoever started it.
FinishRestore ==
    /\ restore = "running"
    /\ restore' = "done"
    /\ file' = stored
    /\ booting' = NoGame
    /\ \/ booting = NoGame /\ UNCHANGED <<game, isSaving, timers, firmware>>
       \/ booting # NoGame /\ LoadCart(booting, stored) /\ InitializeFirmware
    /\ menu' = IF menu = "waiting" THEN "ready" ELSE menu
    /\ UNCHANGED <<stored, reading, closing, latest, writes, careful>>

\* The entry page's probe or a firmware upload makes the directory.
ProbeFirmware ==
    /\ firmware = "none"
    /\ InitializeFirmware
    /\ UNCHANGED <<restore, memory, stored, booting, game, menu, latest, writes, careful>>

\* Its callback only looks at the error.
FinishFirmwareRestore ==
    /\ firmware = "restoring"
    /\ firmware' = "made"
    /\ \/ file' = stored
       \/ ~careful /\ UNCHANGED file
    /\ UNCHANGED <<restore, stored, isSaving, timers, reading, closing, booting, game, menu,
                   latest, writes, careful>>

\* The boot is given up; the directory stays, empty.
RestoreFails ==
    /\ restore = "running" /\ ~careful
    /\ restore' = "failed"
    /\ booting' = NoGame
    /\ menu' = IF menu = "waiting" THEN "ready" ELSE menu
    /\ UNCHANGED <<memory, stored, game, latest, writes, firmware, careful>>

\* The game writes its save memory.
GameSaves ==
    /\ game # NoGame /\ writes < MaxWrites
    /\ writes' = writes + 1
    /\ file'   = [file EXCEPT ![game] = writes']
    /\ latest' = [latest EXCEPT ![game] = writes']
    /\ OnSaveWrite
    /\ UNCHANGED <<restore, stored, reading, closing, booting, game, menu, firmware, careful>>

\* Seeded fault: leaving the game cancels the delayed sync.
QuitCancellingSave ==
    /\ game # NoGame
    /\ game' = NoGame
    /\ isSaving' = FALSE /\ timers' = 0
    /\ UNCHANGED <<restore, file, stored, reading, closing,
                   booting, menu, latest, writes, firmware, careful>>

\* onShutdown leaves the timer and the syncs alone.
Quit ==
    /\ game # NoGame
    /\ game' = NoGame
    /\ UNCHANGED <<restore, memory, stored, booting, menu, latest, writes, firmware, careful>>

----------------------------------------------------------------------------
(* storage.sync and FS.syncfs(false)                                       *)

TimerFires ==
    /\ timers > 0
    /\ timers' = timers - 1 /\ reading' = reading + 1
    /\ UNCHANGED <<restore, file, stored, isSaving, closing,
                   booting, game, menu, latest, writes, firmware, careful>>

SyncStores ==
    /\ reading > 0
    /\ reading' = reading - 1 /\ closing' = closing + 1
    /\ stored' = file
    /\ UNCHANGED <<restore, file, isSaving, timers,
                   booting, game, menu, latest, writes, firmware, careful>>

\* Seeded fault: the callback does not end the save.
SyncDoneStillSaving ==
    /\ closing > 0
    /\ closing' = closing - 1
    /\ UNCHANGED <<restore, file, stored, isSaving, timers, reading,
                   booting, game, menu, latest, writes, firmware, careful>>

SyncDone ==
    /\ closing > 0
    /\ closing' = closing - 1
    /\ isSaving' = FALSE
    /\ UNCHANGED <<restore, file, stored, timers, reading,
                   booting, game, menu, latest, writes, firmware, careful>>

\* The callback does not look at the error.
SyncFails ==
    /\ reading > 0 /\ ~careful
    /\ reading' = reading - 1
    /\ isSaving' = FALSE
    /\ UNCHANGED <<restore, file, stored, timers, closing,
                   booting, game, menu, latest, writes, firmware, careful>>

----------------------------------------------------------------------------
(* The Save Data page                                                      *)

OpenSaves ==
    /\ menu = "closed"
    /\ careful => restore = "done"
    /\ restore' = IF restore = "none" THEN "running" ELSE restore
    /\ menu' = IF restore = "none" THEN "waiting" ELSE "ready"
    /\ UNCHANGED <<memory, stored, booting, game, latest, writes, firmware, careful>>

CloseSaves ==
    /\ menu # "closed"
    /\ menu' = "closed"
    /\ UNCHANGED <<restore, memory, stored, booting, game, latest, writes, firmware, careful>>

PageWrites(g, content) ==
    /\ reading + closing < MaxSyncs
    /\ file'   = [file EXCEPT ![g] = content]
    /\ latest' = [latest EXCEPT ![g] = content]
    /\ reading' = reading + 1
    /\ UNCHANGED <<restore, stored, isSaving, timers, closing,
                   booting, game, menu, firmware, careful>>

\* The upload box is there before the list is.
Upload(g) ==
    /\ menu # "closed" /\ writes < MaxWrites
    /\ writes' = writes + 1
    /\ PageWrites(g, writes')

Delete(g) ==
    /\ menu = "ready" /\ file[g] # 0
    /\ UNCHANGED writes
    /\ PageWrites(g, 0)

----------------------------------------------------------------------------
\* The page is closed or reloaded: only IndexedDB remains, and what it holds
\* is what the user gets.
Reload ==
    /\ restore' = "none" /\ file' = [g \in Games |-> 0]
    /\ isSaving' = FALSE /\ timers' = 0 /\ reading' = 0 /\ closing' = 0
    /\ booting' = NoGame /\ game' = NoGame /\ menu' = "closed"
    /\ latest' = stored /\ firmware' = "none"
    /\ UNCHANGED <<stored, writes, careful>>

StorageNext ==
    \/ \E g \in Games : Play(g) \/ Upload(g) \/ Delete(g)
    \/ FinishRestore \/ RestoreFails
    \/ ProbeFirmware \/ FinishFirmwareRestore
    \/ GameSaves \/ Quit
    \/ TimerFires \/ SyncStores \/ SyncDone \/ SyncFails
    \/ OpenSaves \/ CloseSaves
    \/ Reload

\* Timers fire and IndexedDB requests complete while the page is there.
StorageSpec ==
    /\ StorageInit /\ [][StorageNext]_storageVars
    /\ WF_storageVars(TimerFires) /\ WF_storageVars(SyncStores)

----------------------------------------------------------------------------
(* Properties.                                                             *)

StorageTypeOK ==
    /\ restore \in {"none", "running", "done", "failed"}
    /\ file \in [Games -> FileContents] /\ stored \in [Games -> FileContents]
    /\ latest \in [Games -> FileContents] /\ writes \in FileContents
    /\ isSaving \in BOOLEAN /\ careful \in BOOLEAN
    /\ timers \in Nat /\ reading \in Nat /\ closing \in Nat
    /\ booting \in Games \cup {NoGame} /\ game \in Games \cup {NoGame}
    /\ game = NoGame \/ booting = NoGame
    /\ menu \in {"closed", "waiting", "ready"}
    /\ firmware \in {"none", "restoring", "made"}

\* onSaveWrite "Don't sync if we are already in the process of saving": the
\* flag is up only while a sync is on its way whose callback takes it down.
\* Otherwise no save of this page would be stored any more, whatever mix of
\* timers, uploads and failures led there.
SavingHasASync == isSaving => timers + reading + closing > 0

\* nds.ts "It is only guaranteed to contain previously persisted saves once
\* its async FS.syncfs() completes, so wait for that directly": if the user
\* has changed nothing since the last sync, a game starts from the save that
\* IndexedDB holds.
StartsFromStored ==
    [][game' \notin {game, NoGame} /\ latest' = stored'
         => file'[game'] = stored'[game']]_storageVars

\* Whatever the user has done, a game starts from the last content saved,
\* uploaded or deleted for it.
StartsFromSave ==
    [][careful /\ game' \notin {game, NoGame} => file'[game'] = latest'[game']]_storageVars

\* A sync replaces the whole stored directory: it must never take away, or
\* set back, the save of any game.
StoredFollowsLatest ==
    [][\A g \in Games :
         careful /\ stored'[g] # stored[g] => stored'[g] = latest[g]]_storageVars

\* "wait until it completes the buffered save writes and then save": what is
\* in the file when the delayed sync is armed is stored, even if the game is
\* left meanwhile, unless it is overwritten or the page is gone.
SavesReachStorage ==
    \A g \in Games, n \in 1..MaxWrites :
        careful /\ timers > 0 /\ file[g] = n
            ~> (stored[g] = n \/ file[g] # n)

\* README "Saves: in-browser (IndexedDB)": once no sync is pending, every
\* save has been stored.
QuietMeansStored ==
    careful /\ restore = "done" /\ timers + reading + closing = 0 => stored = file
=============================================================================
