------------------------------ MODULE Session ------------------------------
(***************************************************************************)
(* The life of a DS game in the page: the entry page boots the cart or the *)
(* firmware (components/entrypoint.tsx, cores/nds.ts), the game view runs  *)
(* it, pauses it and changes its speed (components/emulator.tsx), and the  *)
(* SDK drives the frames from a setInterval loop and takes everything down *)
(* again (webmelon-sdk/webmelon.js).                                       *)
(*                                                                         *)
(* Handlers are atomic.  What may come between them is modelled: reading   *)
(* the ROM file, the restore of the save directory, and the effects of a   *)
(* rendered view, which run after the paint: until then the host actions   *)
(* of the keyboard and the pad call the handler of the previous rendering. *)
(***************************************************************************)
EXTENDS Naturals

CONSTANT MaxLoops   \* bound on the intervals that run at the same time

ASSUME MaxLoopsAssumption == MaxLoops \in Nat /\ MaxLoops > 1

VARIABLES
    view,      \* "entry", "revealed" (game view rendered) or "game" (effects run)
    loading,   \* the entry page's spinner, which disables its buttons
    step,      \* what the boot awaits: "idle" (no boot), the ROM file, the effect that
               \* starts a firmware boot, or the restore of the directory
    dir,       \* /savefiles: "none", "running" (being restored) or "done"
    emulator,  \* WebMelon._internal.emulator is not null
    loaded,    \* the calls that load its BIOS, and a cart unless the firmware boots, have
               \* returned: what the files hold is theirs to judge, nobody asks them
    loops,     \* the intervals that call runFrame
    named,     \* emulatorFrameInterval is the newest of them
    rate,      \* the speed that one was started with
    speed,     \* emulatorFrameSpeed, as a multiplier
    latch,     \* emulatorFrameRunning between frames
    shown,     \* the view's state: paused, ff (fast forward)
    handler,   \* the state that the installed extra handler closes over
    prompt     \* see below: an assumption on the browser

boot   == <<loading, step, dir>>
engine == <<loops, named, rate, speed>>
core   == <<emulator, loaded>>
vars   == <<view, boot, engine, core, latch, shown, handler, prompt>>

Running == [paused |-> FALSE, ff |-> FALSE]

\* With a prompt browser the effects of a rendering have run before the user
\* acts again.
Init ==
    /\ view = "entry" /\ loading = FALSE /\ step = "idle" /\ dir = "none"
    /\ emulator = FALSE /\ loaded = FALSE
    /\ loops = 0 /\ named = FALSE /\ rate = 1 /\ speed = 1
    /\ latch = FALSE /\ shown = Running /\ handler = Running
    /\ prompt \in BOOLEAN

----------------------------------------------------------------------------
(* The loop.                                                               *)

LoopsAfterClear == IF named THEN loops - 1 ELSE loops

\* clearInterval(emulatorFrameInterval)
ClearLoop == loops' = LoopsAfterClear /\ named' = FALSE

\* emulatorFrameInterval = setInterval(runFrame, ...)
StartLoop(running, s) ==
    /\ running < MaxLoops
    /\ loops' = running + 1 /\ named' = TRUE /\ rate' = s

\* setEmulatorSpeed
SetSpeed(s) == speed' = s /\ StartLoop(LoopsAfterClear, s)

----------------------------------------------------------------------------
(* Booting.                                                                *)

\* onStartEmulating: the entry page is replaced by the game view.
Reveal == view' = "revealed" /\ loading' = FALSE /\ step' = "idle"

\* Seeded fault: the boot never says that the file system is prepared.
FinishBootSilently ==
    /\ loaded' = TRUE /\ step' = "idle"
    /\ UNCHANGED <<view, loading>>

\* Load the BIOS (and the cart) without looking at what comes of it, then run the
\* subscribers of onPrepare.
FinishBoot == loaded' = TRUE /\ Reveal

Play ==
    /\ view = "entry" /\ ~loading
    /\ loading' = TRUE /\ step' = "rom"
    /\ UNCHANGED <<view, dir, engine, core, latch, shown, handler, prompt>>

\* Seeded fault: the view is revealed as soon as the boot has been started.
RomReadRevealing ==
    /\ step = "rom"
    /\ emulator' = TRUE
    /\ Reveal
    /\ dir' = IF dir = "none" THEN "running" ELSE dir
    /\ UNCHANGED <<loaded, engine, latch, shown, handler, prompt>>

\* The ROM file has been read: create the emulator, unless a failed boot left
\* one, and load the cart.  A bad cart ends the boot with an exception.  The
\* boot goes on at once if the save directory exists.
RomRead ==
    /\ step = "rom"
    /\ emulator' = TRUE
    /\ \/ step' = "idle" /\ loading' = FALSE /\ UNCHANGED <<view, dir, loaded>>
       \/ dir = "none" /\ dir' = "running" /\ step' = "restore"
                       /\ UNCHANGED <<view, loading, loaded>>
       \/ dir # "none" /\ FinishBoot /\ UNCHANGED dir
    /\ UNCHANGED <<engine, latch, shown, handler, prompt>>

\* The file could not be read.
RomUnreadable ==
    /\ step = "rom"
    /\ step' = "idle" /\ loading' = FALSE
    /\ UNCHANGED <<view, dir, engine, core, latch, shown, handler, prompt>>

FirmwareBoot ==
    /\ view = "entry" /\ ~loading
    /\ loading' = TRUE /\ step' = "firmware"
    /\ emulator' = TRUE
    /\ UNCHANGED <<view, dir, loaded, engine, latch, shown, handler, prompt>>

\* The effect of isFirmwareBooting.
PrepareFirmware ==
    /\ step = "firmware"
    /\ IF dir = "none"
       THEN dir' = "running" /\ step' = "restoreFirmware"
            /\ UNCHANGED <<view, loading, loaded>>
       ELSE FinishBoot /\ UNCHANGED dir
    /\ UNCHANGED <<emulator, engine, latch, shown, handler, prompt>>

\* The Save Data page may be the first to ask for the directory.
OpenSaves ==
    /\ dir = "none"
    /\ dir' = "running"
    /\ UNCHANGED <<view, loading, step, engine, core, latch, shown, handler, prompt>>

\* FS.syncfs calls back: an error ends the boot of a cart, that of the
\* firmware ignores it.
Restored ==
    /\ dir = "running"
    /\ dir' = "done"
    /\ \/ step \in {"restore", "restoreFirmware"} /\ FinishBoot
       \/ step = "restore" /\ step' = "idle" /\ loading' = FALSE /\ UNCHANGED <<view, loaded>>
       \/ step \notin {"restore", "restoreFirmware"} /\ UNCHANGED <<view, loading, step, loaded>>
    /\ UNCHANGED <<emulator, engine, latch, shown, handler, prompt>>

\* The effect of the game view: startEmulation with the speed of the moment.
\* A pause that came before it is part of what the view shows.
MountGame ==
    /\ view = "revealed"
    /\ view' = "game"
    /\ StartLoop(loops, speed)
    /\ handler' = shown
    /\ UNCHANGED <<boot, core, speed, latch, shown, prompt>>

----------------------------------------------------------------------------
(* Playing.  A button of the view acts on what is shown, a key or the pad  *)
(* on what the installed handler has seen.                                 *)

CanAct(h) ==
    /\ view # "entry"
    /\ h \in {shown, handler}
    /\ prompt => view = "game" /\ handler = shown

Pause(h) ==
    /\ CanAct(h) /\ ~h.paused
    /\ shown' = [shown EXCEPT !.paused = TRUE]
    /\ ClearLoop
    /\ UNCHANGED <<view, boot, core, rate, speed, latch, handler, prompt>>

\* Seeded fault: a game that runs can be resumed.
ResumeAnyway(h) ==
    /\ CanAct(h)
    /\ shown' = [shown EXCEPT !.paused = FALSE]
    /\ StartLoop(loops, speed)
    /\ UNCHANGED <<view, boot, core, speed, latch, handler, prompt>>

Resume(h) ==
    /\ CanAct(h) /\ h.paused
    /\ shown' = [shown EXCEPT !.paused = FALSE]
    /\ StartLoop(loops, speed)
    /\ UNCHANGED <<view, boot, core, speed, latch, handler, prompt>>

StartFastForward(h) ==
    /\ CanAct(h) /\ ~h.ff /\ ~h.paused
    /\ shown' = [shown EXCEPT !.ff = TRUE]
    /\ SetSpeed(2)
    /\ UNCHANGED <<view, boot, core, latch, handler, prompt>>

StopFastForward(h) ==
    /\ CanAct(h) /\ h.ff /\ ~h.paused
    /\ shown' = [shown EXCEPT !.ff = FALSE]
    /\ SetSpeed(1)
    /\ UNCHANGED <<view, boot, core, latch, handler, prompt>>

\* The effect that installs the handler of the last rendering.
InstallHandler ==
    /\ view = "game" /\ handler # shown
    /\ handler' = shown
    /\ UNCHANGED <<view, boot, engine, core, latch, shown, prompt>>

\* Seeded fault: the shutdown leaves the speed as it is.
ShutdownKeepingSpeed ==
    /\ emulator' = FALSE /\ loaded' = FALSE
    /\ ClearLoop
    /\ UNCHANGED <<rate, speed>>

\* onShutdown
Shutdown ==
    /\ emulator' = FALSE /\ loaded' = FALSE
    /\ ClearLoop
    /\ speed' = 1
    /\ UNCHANGED rate

\* The quit button, or the DS switching itself off during a frame.
Leave ==
    /\ view # "entry"
    /\ prompt => view = "game"
    /\ view' = "entry"
    /\ Shutdown
    /\ shown' = Running /\ handler' = Running
    /\ UNCHANGED <<boot, latch, prompt>>

\* runFrame without an emulator throws after it has set the latch, and no
\* later frame gets past the latch.
OrphanFrame ==
    /\ loops > 0 /\ ~emulator /\ ~latch
    /\ latch' = TRUE
    /\ UNCHANGED <<view, boot, engine, core, shown, handler, prompt>>

Next ==
    \/ Play \/ RomRead \/ RomUnreadable
    \/ FirmwareBoot \/ PrepareFirmware \/ OpenSaves \/ Restored
    \/ MountGame \/ InstallHandler \/ Leave \/ OrphanFrame
    \/ \E h \in {shown, handler} :
          Pause(h) \/ Resume(h) \/ StartFastForward(h) \/ StopFastForward(h)

\* Files, IndexedDB and effects complete.
Spec ==
    /\ Init /\ [][Next]_vars
    /\ WF_vars(RomRead) /\ WF_vars(PrepareFirmware) /\ WF_vars(Restored)

----------------------------------------------------------------------------
(* Properties.                                                             *)

States == [paused : BOOLEAN, ff : BOOLEAN]

TypeOK ==
    /\ view \in {"entry", "revealed", "game"} /\ loading \in BOOLEAN
    /\ step \in {"idle", "rom", "firmware", "restore", "restoreFirmware"}
    /\ dir \in {"none", "running", "done"}
    /\ emulator \in BOOLEAN /\ loaded \in BOOLEAN
    /\ loops \in 0..MaxLoops /\ named \in BOOLEAN
    /\ rate \in {1, 2} /\ speed \in {1, 2}
    /\ latch \in BOOLEAN /\ prompt \in BOOLEAN
    /\ shown \in States /\ handler \in States

\* nds.ts "deterministic and finished *before* that transition can fire": the
\* game view never appears over an emulator whose loading has not finished,
\* also after boots that failed half way.
RevealedIsLoaded == view # "entry" => emulator /\ loaded

\* An interval that lost its name can never be cleared: there is at most one,
\* it has its name, and it never outlives the emulator it runs.
OneLoop == prompt => loops <= 1 /\ (loops = 1 => named /\ emulator)

\* The game stands still exactly while the view shows it paused.
PausedIsStill == prompt /\ view = "game" => (shown.paused <=> loops = 0)

\* The game runs at the speed that the view shows, whatever pauses, quits and
\* new boots came between.
SpeedIsShown ==
    prompt /\ view = "game" /\ loops = 1 => rate = IF shown.ff THEN 2 ELSE 1

\* What emulator.tsx shows of the game is what webmelon.js does with its interval.
ShownAsItIs == PausedIsStill /\ SpeedIsShown

\* A frame that fails would block the frames of every later game.
FramesGoOn == prompt => ~latch

\* nds.ts "the UI would be stuck on its loading state forever": a boot ends,
\* with the game view or with an error.
LoadingEnds == loading ~> ~loading
=============================================================================
