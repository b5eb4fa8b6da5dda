----------------------------- MODULE GbaSession -----------------------------
(***************************************************************************)
(* The life of Game Boy Advance games in the page.  The entry page stages  *)
(* the ROM in a new core and reveals the game view; the view boots the     *)
(* core, which awaits the mGBA module and its file system                  *)
(* (components/entrypoint.tsx, components/emulator.tsx, cores/gba.ts).     *)
(* Nothing keeps the user from pausing, changing the speed or quitting     *)
(* while the boot awaits, and nothing cancels a boot.                      *)
(*                                                                         *)
(* mGBA itself is external: of an instance the state keeps whether it runs *)
(* a game, at which speed, and whether its own keyboard handler is on.     *)
(***************************************************************************)
EXTENDS Naturals

CONSTANT MaxGames   \* bound on the games started

ASSUME MaxGamesAssumption == MaxGames \in Nat \ {0}

Games == 1..MaxGames   \* one GBACore for each game revealed

VARIABLES
    reading,  \* Play awaits the ROM file
    games,    \* cores created so far
    current,  \* the core of the game view; 0 is the entry page
    boot,     \* what boot() of a core awaits: "none", "module", "files", or its end
    module,   \* this.module is not null
    paused,   \* this.paused
    engine,   \* the instance: "off", "idle", "stalled" (idle, a pause asked), "runs", "still"
    rate,     \* its fast forward multiplier
    native,   \* its own keyboard handler is on
    shown,    \* the view's state: paused, ff, error
    patient   \* see below: an assumption on the user

core == <<boot, module, paused>>
mgba == <<engine, rate, native>>
vars == <<reading, games, current, core, mgba, shown, patient>>

Fresh == [paused |-> FALSE, ff |-> FALSE, error |-> FALSE]

\* A patient user leaves the view alone until the boot has ended.
Init ==
    /\ reading = FALSE /\ games = 0 /\ current = 0
    /\ boot = [g \in Games |-> "none"]
    /\ module = [g \in Games |-> FALSE]
    /\ paused = [g \in Games |-> FALSE]
    /\ engine = [g \in Games |-> "off"]
    /\ rate = [g \in Games |-> 1]
    /\ native = [g \in Games |-> FALSE]
    /\ shown = Fresh
    /\ patient \in BOOLEAN

----------------------------------------------------------------------------
(* Starting a game.                                                        *)

Play ==
    /\ current = 0 /\ ~reading
    /\ reading' = TRUE
    /\ UNCHANGED <<games, current, core, mgba, shown, patient>>

RomUnreadable ==
    /\ reading
    /\ reading' = FALSE
    /\ UNCHANGED <<games, current, core, mgba, shown, patient>>

\* The ROM is staged, the view is rendered, and its effects start the boot
\* and hand the keyboard over, in this order.  The core has no module yet, so
\* setNativeInputEnabled does nothing.
Reveal ==
    /\ reading /\ games < MaxGames
    /\ reading' = FALSE
    /\ games' = games + 1
    /\ current' = games'
    /\ boot' = [boot EXCEPT ![games'] = "module"]
    /\ shown' = Fresh
    /\ UNCHANGED <<module, paused, mgba, patient>>

\* Seeded fault: the rejection is logged and not shown.
RejectSilently(g) == boot' = [boot EXCEPT ![g] = "failed"] /\ UNCHANGED shown

\* The rejected promise reaches the view, if it is still there.
Reject(g) ==
    /\ boot' = [boot EXCEPT ![g] = "failed"]
    /\ shown' = IF g = current THEN [shown EXCEPT !.error = TRUE] ELSE shown

\* mGBA({canvas}) resolves: the instance exists, its keyboard handler is on.
ModuleReady(g) ==
    /\ boot[g] = "module"
    /\ module' = [module EXCEPT ![g] = TRUE]
    /\ engine' = [engine EXCEPT ![g] = "idle"]
    /\ native' = [native EXCEPT ![g] = TRUE]
    /\ boot' = [boot EXCEPT ![g] = "files"]
    /\ UNCHANGED <<reading, games, current, paused, rate, shown, patient>>

\* The module cannot be fetched or compiled.
ModuleFails(g) ==
    /\ boot[g] = "module"
    /\ Reject(g)
    /\ UNCHANGED <<reading, games, current, module, paused, mgba, patient>>

\* FSInit resolves: write and load the ROM.  Whether a pause that came before
\* the game keeps it still is mGBA's matter.
FilesReady(g) ==
    /\ boot[g] = "files" /\ module[g]
    /\ \/ engine[g] = "stalled" /\ engine' = [engine EXCEPT ![g] = "still"]
       \/ engine' = [engine EXCEPT ![g] = "runs"]
    /\ paused' = [paused EXCEPT ![g] = FALSE]
    /\ boot' = [boot EXCEPT ![g] = "done"]
    /\ UNCHANGED <<reading, games, current, module, rate, native, shown, patient>>

\* FSInit or loadGame fails, or the core was destroyed meanwhile and its
\* module is null.
FilesFail(g) ==
    /\ boot[g] = "files"
    /\ Reject(g)
    /\ UNCHANGED <<reading, games, current, module, paused, mgba, patient>>

----------------------------------------------------------------------------
(* Playing.                                                                *)

Ended(g) == boot[g] \in {"done", "failed"}

CanAct == current # 0 /\ (patient => Ended(current))

PauseEngine(state) ==
    CASE state = "runs" -> "still" [] state = "idle" -> "stalled" [] OTHER -> state

ResumeEngine(state) ==
    CASE state = "still" -> "runs" [] state = "stalled" -> "idle" [] OTHER -> state

Pause ==
    /\ CanAct /\ ~shown.paused
    /\ shown' = [shown EXCEPT !.paused = TRUE]
    /\ IF module[current] /\ ~paused[current]
       THEN /\ engine' = [engine EXCEPT ![current] = PauseEngine(@)]
            /\ paused' = [paused EXCEPT ![current] = TRUE]
       ELSE UNCHANGED <<engine, paused>>
    /\ UNCHANGED <<reading, games, current, boot, module, rate, native, patient>>

\* Seeded fault: the core is resumed without taking its flag down.
ResumeKeepingFlag ==
    /\ CanAct /\ shown.paused
    /\ shown' = [shown EXCEPT !.paused = FALSE]
    /\ engine' = IF module[current] /\ paused[current]
                 THEN [engine EXCEPT ![current] = ResumeEngine(@)] ELSE engine
    /\ UNCHANGED <<reading, games, current, boot, module, paused, rate, native, patient>>

Resume ==
    /\ CanAct /\ shown.paused
    /\ shown' = [shown EXCEPT !.paused = FALSE]
    /\ IF module[current] /\ paused[current]
       THEN /\ engine' = [engine EXCEPT ![current] = ResumeEngine(@)]
            /\ paused' = [paused EXCEPT ![current] = FALSE]
       ELSE UNCHANGED <<engine, paused>>
    /\ UNCHANGED <<reading, games, current, boot, module, rate, native, patient>>

\* setSpeed; what an instance without a game does with it is mGBA's matter.
SetRate(s) ==
    \/ module[current] /\ rate' = [rate EXCEPT ![current] = s]
    \/ (~module[current] \/ engine[current] \in {"idle", "stalled"}) /\ UNCHANGED rate

FastForward ==
    /\ CanAct /\ ~shown.paused
    /\ shown' = [shown EXCEPT !.ff = ~@]
    /\ SetRate(IF shown.ff THEN 1 ELSE 2)
    /\ UNCHANGED <<reading, games, current, core, engine, native, patient>>

\* Seeded fault: the view goes and its core stays.
QuitLeavingCore ==
    /\ CanAct
    /\ current' = 0
    /\ native' = IF module[current] THEN [native EXCEPT ![current] = TRUE] ELSE native
    /\ UNCHANGED <<reading, games, core, engine, rate, shown, patient>>

\* destroy, then the view goes; its cleanup hands the keyboard back to a core
\* that has no module any more.  quitGame on an instance without a game
\* throws, and the exception is swallowed.
Quit ==
    /\ CanAct
    /\ current' = 0
    /\ engine' = [engine EXCEPT ![current] =
                     IF module[current] /\ @ \in {"runs", "still"} THEN "off" ELSE @]
    /\ module' = [module EXCEPT ![current] = FALSE]
    /\ paused' = [paused EXCEPT ![current] = FALSE]
    /\ UNCHANGED <<reading, games, boot, rate, native, shown, patient>>

BootStep(g) == ModuleReady(g) \/ ModuleFails(g) \/ FilesReady(g) \/ FilesFail(g)

Next ==
    \/ Play \/ RomUnreadable \/ Reveal
    \/ \E g \in Games : BootStep(g)
    \/ Pause \/ Resume \/ FastForward \/ Quit

\* The fetch, the compilation and the file system complete or fail.
Spec ==
    /\ Init /\ [][Next]_vars
    /\ WF_vars(RomUnreadable \/ Reveal)
    /\ \A g \in Games : WF_vars(BootStep(g))

----------------------------------------------------------------------------
(* Properties.                                                             *)

States == [paused : BOOLEAN, ff : BOOLEAN, error : BOOLEAN]

TypeOK ==
    /\ reading \in BOOLEAN /\ games \in 0..MaxGames /\ current \in 0..games
    /\ boot \in [Games -> {"none", "module", "files", "done", "failed"}]
    /\ module \in [Games -> BOOLEAN] /\ paused \in [Games -> BOOLEAN]
    /\ engine \in [Games -> {"off", "idle", "stalled", "runs", "still"}]
    /\ rate \in [Games -> {1, 2}] /\ native \in [Games -> BOOLEAN]
    /\ shown \in States /\ patient \in BOOLEAN

Plays(g) == engine[g] \in {"runs", "still"}

\* One game at a time: a game that was quit is gone, also after other games
\* have been started and quit.
OneGame == patient => \A g \in Games : Plays(g) => g = current

\* The game stands still exactly while the view shows it paused, whatever
\* pauses, failed boots and earlier games came before.
PausedIsStill ==
    patient /\ current # 0 /\ Plays(current)
        => (shown.paused <=> engine[current] = "still")

\* It runs at the speed that the view shows.
SpeedIsShown ==
    patient /\ current # 0 /\ Plays(current)
        => rate[current] = IF shown.ff THEN 2 ELSE 1

\* emulator.tsx keeps what it shows and the core what it does: for a user who lets a
\* boot end, the two agree after any pauses, changes of speed, failed boots and quits.
ShownAsItIs == PausedIsStill /\ SpeedIsShown

\* A game that is waited for ends up running or shows its error.
BootEnds ==
    \A g \in Games :
        current = g /\ ~Ended(g)
            ~> (current # g \/ Plays(g) \/ shown.error)

\* gba.ts "The app's input layer calls this with false on attach so that it is
\* the only thing pressing buttons": while a game runs in the view, mGBA's own
\* keyboard handler is off.
OneKeyboardOwner ==
    current # 0 /\ Plays(current) => ~native[current]
=============================================================================
