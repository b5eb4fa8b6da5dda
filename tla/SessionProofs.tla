--------------------------- MODULE SessionProofs ---------------------------
(***************************************************************************)
(* The safety properties of a DS session, for any number of boots, pauses, *)
(* speed changes and quits.  Two inductive invariants: one about the boot, *)
(* which holds in every browser, and one about the loop, which needs the   *)
(* effects to run before the user acts again.                              *)
(***************************************************************************)
EXTENDS Session, TLAPS

Act(h) == Pause(h) \/ Resume(h) \/ StartFastForward(h) \/ StopFastForward(h)

\* A boot is under way only over the entry page, and from the moment that it
\* waits for the file system there is an emulator.
BootInv ==
    /\ step # "idle" => view = "entry"
    /\ step \notin {"idle", "rom"} => emulator
    /\ view # "entry" => emulator /\ loaded

LEMMA BootStep ==
    ASSUME BootInv, [Next]_vars PROVE BootInv'
<1> USE DEF BootInv
<1>1. CASE Play
  BY <1>1 DEF Play, core
<1>2. CASE RomRead
  BY <1>2 DEF RomRead, FinishBoot, Reveal
<1>3. CASE RomUnreadable
  BY <1>3 DEF RomUnreadable, core
<1>4. CASE FirmwareBoot
  BY <1>4 DEF FirmwareBoot
<1>5. CASE PrepareFirmware
  BY <1>5 DEF PrepareFirmware, FinishBoot, Reveal
<1>6. CASE OpenSaves
  BY <1>6 DEF OpenSaves, core
<1>7. CASE Restored
  BY <1>7 DEF Restored, FinishBoot, Reveal
<1>8. CASE MountGame
  BY <1>8 DEF MountGame, boot, core
<1>9. CASE InstallHandler \/ OrphanFrame
  BY <1>9 DEF InstallHandler, OrphanFrame, boot, core
<1>10. CASE Leave
  BY <1>10 DEF Leave, Shutdown, boot
<1>11. ASSUME NEW h, Act(h) PROVE BootInv'
  BY <1>11 DEF Act, Pause, Resume, StartFastForward, StopFastForward, boot, core
<1>12. CASE UNCHANGED vars
  BY <1>12 DEF vars, boot, core
<1> QED
  BY <1>1, <1>2, <1>3, <1>4, <1>5, <1>6, <1>7, <1>8, <1>9, <1>10, <1>11, <1>12
     DEF Next, Act

\* nds.ts: the game view never appears over an emulator before the loading of its
\* BIOS and cart has finished, in any order of failed and finished boots.
THEOREM SessionRevealedIsLoaded == Spec => []RevealedIsLoaded
<1>1. Init => BootInv
  BY DEF Init, BootInv
<1>2. BootInv /\ [Next]_vars => BootInv'
  BY BootStep
<1>3. BootInv => RevealedIsLoaded
  BY DEF BootInv, RevealedIsLoaded
<1> QED BY <1>1, <1>2, <1>3, PTL DEF Spec

----------------------------------------------------------------------------
ShownRate == IF shown.ff THEN 2 ELSE 1

\* What the loop, the view and the speed are to each other.  Outside the game
\* the speed is back at 1, or the next game would start with the old one.
LoopInv ==
    /\ shown \in States /\ handler \in States
    /\ loops \in {0, 1}
    /\ named <=> loops = 1
    /\ ~latch
    /\ view \in {"entry", "revealed", "game"}
    /\ view # "game" => loops = 0 /\ speed = 1 /\ shown = Running
    /\ view = "game" => /\ shown.paused <=> loops = 0
                        /\ speed = ShownRate
                        /\ loops = 1 => rate = speed

SafeInv == BootInv /\ (prompt => LoopInv)

\* The handlers of the game view, which a prompt browser calls with the state
\* that is shown.
LEMMA ActKeepsLoopInv ==
    ASSUME LoopInv, prompt, NEW h, Act(h) PROVE LoopInv'
<1>1. view = "game" /\ h = shown /\ view' = view /\ latch' = latch /\ handler' = handler
  BY DEF Act, Pause, Resume, StartFastForward, StopFastForward, CanAct
<1>2. CASE Pause(h)
  <2>1. shown' = [shown EXCEPT !.paused = TRUE] /\ ~shown.paused /\ loops = 1 /\ named
    BY <1>1, <1>2 DEF Pause, LoopInv
  <2>2. loops' = 0 /\ ~named' /\ speed' = speed
    BY <1>2, <2>1 DEF Pause, ClearLoop, LoopsAfterClear
  <2> QED BY <1>1, <2>1, <2>2 DEF LoopInv, States, ShownRate
<1>3. CASE Resume(h)
  <2>1. shown' = [shown EXCEPT !.paused = FALSE] /\ shown.paused /\ loops = 0
    BY <1>1, <1>3 DEF Resume, LoopInv
  <2>2. loops' = 1 /\ named' /\ speed' = speed /\ rate' = speed
    BY <1>3, <2>1 DEF Resume, StartLoop
  <2>3. shown' \in States /\ ~shown'.paused /\ shown'.ff = shown.ff
    BY <2>1 DEF LoopInv, States
  <2> QED BY <1>1, <2>2, <2>3 DEF LoopInv, ShownRate
<1>4. CASE StartFastForward(h)
  <2>1. shown' = [shown EXCEPT !.ff = TRUE] /\ ~shown.paused /\ loops = 1 /\ named
    BY <1>1, <1>4 DEF StartFastForward, LoopInv
  <2>2. loops' = 1 /\ named' /\ speed' = 2 /\ rate' = 2
    BY <1>4, <2>1 DEF StartFastForward, SetSpeed, StartLoop, LoopsAfterClear
  <2> QED BY <1>1, <2>1, <2>2 DEF LoopInv, States, ShownRate
<1>5. CASE StopFastForward(h)
  <2>1. shown' = [shown EXCEPT !.ff = FALSE] /\ ~shown.paused /\ loops = 1 /\ named
    BY <1>1, <1>5 DEF StopFastForward, LoopInv
  <2>2. loops' = 1 /\ named' /\ speed' = 1 /\ rate' = 1
    BY <1>5, <2>1 DEF StopFastForward, SetSpeed, StartLoop, LoopsAfterClear
  <2> QED BY <1>1, <2>1, <2>2 DEF LoopInv, States, ShownRate
<1> QED BY <1>2, <1>3, <1>4, <1>5 DEF Act

LEMMA LoopStep ==
    ASSUME SafeInv, [Next]_vars PROVE SafeInv'
<1>1. BootInv'
  BY BootStep DEF SafeInv
<1>2. prompt' = prompt
  BY DEF Next, Play, RomRead, RomUnreadable, FirmwareBoot, PrepareFirmware, OpenSaves,
         Restored, MountGame, InstallHandler, Leave, OrphanFrame,
         Pause, Resume, StartFastForward, StopFastForward, vars
<1> SUFFICES ASSUME prompt, LoopInv, BootInv PROVE LoopInv'
  BY <1>1, <1>2 DEF SafeInv
<1>3. CASE Play \/ RomUnreadable \/ FirmwareBoot \/ OpenSaves
  <2>1. UNCHANGED <<engine, latch, shown, handler, view>>
    BY <1>3 DEF Play, RomUnreadable, FirmwareBoot, OpenSaves
  <2> QED BY <2>1 DEF engine, LoopInv, ShownRate
<1>4. CASE RomRead \/ PrepareFirmware \/ Restored
  <2>1. UNCHANGED <<engine, latch, shown, handler>>
    BY <1>4 DEF RomRead, PrepareFirmware, Restored
  <2>2. view' = view \/ (view = "entry" /\ view' = "revealed")
    BY <1>4 DEF RomRead, PrepareFirmware, Restored, FinishBoot, Reveal, BootInv
  <2> QED BY <2>1, <2>2 DEF engine, LoopInv, ShownRate
<1>5. CASE MountGame
  <2>1. /\ view = "revealed" /\ view' = "game" /\ handler' = shown
        /\ loops' = loops + 1 /\ named' /\ rate' = speed
        /\ UNCHANGED <<speed, latch, shown>>
    BY <1>5 DEF MountGame, StartLoop
  <2> QED BY <2>1 DEF LoopInv, ShownRate, Running
<1>6. CASE InstallHandler
  <2>1. UNCHANGED <<engine, latch, shown, view>> /\ handler' = shown
    BY <1>6 DEF InstallHandler
  <2> QED BY <2>1 DEF engine, LoopInv, ShownRate
<1>7. CASE Leave
  <2>1. view = "game" /\ view' = "entry" /\ latch' = latch
    BY <1>7 DEF Leave
  <2>2. shown' = Running /\ handler' = Running /\ speed' = 1 /\ ~named'
    BY <1>7 DEF Leave, Shutdown, ClearLoop
  <2>3. loops' = 0
    BY <1>7 DEF Leave, Shutdown, ClearLoop, LoopsAfterClear, LoopInv
  <2> QED BY <2>1, <2>2, <2>3 DEF LoopInv, Running, States
<1>8. CASE OrphanFrame
  \* Impossible: a loop runs only in the game view, which has an emulator.
  BY <1>8 DEF OrphanFrame, LoopInv, BootInv
<1>9. ASSUME NEW h, Act(h) PROVE LoopInv'
  BY <1>9, ActKeepsLoopInv
<1>10. CASE UNCHANGED vars
  BY <1>10 DEF vars, engine, LoopInv, ShownRate
<1> QED
  BY <1>3, <1>4, <1>5, <1>6, <1>7, <1>8, <1>9, <1>10 DEF Next, Act

LEMMA SafeInvInvariant == Spec => []SafeInv
<1>1. Init => SafeInv
  BY DEF Init, SafeInv, BootInv, LoopInv, States, Running
<1>2. SafeInv /\ [Next]_vars => SafeInv'
  BY LoopStep
<1> QED BY <1>1, <1>2, PTL DEF Spec

\* webmelon.js clears an interval by the name it keeps: there is never a loop
\* without a name, nor one that outlives its emulator.
THEOREM SessionOneLoop == Spec => []OneLoop
<1>1. SafeInv => OneLoop
  BY DEF SafeInv, BootInv, LoopInv, OneLoop
<1> QED BY <1>1, SafeInvInvariant, PTL

\* emulator.tsx: what the pause and fast-forward buttons show is what the
\* loop does.
THEOREM SessionPausedIsStill == Spec => []PausedIsStill
<1>1. SafeInv => PausedIsStill
  BY DEF SafeInv, LoopInv, PausedIsStill
<1> QED BY <1>1, SafeInvInvariant, PTL

\* The speed is that of the view, also after a quit during fast forward.
THEOREM SessionSpeedIsShown == Spec => []SpeedIsShown
<1>1. SafeInv => SpeedIsShown
  BY DEF SafeInv, LoopInv, SpeedIsShown, ShownRate
<1> QED BY <1>1, SafeInvInvariant, PTL

\* Both together: the view shows the game as it is.
THEOREM SessionShownAsItIs == Spec => []ShownAsItIs
<1>1. PausedIsStill /\ SpeedIsShown => ShownAsItIs
  BY DEF ShownAsItIs
<1> QED BY <1>1, SessionPausedIsStill, SessionSpeedIsShown, PTL

\* webmelon.js runFrame: no frame is ever left with its latch set.
THEOREM SessionFramesGoOn == Spec => []FramesGoOn
<1>1. SafeInv => FramesGoOn
  BY DEF SafeInv, LoopInv, FramesGoOn
<1> QED BY <1>1, SafeInvInvariant, PTL
=============================================================================
