------------------------- MODULE RenderThreadProofs -------------------------
(***************************************************************************)
(* What RenderThread guarantees for every number of lines, over aborted    *)
(* frames, sleeps, resets, savestates and switches of the setting, and     *)
(* also if the emulator sets the thread up between two of its              *)
(* instructions (Races): the lines that are shown are drawn, and the       *)
(* thread rests while what it reads changes, but in a frame given up.      *)
(***************************************************************************)
EXTENDS RenderThread, TLAPS

USE LinesAssumption, RenderBoundsAssumption

Asleep == {"wait", "posted"}                       \* running, without a frame
Busy   == {"begin", "draw", "drawn", "posted"}     \* where rendering is set
Resets == {"resetStart", "check", "waitDone", "resetDone", "resetStart2", "resetLines"}

TypeOK ==
    /\ threaded \in BOOLEAN /\ running \in BOOLEAN /\ rendering \in BOOLEAN
    /\ start \in Nat /\ done \in Nat /\ lines \in Nat
    /\ tpc \in {"none", "wait", "awake", "begin", "draw", "drawn", "posted", "gone"}
    /\ row \in Rows
    /\ identical \in BOOLEAN /\ buf \in [Rows -> 0..Cleared] /\ picture \in 0..(Pictures - 1)
    /\ pos \in 0..Between /\ abort \in BOOLEAN /\ writes \in 0..MaxWrites /\ asleep \in BOOLEAN
    /\ mpc \in {"run", "create", "join", "enable"} \cup Resets
    /\ avail \in Nat /\ late \in BOOLEAN
    /\ why \in {"none", "restart", "settings", "state", "reset", "wake"}

\* The thread exists while it runs, and until the emulator has joined it.
Control ==
    /\ rendering <=> tpc \in Busy
    /\ running => tpc \notin {"none", "gone"}
    /\ ~running /\ mpc # "join" => tpc = "none"
    /\ mpc = "join" => ~running /\ ~threaded
    /\ mpc \in {"run", "enable"} => running = threaded
    /\ mpc \in Resets => running /\ threaded

\* A reset leaves nothing of a semaphore that only loses tokens meanwhile.
Emptied ==
    /\ mpc \notin {"resetStart", "resetDone", "resetStart2", "resetLines"} => avail = NotRead
    /\ mpc = "resetStart" /\ avail # NotRead => start <= avail
    /\ mpc \in Resets \ {"resetStart"} => start = 0
    /\ mpc = "enable" /\ running => start = 0

Full       == \A r \in Rows : buf[r] = picture
DrawnSoFar == \A r \in Rows : r < row => buf[r] = picture

\* The frame that was asked for last is waiting, being drawn, or drawn.
Pending  == \/ start = 1 /\ tpc \in Asleep
            \/ start = 0 /\ tpc \in {"awake", "begin"}
Drawing  == start = 0 /\ tpc = "draw" /\ DrawnSoFar
Drawn    == start = 0 /\ tpc = "drawn" /\ Full
Finished == start = 0 /\ tpc \in Asleep /\ Full
Job      == Pending \/ Drawing \/ Drawn \/ Finished

\* The same for a thread that finds out afterwards that it is to end.
LastJob ==
    \/ start = 1 /\ tpc = "begin"
    \/ start = 1 /\ tpc = "draw" /\ DrawnSoFar
    \/ start = 1 /\ tpc \in {"drawn", "posted", "wait"} /\ Full
    \/ start = 0 /\ tpc \in {"awake", "gone"} /\ Full

\* Tokens: a line's for every line that is drawn and not shown, one for a frame
\* that is drawn and not over.
Shown == IF pos <= VBlankAt THEN pos ELSE 0
Tokens ==
    IF pos = RenderAt THEN Finished /\ lines = 0 /\ done = 0
    ELSE \/ Pending  /\ Shown = 0 /\ lines = 0 /\ done = 0
         \/ Drawing  /\ lines + Shown = row /\ done = 0
         \/ Drawn    /\ lines + Shown = NumLines /\ done = 0
         \/ Finished /\ lines + Shown = NumLines /\ done = 1

\* What a setup finds: a frame that has ended, or one that is waiting, or one under way.
Orderly ==
    /\ \/ start = 0
       \/ start = 1 /\ tpc \in Asleep /\ done = 0
    /\ done > 0 => tpc \in Asleep

Stopped == running /\ start = 0 /\ tpc \in Asleep

\* What is known of the picture while no setup has met a frame half way.
Clean ==
    /\ identical => Full
    /\ ~running /\ mpc # "join" => Full /\ start = 0
    /\ mpc = "join" => LastJob
    /\ running /\ mpc \in {"run", "create"} => Job
    /\ running /\ mpc \in {"create", "resetStart", "check", "waitDone"} /\ ~abort => Orderly
    /\ running /\ mpc = "run" /\ ~abort => Tokens
    /\ mpc \in {"resetDone", "resetStart2", "resetLines"} => Stopped
    /\ mpc = "resetDone" /\ avail # NotRead => avail = done
    /\ mpc \in {"resetStart2", "resetLines"} => done = 0
    /\ mpc = "resetLines" /\ avail # NotRead => avail = lines
    /\ mpc = "enable" /\ running => Stopped /\ done = 0 /\ lines = 0

IInv == TypeOK /\ Control /\ Emptied /\ (~late => Clean)

LEMMA NotReadType == NotRead \in Nat
BY DEF NotRead

LEMMA InitIInv == Init => IInv
<1> SUFFICES ASSUME Init PROVE IInv
  OBVIOUS
<1>1. TypeOK
  <2>1. buf \in [Rows -> 0..Cleared] BY DEF Init, Cleared, Rows
  <2>2. pos \in 0..Between BY DEF Init, Between
  <2>3. picture \in 0..(Pictures - 1) /\ row \in Rows BY DEF Init, Rows
  <2>4. avail \in Nat BY NotReadType DEF Init
  <2>5. /\ running \in BOOLEAN /\ rendering \in BOOLEAN /\ identical \in BOOLEAN
        /\ abort \in BOOLEAN /\ asleep \in BOOLEAN /\ late \in BOOLEAN
    BY DEF Init
  <2>6. start \in Nat /\ done \in Nat /\ lines \in Nat /\ writes \in 0..MaxWrites
    BY DEF Init
  <2> QED BY <2>1, <2>2, <2>3, <2>4, <2>5, <2>6 DEF Init, TypeOK, Resets
<1>2. Control /\ Emptied
  BY DEF Init, Control, Emptied, Busy, Resets
<1>3. Clean
  BY DEF Init, Clean, Full, Resets
<1> QED
  BY <1>1, <1>2, <1>3 DEF IInv
-----------------------------------------------------------------------------
(* Types *)

LEMMA TypeThread == TypeOK /\ Thread => TypeOK'
<1> SUFFICES ASSUME TypeOK, Thread PROVE TypeOK'
  OBVIOUS
<1> USE DEF TypeOK, screen, setup, frame, sems, thread
<1>1. CASE TakeStart
  BY <1>1 DEF TakeStart
<1>2. CASE LookAtRunning
  BY <1>2 DEF LookAtRunning
<1>3. CASE Begin
  BY <1>3 DEF Begin, Rows, Cleared
<1>4. CASE DrawRow
  BY <1>4 DEF DrawRow, Rows, Cleared
<1>5. CASE PostDone
  BY <1>5 DEF PostDone
<1>6. CASE EndFrame
  BY <1>6, ZenonT(60) DEF EndFrame
<1> QED
  BY <1>1, <1>2, <1>3, <1>4, <1>5, <1>6 DEF Thread

LEMMA TypeSetup == TypeOK /\ SetupSteps => TypeOK'
<1> SUFFICES ASSUME TypeOK, SetupSteps PROVE TypeOK'
  OBVIOUS
<1> USE DEF TypeOK, screen, setup, frame, sems, thread, Resets
<1>1. CASE CreateOrStop
  <2>1. running' \in BOOLEAN
    BY <1>1 DEF CreateOrStop
  <2>2. late' \in BOOLEAN
    BY <1>1 DEF CreateOrStop
  <2>3. tpc' \in {"none", "wait", "awake", "begin", "draw", "drawn", "posted", "gone"}
    BY <1>1 DEF CreateOrStop
  <2>4. start' \in Nat
    BY <1>1 DEF CreateOrStop
  <2>5. mpc' \in {"run", "create", "join", "enable"} \cup Resets
    BY <1>1 DEF CreateOrStop
  <2>. QED  BY <1>1, <2>1, <2>2, <2>3, <2>4, <2>5 DEF CreateOrStop
<1>2. CASE Join
  BY <1>2 DEF Join
<1>3. CASE ResetStart("resetStart", "check") \/ ResetStart("resetStart2", "resetLines")
  BY <1>3, NotReadType DEF ResetStart, CountFirst, ThenTake
<1>4. CASE WaitIfRendering \/ WaitDone
  <2>1. late' \in BOOLEAN
    BY <1>4 DEF WaitIfRendering, WaitDone, Waited, AtRest
  <2>2. mpc' \in Resets /\ done' \in Nat
    BY <1>4 DEF WaitIfRendering, WaitDone, Waited
  <2>. QED  BY <1>4, <2>1, <2>2 DEF WaitIfRendering, WaitDone
<1>5. CASE ResetDone \/ ResetLines
  BY <1>5, NotReadType DEF ResetDone, ResetLines, CountFirst, ThenTake
<1>6. CASE Enable
  BY <1>6 DEF Enable, Between
<1> QED
  BY <1>1, <1>2, <1>3, <1>4, <1>5, <1>6 DEF SetupSteps

LEMMA TypeFrame ==
    TypeOK /\ (DrawScanline \/ VBlank \/ RenderFrame \/ FinishFrame \/ StartFrame) => TypeOK'
<1> SUFFICES ASSUME TypeOK, DrawScanline \/ VBlank \/ RenderFrame \/ FinishFrame \/ StartFrame
             PROVE  TypeOK'
  OBVIOUS
<1> USE DEF TypeOK, screen, setup, frame, sems, thread, Resets
<1>1. CASE DrawScanline
  BY <1>1 DEF DrawScanline, TakeLine, Rows, Between
<1>2. CASE VBlank
  BY <1>2 DEF VBlank, VBlankAt, Between
<1>3. CASE RenderFrame
  <2>1. picture' \in 0..(Pictures - 1)
    BY <1>3 DEF RenderFrame
  <2>2. buf' \in [Rows -> 0..Cleared]
    BY <1>3, <2>1 DEF RenderFrame, Cleared
  <2> QED
    BY <1>3, <2>1, <2>2 DEF RenderFrame, RenderAt, Between, AtRest
<1>4. CASE FinishFrame
  BY <1>4, NotReadType DEF FinishFrame, Setup, Between
<1>5. CASE StartFrame
  BY <1>5 DEF StartFrame, Between
<1> QED
  BY <1>1, <1>2, <1>3, <1>4, <1>5

LEMMA TypeGameUser == TypeOK /\ (Game \/ User) => TypeOK'
<1> SUFFICES ASSUME TypeOK, Game \/ User PROVE TypeOK'
  OBVIOUS
<1> USE DEF TypeOK, screen, setup, frame, sems, thread, Resets
<1>1. CASE EnterSleepMode
  BY <1>1 DEF EnterSleepMode
<1>2. ASSUME NEW p \in 0..FinishAt, SetVCount(p) PROVE TypeOK'
  BY <1>2 DEF SetVCount, FinishAt, Between
<1>3. CASE WakeUp \/ SetThreaded \/ DoSavestate
  <2>1. threaded' \in BOOLEAN
    BY <1>3 DEF WakeUp, SetThreaded, DoSavestate
  <2>. QED  BY <1>3, <2>1, NotReadType DEF WakeUp, SetThreaded, DoSavestate, Setup
<1>4. CASE Reset
  BY <1>4, NotReadType DEF Reset, Setup, Cleared
<1> QED
  BY <1>1, <1>2, <1>3, <1>4 DEF Game, User

LEMMA TypeStep == TypeOK /\ [Next]_vars => TypeOK'
<1>1. TypeOK /\ UNCHANGED vars => TypeOK'
  BY DEF TypeOK, vars, screen, setup, frame, sems, thread
<1> QED
  BY <1>1, TypeThread, TypeSetup, TypeFrame, TypeGameUser DEF Next, Emulator
-----------------------------------------------------------------------------
(* The thread's life and the semaphores that a setup empties *)

Parts == TypeOK /\ Control /\ Emptied

\* A frame's steps, the game and the user leave all that alone, or begin a setup.
LEMMA PartsFrame ==
    Parts /\ (DrawScanline \/ VBlank \/ RenderFrame \/ FinishFrame \/ StartFrame \/ Game \/ User)
        => Control' /\ Emptied'
<1> SUFFICES ASSUME Parts,
                    DrawScanline \/ VBlank \/ RenderFrame \/ FinishFrame \/ StartFrame \/ Game \/ User
             PROVE  Control' /\ Emptied'
  OBVIOUS
<1> USE DEF Parts, TypeOK, Control, Emptied, Resets, Busy, screen, setup, frame, sems, thread
<1>1. CASE DrawScanline \/ VBlank \/ StartFrame
  BY <1>1 DEF DrawScanline, TakeLine, VBlank, StartFrame, Running
<1>2. CASE RenderFrame
  BY <1>2 DEF RenderFrame, Running
<1>3. CASE FinishFrame
  BY <1>3 DEF FinishFrame, Setup, Running
<1>4. CASE Game
  BY <1>4 DEF Game, EnterSleepMode, SetVCount, Running
<1>5. CASE User
  BY <1>5 DEF User, WakeUp, SetThreaded, DoSavestate, Reset, Setup, Frontend
<1> QED
  BY <1>1, <1>2, <1>3, <1>4, <1>5

LEMMA PartsThread == Parts /\ Thread => Control' /\ Emptied'
<1> SUFFICES ASSUME Parts, Thread PROVE Control' /\ Emptied'
  OBVIOUS
<1> USE DEF Parts, TypeOK, Control, Emptied, Resets, Busy, screen, setup, frame, sems, thread
<1>1. CASE TakeStart
  BY <1>1 DEF TakeStart
<1>2. CASE LookAtRunning
  BY <1>2 DEF LookAtRunning
<1>3. CASE Begin \/ DrawRow
  BY <1>3 DEF Begin, DrawRow
<1>4. CASE PostDone \/ EndFrame
  BY <1>4 DEF PostDone, EndFrame
<1> QED
  BY <1>1, <1>2, <1>3, <1>4 DEF Thread

LEMMA PartsSetup == Parts /\ SetupSteps => Control' /\ Emptied'
<1> SUFFICES ASSUME Parts, SetupSteps PROVE Control' /\ Emptied'
  OBVIOUS
<1> USE DEF Parts, TypeOK, Control, Emptied, Resets, Busy, screen, setup, frame, sems, thread
<1>1. CASE CreateOrStop
  BY <1>1 DEF CreateOrStop
<1>2. CASE Join
  BY <1>2 DEF Join
<1>3. CASE ResetStart("resetStart", "check") \/ ResetStart("resetStart2", "resetLines")
  BY <1>3 DEF ResetStart, CountFirst, ThenTake
<1>4. CASE WaitIfRendering \/ WaitDone
  BY <1>4 DEF WaitIfRendering, WaitDone, Waited
<1>5. CASE ResetDone \/ ResetLines
  BY <1>5 DEF ResetDone, ResetLines, CountFirst, ThenTake
<1>6. CASE Enable
  BY <1>6 DEF Enable
<1> QED
  BY <1>1, <1>2, <1>3, <1>4, <1>5, <1>6 DEF SetupSteps
-----------------------------------------------------------------------------
(* The picture *)

Known == Parts /\ (~late => Clean)

\* The thread draws: the frame goes from Pending to Finished, a line's token
\* follows every line, and the frame's token the last of them.
LEMMA CleanThread == Known /\ Thread /\ ~late' => Clean'
<1> SUFFICES ASSUME Known, Thread, ~late' PROVE Clean'
  OBVIOUS
<1> USE DEF Known, Parts, TypeOK, screen, setup, frame, sems, thread
<1>c. ~late /\ Clean /\ late' = late
  BY DEF Thread, TakeStart, LookAtRunning, Begin, DrawRow, PostDone, EndFrame
<1> USE <1>c
<1> USE DEF Clean, LastJob, Job, Pending, Drawing, Drawn, Finished, Tokens, Shown, Stopped, Orderly, Asleep,
        Control, Emptied, Resets
<1>1. CASE TakeStart
  <2>1. (Full' <=> Full) /\ (DrawnSoFar' <=> DrawnSoFar)
    BY <1>1 DEF TakeStart, Full, DrawnSoFar
  <2> QED
    BY <1>1, <2>1 DEF TakeStart
<1>2. CASE LookAtRunning
  <2>1. (Full' <=> Full) /\ (DrawnSoFar' <=> DrawnSoFar)
    BY <1>2 DEF LookAtRunning, Full, DrawnSoFar
  <2> QED
    BY <1>2, <2>1 DEF LookAtRunning
<1>3. CASE Begin
  <2>1. CASE identical
    <3>1. Full' <=> Full
      BY <1>3, <2>1 DEF Begin, Full
    <3> QED
      BY <1>3, <2>1, <3>1 DEF Begin
  <2>2. CASE ~identical
    <3>1. DrawnSoFar'
      BY <1>3, <2>2 DEF Begin, DrawnSoFar, Rows
    <3> QED
      BY <1>3, <2>2, <3>1 DEF Begin
  <2> QED
    BY <2>1, <2>2
<1>4. CASE DrawRow
  <2>1. buf' = [buf EXCEPT ![row] = picture] /\ picture' = picture
    BY <1>4 DEF DrawRow
  <2>2. Full => Full'
    BY <2>1 DEF Full
  <2>3. CASE row = NumLines - 1
    <3>1. DrawnSoFar => Full'
      BY <2>1, <2>3 DEF DrawnSoFar, Full, Rows
    <3> QED
      BY <1>4, <2>2, <2>3, <3>1 DEF DrawRow
  <2>4. CASE row # NumLines - 1
    <3>1. row' = row + 1
      BY <1>4, <2>4 DEF DrawRow
    <3>2. DrawnSoFar => DrawnSoFar'
      BY <2>1, <3>1 DEF DrawnSoFar, Rows
    <3> QED
      BY <1>4, <2>2, <2>4, <3>1, <3>2 DEF DrawRow
  <2> QED
    BY <2>3, <2>4
<1>5. CASE PostDone
  <2>1. Full' <=> Full
    BY <1>5 DEF PostDone, Full
  <2> QED
    BY <1>5, <2>1 DEF PostDone
<1>6. CASE EndFrame
  <2>1. Full' <=> Full
    BY <1>6 DEF EndFrame, Full
  <2> QED
    BY <1>6, <2>1 DEF EndFrame
<1> QED
  BY <1>1, <1>2, <1>3, <1>4, <1>5, <1>6 DEF Thread

\* A frame takes the tokens in its order, and asks for the next picture when the
\* thread rests.
LEMMA CleanFrame ==
    Known /\ (DrawScanline \/ VBlank \/ RenderFrame \/ FinishFrame \/ StartFrame) /\ ~late' => Clean'
<1> SUFFICES ASSUME Known, DrawScanline \/ VBlank \/ RenderFrame \/ FinishFrame \/ StartFrame, ~late'
             PROVE  Clean'
  OBVIOUS
<1> USE DEF Known, Parts, TypeOK, screen, setup, frame, sems, thread, Clean, LastJob, Job, Pending,
        Drawing, Drawn, Finished, Tokens, Shown, Stopped, Orderly, Asleep, Control, Emptied, Resets, Running,
        VBlankAt, RenderAt, FinishAt, Between
<1>1. CASE DrawScanline
  <2>1. (Full' <=> Full) /\ (DrawnSoFar' <=> DrawnSoFar)
    BY <1>1 DEF DrawScanline, TakeLine, Full, DrawnSoFar
  <2>2. CASE running /\ ~abort
    <3>1. /\ pos \in 0..(NumLines - 1) /\ pos' = pos + 1
          /\ lines > 0 /\ lines' = lines - 1
          /\ done' = done /\ start' = start /\ tpc' = tpc /\ row' = row
      BY <1>1, <2>2 DEF DrawScanline, TakeLine, Rows
    <3>2. Shown' = Shown + 1 /\ pos' # RenderAt /\ pos # RenderAt
      BY <3>1
    <3>3. /\ (Pending' <=> Pending) /\ (Drawing' <=> Drawing)
          /\ (Drawn' <=> Drawn) /\ (Finished' <=> Finished)
      BY <2>1, <3>1
    <3>4. Tokens /\ Shown \in Nat
      BY <1>1, <2>2, <3>1 DEF DrawScanline, TakeLine
    <3>5. Tokens'
      <4> HIDE DEF Shown, Pending, Drawing, Drawn, Finished, Clean
      <4> QED
        BY <3>1, <3>2, <3>3, <3>4
    <3> QED
      BY <1>1, <2>1, <2>2, <3>5 DEF DrawScanline, TakeLine
  <2>3. CASE ~(running /\ ~abort)
    BY <1>1, <2>1, <2>3 DEF DrawScanline, TakeLine
  <2> QED
    BY <2>2, <2>3
<1>2. CASE VBlank
  <2>1. (Full' <=> Full) /\ (DrawnSoFar' <=> DrawnSoFar)
    BY <1>2 DEF VBlank, Full, DrawnSoFar
  <2> QED
    BY <1>2, <2>1 DEF VBlank
<1>3. CASE RenderFrame
  <2>1. CASE running
    <3>1. ~late /\ Finished
      BY <1>3, <2>1 DEF RenderFrame, AtRest
    <3>2. identical' => Full'
      BY <1>3, <2>1, <3>1 DEF RenderFrame, Full
    <3> QED
      BY <1>3, <2>1, <3>1, <3>2 DEF RenderFrame
  <2>2. CASE ~running
    <3>1. Full'
      BY <1>3, <2>2 DEF RenderFrame, Full
    <3> QED
      BY <1>3, <2>2, <3>1 DEF RenderFrame
  <2> QED
    BY <2>1, <2>2
<1>4. CASE FinishFrame
  <2>1. (Full' <=> Full) /\ (DrawnSoFar' <=> DrawnSoFar)
    BY <1>4 DEF FinishFrame, Full, DrawnSoFar
  <2> QED
    BY <1>4, <2>1 DEF FinishFrame, Setup
<1>5. CASE StartFrame
  <2>1. (Full' <=> Full) /\ (DrawnSoFar' <=> DrawnSoFar)
    BY <1>5 DEF StartFrame, Full, DrawnSoFar
  <2> QED
    BY <1>5, <2>1 DEF StartFrame
<1> QED
  BY <1>1, <1>2, <1>3, <1>4, <1>5

\* The game's writes and sleeps only leave the frame, and a setup that begins finds
\* the thread's frame as it is.
LEMMA CleanGameUser == Known /\ (Game \/ User) /\ ~late' => Clean'
<1> SUFFICES ASSUME Known, Game \/ User, ~late' PROVE Clean'
  OBVIOUS
<1> USE DEF Known, Parts, TypeOK, screen, setup, frame, sems, thread, Clean, LastJob, Job, Pending,
        Drawing, Drawn, Finished, Tokens, Shown, Stopped, Orderly, Asleep, Control, Emptied, Resets, Running
<1>1. CASE Game
  <2>1. (Full' <=> Full) /\ (DrawnSoFar' <=> DrawnSoFar)
    BY <1>1 DEF Game, EnterSleepMode, SetVCount, Full, DrawnSoFar
  <2> QED
    BY <1>1, <2>1 DEF Game, EnterSleepMode, SetVCount
<1>2. CASE WakeUp \/ SetThreaded \/ DoSavestate
  <2>1. (Full' <=> Full) /\ (DrawnSoFar' <=> DrawnSoFar)
    BY <1>2 DEF WakeUp, SetThreaded, DoSavestate, Full, DrawnSoFar
  <2> QED
    BY <1>2, <2>1 DEF WakeUp, SetThreaded, DoSavestate, Setup, Frontend
<1>3. CASE Reset
  <2>1. Full' /\ DrawnSoFar'
    BY <1>3 DEF Reset, Full, DrawnSoFar
  <2> QED
    BY <1>3, <2>1 DEF Reset, Setup, Frontend
<1> QED
  BY <1>1, <1>2, <1>3 DEF User

\* A setup ends with a clean slate, or knows that it does not.
LEMMA CleanSetup == Known /\ SetupSteps /\ ~late' => Clean'
<1> SUFFICES ASSUME Known, SetupSteps, ~late' PROVE Clean'
  OBVIOUS
<1> USE DEF Known, Parts, TypeOK, screen, setup, frame, sems, thread, Clean, LastJob, Job, Pending,
        Drawing, Drawn, Finished, Stopped, Orderly, Asleep, Control, Emptied, Resets
<1>0. (Full' <=> Full) /\ (DrawnSoFar' <=> DrawnSoFar)
  BY DEF SetupSteps, CreateOrStop, Join, ResetStart, WaitIfRendering, WaitDone, ResetDone, ResetLines,
         Enable, Full, DrawnSoFar
<1>1. CASE CreateOrStop
  BY <1>0, <1>1 DEF CreateOrStop
<1>2. CASE Join
  BY <1>0, <1>2 DEF Join
<1>3. CASE ResetStart("resetStart", "check") \/ ResetStart("resetStart2", "resetLines")
  BY <1>0, <1>3 DEF ResetStart, CountFirst, ThenTake
<1>4. CASE WaitIfRendering \/ WaitDone
  BY <1>0, <1>4 DEF WaitIfRendering, WaitDone, Waited, AtRest
<1>5. CASE ResetDone \/ ResetLines
  BY <1>0, <1>5 DEF ResetDone, ResetLines, CountFirst, ThenTake
<1>6. CASE Enable
  BY <1>0, <1>6 DEF Enable, Tokens, Shown, VBlankAt, RenderAt, Between
<1> QED
  BY <1>1, <1>2, <1>3, <1>4, <1>5, <1>6 DEF SetupSteps

LEMMA StepIInv == IInv /\ [Next]_vars => IInv'
<1> SUFFICES ASSUME IInv, [Next]_vars PROVE IInv'
  OBVIOUS
<1>1. Known
  BY DEF IInv, Known, Parts
<1>2. TypeOK'
  BY TypeStep DEF IInv
<1>3. CASE UNCHANGED vars
  BY <1>2, <1>3 DEF IInv, Control, Emptied, vars, screen, setup, frame, sems, thread, Clean, LastJob,
     Job, Pending, Drawing, Drawn, Finished, Tokens, Shown, Stopped, Orderly, Full, DrawnSoFar
<1>4. CASE Next
  <2>1. Control' /\ Emptied'
    BY <1>1, <1>4, PartsThread, PartsSetup, PartsFrame DEF Known, Next, Emulator
  <2>2. ~late' => Clean'
    BY <1>1, <1>4, CleanThread, CleanSetup, CleanFrame, CleanGameUser DEF Next, Emulator
  <2> QED
    BY <1>2, <2>1, <2>2 DEF IInv
<1> QED
  BY <1>3, <1>4

\* The inductive invariant: where the frame that was asked for stands, and what the
\* semaphores hold of it, through every setup of the thread.
THEOREM RenderInv == Spec => []IInv
BY InitIInv, StepIInv, PTL DEF Spec

\* A line is shown when it is drawn, and of the picture that was asked for.
THEOREM RenderLinesAreReady == Spec => []LinesAreReady
<1>1. IInv => LinesAreReady
  BY DEF IInv, TypeOK, Clean, LinesAreReady, LineIsReady, Running, Tokens, Shown, Pending, Drawing,
         Drawn, Finished, Full, DrawnSoFar, Control, Rows, VBlankAt, RenderAt
<1> QED
  BY <1>1, RenderInv, PTL

\* The thread rests while what it reads changes: from the vertical blank to line 215
\* of a frame that the game has not given up, and when a setup is about to let it
\* start again; a setup outside a frame given up waits for the frame under way.
THEOREM RenderQuietForChanges == Spec => []QuietForChanges
<1>1. IInv => QuietForChanges
  BY DEF IInv, TypeOK, Control, Clean, QuietForChanges, Resting, Running, Tokens, Finished, Stopped,
         Orderly, Asleep, Resets
<1> QED
  BY <1>1, RenderInv, PTL
=============================================================================
