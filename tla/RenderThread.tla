--------------------------- MODULE RenderThread ---------------------------
(***************************************************************************)
(* The software 3D renderer's thread (melonDS, GPU3D_Soft.cpp) beside the  *)
(* emulator's own (GPU.cpp, NDS.cpp).  Three counting semaphores carry a   *)
(* frame: the emulator posts Sema_RenderStart at line 215, takes one       *)
(* Sema_ScanlineCount for every line it shows and one Sema_RenderDone at   *)
(* the vertical blank.  A game that writes VCOUNT gives the frame up, one  *)
(* that sleeps leaves it half way, and the frontend resets, saves, loads   *)
(* and switches the thread on and off: all of them start over through      *)
(* SetupRenderThread.                                                      *)
(*                                                                         *)
(* A picture is a number, taken by every RenderFrame that has something    *)
(* new to draw.  Semaphores are those of the desktop frontend, the one     *)
(* that has the setting.                                                   *)
(***************************************************************************)
EXTENDS Naturals

CONSTANTS
    NumLines,   \* lines of the screen, 192 in the source
    Pictures,   \* bound: pictures are counted modulo this
    MaxWrites,  \* bound on the writes to VCOUNT in one frame
    Races       \* the emulator may set up between two instructions of the thread

ASSUME LinesAssumption == NumLines \in Nat \ {0}
ASSUME RenderBoundsAssumption ==
    Pictures \in Nat \ {0, 1} /\ MaxWrites \in Nat /\ Races \in BOOLEAN

VARIABLES
    threaded,   \* Threaded: the setting
    running,    \* RenderThreadRunning
    rendering,  \* RenderThreadRendering
    start, done, lines,  \* the semaphores' counts
    tpc,        \* where the thread is; "none" without one
    row,        \* the line it draws next
    identical,  \* FrameIdentical
    buf,        \* ColorBuffer: the picture of every line, or Cleared
    picture,    \* what RenderFrame asked for last
    pos,        \* the emulator's place in the frame
    mpc,        \* "run", or its place in SetupRenderThread
    avail,      \* what Semaphore_Reset has read, or NotRead
    why,        \* who has called it
    abort,      \* AbortFrame
    writes,     \* writes to VCOUNT in this frame
    asleep,     \* CPUStop_Sleep
    late        \* history: tokens of an earlier frame are left, or a picture was never drawn

sems   == <<start, done, lines>>
thread == <<tpc, row, rendering>>
screen == <<identical, buf, picture>>
setup  == <<mpc, avail, why, late>>
frame  == <<pos, abort, writes, asleep>>
vars   == <<threaded, running, sems, thread, screen, setup, frame>>

Cleared == Pictures
NotRead == Pictures + NumLines * (MaxWrites + 4)   \* above any count
Rows    == 0..(NumLines - 1)

\* Places in a frame: its lines, then these.
VBlankAt == NumLines
RenderAt == NumLines + 1    \* line 215
FinishAt == NumLines + 2    \* line 262
Between  == NumLines + 3    \* RunFrame has returned

InSetup == mpc \notin {"run", "join"}

Init ==
    /\ threaded \in BOOLEAN
    /\ running = FALSE /\ rendering = FALSE
    /\ start = 0 /\ done = 0 /\ lines = 0
    /\ tpc = "none" /\ row = 0
    /\ identical = FALSE /\ buf = [r \in Rows |-> 0] /\ picture = 0
    /\ pos = Between /\ abort = FALSE /\ writes = 0 /\ asleep = FALSE
    /\ mpc = "create" /\ avail = NotRead /\ why = "reset" /\ late = FALSE
-----------------------------------------------------------------------------
(* The render thread *)

\* Without Races the thread never wakes up in the middle of a setup.
TakeStart ==
    /\ tpc = "wait" /\ start > 0
    /\ Races \/ ~InSetup
    /\ start' = start - 1 /\ tpc' = "awake"
    /\ UNCHANGED <<threaded, running, done, lines, row, rendering, screen, setup, frame>>

LookAtRunning ==
    /\ tpc = "awake"
    /\ tpc' = IF running THEN "begin" ELSE "gone"
    /\ rendering' = running
    /\ UNCHANGED <<threaded, running, sems, row, screen, setup, frame>>

Begin ==
    /\ tpc = "begin"
    /\ \/ /\ identical
          /\ lines' = lines + NumLines /\ tpc' = "drawn"
          /\ UNCHANGED <<buf, row>>
       \/ /\ ~identical
          /\ buf' = [r \in Rows |-> Cleared] /\ row' = 0 /\ tpc' = "draw"
          /\ UNCHANGED lines
    /\ UNCHANGED <<threaded, running, start, done, rendering, identical, picture, setup, frame>>

DrawRow ==
    /\ tpc = "draw"
    /\ buf' = [buf EXCEPT ![row] = picture] /\ lines' = lines + 1
    /\ IF row = NumLines - 1 THEN tpc' = "drawn" /\ row' = 0
                             ELSE row' = row + 1 /\ UNCHANGED tpc
    /\ UNCHANGED <<threaded, running, start, done, rendering, identical, picture, setup, frame>>

PostDone ==
    /\ tpc = "drawn"
    /\ done' = done + 1 /\ tpc' = "posted"
    /\ UNCHANGED <<threaded, running, start, lines, row, rendering, screen, setup, frame>>

\* Seeded fault: the flag goes down before the frame is drawn.
EndFrameEarly ==
    /\ tpc = "posted"
    /\ tpc' = "wait" /\ UNCHANGED rendering
    /\ UNCHANGED <<threaded, running, sems, row, screen, setup, frame>>

EndFrame ==
    /\ tpc = "posted"
    /\ rendering' = FALSE /\ tpc' = "wait"
    /\ UNCHANGED <<threaded, running, sems, row, screen, setup, frame>>

Thread == TakeStart \/ LookAtRunning \/ Begin \/ DrawRow \/ PostDone \/ EndFrame
-----------------------------------------------------------------------------
(* SetupRenderThread, EnableRenderThread and StopRenderThread *)

Setup(caller) == mpc' = "create" /\ why' = caller /\ avail' = NotRead /\ UNCHANGED late

InWindow == tpc \in {"awake", "posted"}
AtRest   == tpc \in {"none", "wait", "posted"}

CreateOrStop ==
    /\ mpc = "create" /\ (Races \/ ~InWindow)
    /\ \/ /\ threaded
          /\ running' = TRUE /\ mpc' = "resetStart"
          /\ tpc' = IF running THEN tpc ELSE "wait"
          /\ UNCHANGED <<start, late>>
       \/ /\ ~threaded /\ running
          /\ running' = FALSE /\ start' = start + 1 /\ mpc' = "join"
          /\ late' = (late \/ start > 0 \/ tpc = "awake")
          /\ UNCHANGED tpc
       \/ /\ ~threaded /\ ~running
          /\ mpc' = "enable"
          /\ UNCHANGED <<running, start, tpc, late>>
    /\ UNCHANGED <<threaded, done, lines, row, rendering, screen, avail, why, frame>>

Join ==
    /\ mpc = "join" /\ tpc = "gone"
    /\ tpc' = "none" /\ mpc' = "enable"
    /\ UNCHANGED <<threaded, running, sems, row, rendering, screen, avail, why, late, frame>>

\* Semaphore_Reset: acquire(available()), in two steps.
CountFirst(count) == avail = NotRead /\ avail' = count
ThenTake(count)   == avail # NotRead /\ count >= avail /\ avail' = NotRead

ResetStart(at, next) ==
    /\ mpc = at
    /\ \/ CountFirst(start) /\ UNCHANGED <<start, mpc>>
       \/ ThenTake(start) /\ start' = start - avail /\ mpc' = next
    /\ UNCHANGED <<threaded, running, done, lines, thread, screen, why, late, frame>>

\* The slate is clean if the thread rests now and is going to draw the picture.
Waited == mpc' = "resetDone" /\ late' = (~AtRest \/ (late /\ identical))

WaitIfRendering ==
    /\ mpc = "check" /\ (Races \/ ~InWindow)
    /\ IF rendering THEN mpc' = "waitDone" /\ UNCHANGED late ELSE Waited
    /\ UNCHANGED <<threaded, running, sems, thread, screen, avail, why, frame>>

WaitDone ==
    /\ mpc = "waitDone" /\ done > 0
    /\ done' = done - 1 /\ Waited
    /\ UNCHANGED <<threaded, running, start, lines, thread, screen, avail, why, frame>>

ResetDone ==
    /\ mpc = "resetDone"
    /\ \/ CountFirst(done) /\ UNCHANGED <<done, mpc>>
       \/ ThenTake(done) /\ done' = done - avail /\ mpc' = "resetStart2"
    /\ UNCHANGED <<threaded, running, start, lines, thread, screen, why, late, frame>>

\* Seeded fault: the scanlines of the frame before are kept.
KeepLines ==
    /\ mpc = "resetLines" /\ mpc' = "enable"
    /\ UNCHANGED <<threaded, running, sems, thread, screen, avail, why, late, frame>>

ResetLines ==
    /\ mpc = "resetLines"
    /\ \/ CountFirst(lines) /\ UNCHANGED <<lines, mpc>>
       \/ ThenTake(lines) /\ lines' = lines - avail /\ mpc' = "enable"
    /\ UNCHANGED <<threaded, running, start, done, thread, screen, why, late, frame>>

\* Every caller posts the start at once and goes on where it was.
Enable ==
    /\ mpc = "enable"
    /\ mpc' = "run"
    /\ start' = IF threaded THEN start + 1 ELSE start
    /\ abort' = (abort /\ why \notin {"restart", "reset"})
    /\ pos' = IF why \in {"restart", "reset"} THEN Between ELSE pos
    /\ writes' = IF why \in {"restart", "reset"} THEN 0 ELSE writes
    /\ asleep' = (asleep /\ why \notin {"wake", "reset"})
    /\ late' = (late \/ (threaded /\ pos' \notin {0, Between}))
    /\ why' = "none"
    /\ UNCHANGED <<threaded, running, done, lines, thread, screen, avail>>
-----------------------------------------------------------------------------
(* A frame of the emulator *)

Running == mpc = "run" /\ ~asleep

\* A line is taken from the renderer, which waits for it; after an abort it is not.
TakeLine == IF running THEN lines > 0 /\ lines' = lines - 1 ELSE UNCHANGED lines

DrawScanline ==
    /\ Running /\ pos \in Rows
    /\ IF abort THEN UNCHANGED lines ELSE TakeLine
    /\ pos' = pos + 1
    /\ UNCHANGED <<threaded, running, start, done, thread, screen, setup, abort, writes, asleep>>

\* Seeded fault: the vertical blank does not wait for the thread.
VBlankAtOnce ==
    /\ Running /\ pos = VBlankAt
    /\ done' = IF done > 0 THEN done - 1 ELSE done
    /\ pos' = pos + 1
    /\ UNCHANGED <<threaded, running, start, lines, thread, screen, setup, abort, writes, asleep>>

\* VCount144, called at line 192, and the polygons handed over by VBlank
VBlank ==
    /\ Running /\ pos = VBlankAt
    /\ IF running /\ ~abort THEN done > 0 /\ done' = done - 1 ELSE UNCHANGED done
    /\ pos' = pos + 1
    /\ UNCHANGED <<threaded, running, start, lines, thread, screen, setup, abort, writes, asleep>>

RenderFrame ==
    /\ Running /\ pos = RenderAt
    /\ identical' \in BOOLEAN
    /\ picture' = IF identical' THEN picture ELSE (picture + 1) % Pictures
    /\ \/ /\ running
          /\ start' = start + 1 /\ late' = (late \/ ~AtRest \/ start > 0)
          /\ UNCHANGED buf
       \/ /\ ~running
          /\ buf' = [r \in Rows |-> IF identical' THEN buf[r] ELSE picture']
          /\ late' = (late /\ (identical' \/ start > 0))
          /\ UNCHANGED start
    /\ pos' = pos + 1
    /\ UNCHANGED <<threaded, running, done, lines, thread, mpc, avail, why, abort, writes, asleep>>

FinishFrame ==
    /\ Running /\ pos = FinishAt
    /\ \/ abort /\ Setup("restart") /\ UNCHANGED <<pos, writes>>
       \/ ~abort /\ pos' = Between /\ writes' = 0 /\ UNCHANGED setup
    /\ UNCHANGED <<threaded, running, sems, thread, screen, abort, asleep>>

StartFrame ==
    /\ Running /\ pos = Between
    /\ pos' = 0
    /\ UNCHANGED <<threaded, running, sems, thread, screen, setup, abort, writes, asleep>>

\* The game writes VCOUNT: the frame goes on from another line, unseen.
SetVCount(p) ==
    /\ Running /\ pos # Between /\ writes < MaxWrites
    /\ abort' = TRUE /\ writes' = writes + 1 /\ pos' = p
    /\ UNCHANGED <<threaded, running, sems, thread, screen, setup, asleep>>

EnterSleepMode ==
    /\ Running /\ pos # Between
    /\ asleep' = TRUE
    /\ UNCHANGED <<threaded, running, sems, thread, screen, setup, pos, abort, writes>>

\* An interrupt ends the sleep: SetIRQ restarts the frame where it stopped.
WakeUp ==
    /\ mpc = "run" /\ asleep
    /\ Setup("wake")
    /\ UNCHANGED <<threaded, running, sems, thread, screen, frame>>
-----------------------------------------------------------------------------
(* The frontend, between two calls of RunFrame *)

Frontend == mpc = "run" /\ (pos = Between \/ asleep)

SetThreaded ==
    /\ Frontend
    /\ threaded' = ~threaded
    /\ Setup("settings")
    /\ UNCHANGED <<running, sems, thread, screen, frame>>

\* A state is saved, or one of the same place is loaded.
DoSavestate ==
    /\ Frontend /\ threaded
    /\ Setup("state")
    /\ UNCHANGED <<threaded, running, sems, thread, screen, frame>>

\* Reset first blackens the buffer, which is then what is to be shown.
Reset ==
    /\ Frontend
    /\ buf' = [r \in Rows |-> picture]
    /\ Setup("reset")
    /\ UNCHANGED <<threaded, running, sems, thread, identical, picture, frame>>

SetupSteps ==
    \/ CreateOrStop \/ Join
    \/ ResetStart("resetStart", "check") \/ ResetStart("resetStart2", "resetLines")
    \/ WaitIfRendering \/ WaitDone \/ ResetDone \/ ResetLines \/ Enable

Emulator == SetupSteps \/ DrawScanline \/ VBlank \/ RenderFrame \/ FinishFrame \/ StartFrame

Game == EnterSleepMode \/ \E p \in 0..FinishAt : SetVCount(p)

User == WakeUp \/ SetThreaded \/ DoSavestate \/ Reset

Next == Thread \/ Emulator \/ Game \/ User

\* Both threads are run by the operating system; nothing is asked of game and user.
Spec == Init /\ [][Next]_vars /\ WF_vars(Thread) /\ WF_vars(Emulator)
-----------------------------------------------------------------------------
\* The line that GetLine is about to hand over is drawn, and of the picture that
\* was asked for ("we need a scanline, so let's wait for the render thread").
LineIsReady ==
    Running /\ pos \in Rows /\ ~abort /\ (~running \/ lines > 0) => buf[pos] = picture

\* Once a setup has found the thread at rest and the frame at its start, every
\* line that is shown is ready, until the next setup that does not.
LinesAreReady == ~late => LineIsReady

Resting == tpc \in {"wait", "posted"} /\ start = 0

\* What the thread reads (polygons, textures, FrameIdentical) changes under a thread
\* that rests: from the vertical blank to line 215, in a frame that the game has not
\* given up; and before a setup has let the thread start again, which is when a state
\* is saved or loaded.  The token that a setup waits for is not one of an earlier
\* frame, that would let it go on while the thread draws.  In a frame given up,
\* VCount144 takes no token and VBlank hands over its polygons all the same.
QuietForChanges ==
    ~late =>
        /\ Running /\ running /\ pos = RenderAt /\ ~abort => Resting
        /\ mpc = "waitDone" /\ done > 0 /\ ~abort => Resting
        /\ mpc = "enable" /\ running => Resting

\* The emulator would wait on a semaphore, or for the thread's end.
Blocked ==
    \/ Running /\ running /\ ~abort /\ pos \in Rows /\ lines = 0
    \/ Running /\ running /\ ~abort /\ pos = VBlankAt /\ done = 0
    \/ mpc = "waitDone" /\ done = 0
    \/ mpc = "join" /\ tpc # "gone"

\* The emulator never waits for good: the thread posts whatever is waited for,
\* over aborted frames, sleeps, resets and switches of the setting.
WaitsEnd == Blocked ~> ~Blocked
=============================================================================
