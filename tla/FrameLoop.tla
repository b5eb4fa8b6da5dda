----------------------------- MODULE FrameLoop -----------------------------
(***************************************************************************)
(* The main loop of the DS (melonDS, NDS.cpp): RunFrame runs the ARM9 for  *)
(* a slice that ends at the next event at the latest, lets the ARM7 catch  *)
(* up, and then fires the events that are due.  Graphics geometry, a DMA   *)
(* or a halt take the ARM9's place, and in sleep mode only sound and clock *)
(* go on.                                                                  *)
(*                                                                         *)
(* Times count from SysTimestamp, which a slice moves on when it ends; the *)
(* ARM9's are in its own cycles, two to one of the system.  What the CPUs  *)
(* execute is the game's: any instruction that the source treats in a way  *)
(* of its own, at any moment.                                              *)
(***************************************************************************)
EXTENDS Integers, FiniteSets, FiniteSetsExt

CONSTANTS
    MaxIteration, Margin,  \* kMaxIterationCycles and kIterationCycleMargin
    Line, NumLines,        \* cycles between two LCD events, and how many make a frame
    Period,                \* the other periodic events' cycles, by event
    Delay,                 \* the one-shot events' cycles, by event
    Pieces,                \* DisplayFIFO events of a line
    SleepFrame,            \* cycles of a RunFrame in sleep mode, 560190 in the source
    Room,                  \* samples that the sound's back buffer takes
    Costs9, Costs7,        \* cycles an instruction takes, each in its CPU's
    Unit, Units,           \* cycles a DMA takes for one unit; bound on the units
    Geometry,              \* bound on the cycles a full geometry FIFO needs
    Games,                 \* games, by what they use: sets of Uses
    SleepLines,            \* the lines in which games enter sleep mode
    EarlyWake,             \* whether the game wakes up before the loop knows that it sleeps
    MaxSleeps              \* bound on the sleeps begun in one RunFrame

\* In the order of their numbers, in which RunSystem looks at them.
Events   == <<"lcd", "spu", "rtc", "fifo", "spi", "div">>
EventSet == {"lcd", "spu", "rtc", "fifo", "spi", "div"}
Number(e) == CHOOSE i \in 1..6 : Events[i] = e

Optional == {"fifo", "spi", "div"}
Uses     == Optional \cup {"dma", "geometry", "sleep"}
Wakers   == {"wake"}                   \* interrupts a game enables for its sleep
Awake7   == Wakers \cup {"line"}       \* and when it is awake, of the ARM7

ASSUME LoopAssumption ==
    /\ {MaxIteration, Margin, Line, NumLines, SleepFrame, Room, Unit} \subseteq Nat \ {0}
    /\ {Units, Geometry, Pieces, MaxSleeps} \subseteq Nat
    /\ Period \in [{"spu", "rtc", "fifo"} -> Nat \ {0}]
    /\ Delay \in [Optional -> Nat \ {0}]
    /\ Games \subseteq SUBSET Uses /\ SleepLines \subseteq 0..NumLines
    /\ EarlyWake \in BOOLEAN

\* An instruction takes time, and there is one that takes longest.
ASSUME CostsAssumption ==
    \A S \in {Costs9, Costs7} : S \subseteq Nat \ {0} /\ \E m \in S : \A c \in S : c <= m

\* The longest that an instruction takes with what one before it has left owed, or a
\* DMA for one unit: an ARM9 that has not reached its target passes it by less.
Step9 == Max({Max(Costs9) + Min(Costs9), 2 * Unit})

\* Sound, clock and lines are further apart than that, DisplayFIFO's pieces than a
\* unit of a DMA: none of them falls due again before it has been looked at.
ASSUME PeriodsAssumption ==
    /\ \A p \in {Line, Period["spu"], Period["rtc"]} : Step9 <= 2 * p + 1
    /\ Unit <= Period["fifo"]

VARIABLES
    game,      \* what this game uses
    arm9, arm7,          \* ARM9Timestamp and ARM7Timestamp
    target9, target7,    \* ARM9Target and ARM7Target
    goal,      \* target: where the slice ends, once the ARM9 has run
    owed9, owed7,        \* Cycles of an instruction that stopped its CPU
    when,      \* SchedList[].Timestamp
    mask,      \* SchedListMask
    todo,      \* what RunSystem still has to look at
    pieces,    \* DisplayFIFO events left in this line
    vcount,    \* VCount
    halted9, halted7,  \* Halted: 0, 1 by the game, 2 by the emulator
    if9,       \* an interrupt of the ARM9 is requested and enabled
    if7, ie7,  \* the ARM7's interrupts requested, and enabled
    units,     \* units left of a DMA; CPUStop_DMA9 while there are any
    geometry,  \* cycles until the geometry FIFO has room; CPUStop_GXStall till then
    asleep, wakeup,    \* CPUStop_Sleep and CPUStop_Wakeup
    left,      \* cycles to frametarget in sleep mode
    total,     \* TotalScanlines is not zero
    samples,   \* samples in the sound's back buffer
    sleeps,    \* history: times this call has come into sleep mode
    pc         \* where the loop is

times  == <<arm9, arm7, target9, target7, goal, owed9, owed7>>
sched  == <<when, mask, todo, pieces, vcount>>
cpus   == <<halted9, halted7, if9, if7, ie7>>
stops  == <<units, geometry, asleep, wakeup>>
call   == <<left, total, samples, sleeps>>
vars   == <<game, times, sched, cpus, stops, call, pc>>

Init ==
    /\ game \in Games
    /\ arm9 = 0 /\ arm7 = 0 /\ target9 = 0 /\ target7 = 0 /\ goal = 0
    /\ owed9 = 0 /\ owed7 = 0
    /\ when = [e \in EventSet |-> IF e \in {"spu", "rtc"} THEN Period[e] ELSE 0]
    /\ mask = {"spu", "rtc"} /\ todo = {} /\ pieces = 0 /\ vcount = 0
    /\ halted9 = 0 /\ halted7 = 0 /\ if9 = FALSE
    /\ if7 = {} /\ ie7 = Awake7
    /\ units = 0 /\ geometry = 0 /\ asleep = FALSE /\ wakeup = FALSE
    /\ left = 0 /\ total = TRUE /\ samples = 0 /\ sleeps = 0
    /\ pc = "frontend"
-----------------------------------------------------------------------------
(* Interrupts *)

Pending7 == if7 \cap ie7 # {}          \* HaltInterrupted

\* SetIRQ for the ARM7, which also ends a sleep.
SetIRQ7(i) ==
    /\ if7' = if7 \cup {i}
    /\ IF asleep /\ i \in ie7
         THEN asleep' = FALSE /\ wakeup' = TRUE
         ELSE UNCHANGED <<asleep, wakeup>>

NoIRQ == UNCHANGED <<if9, if7, asleep, wakeup>>
-----------------------------------------------------------------------------
(* The top of RunFrame's loop *)

\* Both CPUs have stopped at their targets when the frontend calls.
CallRunFrame ==
    /\ pc = "frontend"
    /\ total' = FALSE /\ sleeps' = 0
    /\ pc' = "top"
    /\ UNCHANGED <<game, times, sched, cpus, stops, left, samples>>

\* Seeded fault: the wake-up is not taken note of, and the next frame is not started.
StartFrameKeepingWakeup ==
    /\ pc = "top" /\ ~asleep
    /\ IF wakeup
         THEN UNCHANGED <<when, mask, vcount, pieces, total>>
         ELSE /\ total' = FALSE /\ vcount' = 0
              /\ when' = [when EXCEPT !["lcd"] = @ + Line,
                                      !["fifo"] = IF "fifo" \in game THEN arm7 + Delay["fifo"] ELSE @]
              /\ mask' = mask \cup {"lcd"} \cup (game \cap {"fifo"})
              /\ pieces' = Pieces
    /\ UNCHANGED wakeup
    /\ pc' = "slice"
    /\ UNCHANGED <<game, times, todo, cpus, units, geometry, asleep, left, samples, sleeps>>

\* StartFrame, unless the loop comes out of a sleep; line 0 schedules the next one.
StartFrame ==
    /\ pc = "top" /\ ~asleep
    /\ IF wakeup
         THEN UNCHANGED <<when, mask, vcount, pieces, total>>
         ELSE /\ total' = FALSE /\ vcount' = 0
              /\ when' = [when EXCEPT !["lcd"] = @ + Line,
                                      !["fifo"] = IF "fifo" \in game THEN arm7 + Delay["fifo"] ELSE @]
              /\ mask' = mask \cup {"lcd"} \cup (game \cap {"fifo"})
              /\ pieces' = Pieces
    /\ wakeup' = FALSE
    /\ pc' = "slice"
    /\ UNCHANGED <<game, times, todo, cpus, units, geometry, asleep, left, samples, sleeps>>

FallAsleep ==
    /\ pc = "top" /\ asleep
    /\ left' = SleepFrame /\ sleeps' = sleeps + 1 /\ pc' = "sleep"
    /\ UNCHANGED <<game, times, sched, cpus, stops, total, samples>>

\* NextTarget
NextEvent  == Min({when[e] : e \in mask})
NextTarget == IF mask # {} /\ NextEvent < MaxIteration + Margin THEN NextEvent ELSE MaxIteration

BeginSlice ==
    /\ pc = "slice"
    /\ target9' = 2 * NextTarget
    /\ pc' = "arm9"
    /\ UNCHANGED <<game, arm9, arm7, target7, goal, owed9, owed7, sched, cpus, stops, call>>
-----------------------------------------------------------------------------
(* The ARM9's part of a slice *)

\* Time passes, and the ARM9 does not.
WaitForGeometry ==
    /\ pc = "arm9" /\ geometry > 0
    /\ arm9' = Min({target9, arm9 + 2 * geometry})
    /\ pc' = "gpu"
    /\ UNCHANGED <<game, arm7, target9, target7, goal, owed9, owed7, sched, cpus, stops, call>>

\* DMA::Run9, unit by unit
RunDMA ==
    /\ pc = "arm9" /\ geometry = 0 /\ units > 0
    /\ IF arm9 >= target9
         THEN pc' = "gpu" /\ UNCHANGED <<arm9, units>>
         ELSE /\ arm9' = arm9 + 2 * Unit /\ units' = units - 1
              /\ pc' = IF units' = 0 \/ arm9' >= target9 THEN "gpu" ELSE "arm9"
    /\ UNCHANGED <<game, arm7, target9, target7, goal, owed9, owed7, sched, cpus, geometry, asleep, wakeup, call>>

\* ARMv5::Execute
Enter9 ==
    /\ pc = "arm9" /\ geometry = 0 /\ units = 0
    /\ IF halted9 = 1 /\ ~if9
         THEN arm9' = target9 /\ pc' = "gpu" /\ UNCHANGED halted9
         ELSE /\ halted9' = 0 /\ UNCHANGED arm9
              /\ pc' = IF arm9 >= target9 THEN "gpu" ELSE "exec9"
    /\ UNCHANGED <<game, arm7, target9, target7, goal, owed9, owed7, sched, halted7, if9, if7, ie7,
                   stops, call>>

\* Between two instructions that stop a CPU there is another one: this bounds what
\* they leave owed.
Exec9 == pc = "exec9"
Stop9 == owed9 = 0 /\ owed9' = Min(Costs9) /\ pc' = "gpu"
Spend9(c, target) ==
    /\ arm9' = arm9 + c + owed9 /\ owed9' = 0
    /\ pc' = IF arm9' >= target THEN "gpu" ELSE "exec9"

\* An instruction without an effect here, or one that acknowledges or masks.
Work9 ==
    /\ Exec9
    /\ \E c \in Costs9 : Spend9(c, target9)
    /\ if9' \in {if9, FALSE}
    /\ UNCHANGED <<game, arm7, target9, target7, goal, owed7, sched, halted9, halted7, if7, ie7, stops, call>>

\* Seeded fault: the slice is not cut short.
StartDivUnscheduled ==
    /\ Exec9 /\ "div" \in game
    /\ when' = [when EXCEPT !["div"] = arm9 \div 2 + Delay["div"]]
    /\ mask' = mask \cup {"div"}
    /\ \E c \in Costs9 : Spend9(c, target9)
    /\ UNCHANGED <<game, arm7, target9, target7, goal, owed7, todo, pieces, vcount, cpus, stops, call>>

\* StartDiv: cancelled, scheduled anew, and the slice cut short.
StartDiv ==
    /\ Exec9 /\ "div" \in game
    /\ LET due == arm9 \div 2 + Delay["div"] IN
         /\ when' = [when EXCEPT !["div"] = due]
         /\ target9' = Min({target9, 2 * due})
    /\ mask' = mask \cup {"div"}
    /\ \E c \in Costs9 : Spend9(c, target9')
    /\ UNCHANGED <<game, arm7, target7, goal, owed7, todo, pieces, vcount, cpus, stops, call>>

\* The rest of the slice is skipped; what the instruction took is added later.
Halt9 ==
    /\ Exec9
    /\ halted9' = 1 /\ arm9' = target9 /\ Stop9
    /\ UNCHANGED <<game, arm7, target9, target7, goal, owed7, sched, halted7, if9, if7, ie7, stops, call>>

\* A store that starts a DMA stops the CPU, one that fills the FIFO does not.
StartDMA ==
    /\ Exec9 /\ "dma" \in game
    /\ \E n \in 1..Units : units' = n
    /\ Stop9
    /\ UNCHANGED <<game, arm9, arm7, target9, target7, goal, owed7, sched, cpus, geometry, asleep, wakeup, call>>

FillGeometry ==
    /\ Exec9 /\ "geometry" \in game /\ geometry = 0
    /\ \E n \in 1..Geometry : geometry' = n
    /\ Spend9(Min(Costs9), target9)
    /\ UNCHANGED <<game, arm7, target9, target7, goal, owed7, sched, cpus, units, asleep, wakeup, call>>

\* A request to the other CPU.
Call7 ==
    /\ Exec9
    /\ SetIRQ7("line") /\ Spend9(Min(Costs9), target9)
    /\ UNCHANGED <<game, arm7, target9, target7, goal, owed7, sched, halted9, halted7, if9, ie7,
                   units, geometry, call>>

\* RunTimers(0) and GPU3D.Run: both take what has passed since the last slice.
RunGeometry ==
    /\ pc = "gpu"
    /\ goal' = arm9 \div 2
    /\ geometry' = Max({0, geometry - goal'})
    /\ pc' = "arm7"
    /\ UNCHANGED <<game, arm9, arm7, target9, target7, owed9, owed7, sched, cpus, units, asleep, wakeup, call>>
-----------------------------------------------------------------------------
(* The ARM7 catches up *)

\* Seeded fault: the ARM7 is run to its target, which may be nearer than the slice's end.
Enter7ToTarget ==
    /\ pc = "arm7"
    /\ \/ /\ (arm7 >= goal \/ target7 \in 1..arm7)
          /\ todo' = mask /\ pc' = "system"
          /\ UNCHANGED <<arm7, target7, halted7>>
       \/ /\ arm7 < goal /\ target7 \notin 1..arm7
          /\ target7' = goal
          /\ IF halted7 = 1 /\ ~Pending7
               THEN arm7' = goal /\ UNCHANGED <<halted7, pc>>
               ELSE halted7' = 0 /\ pc' = "exec7" /\ UNCHANGED arm7
          /\ UNCHANGED todo
    /\ UNCHANGED <<game, arm9, target9, goal, owed9, owed7, when, mask, pieces, vcount,
                   halted9, if9, if7, ie7, stops, call>>

\* ARMv4::Execute, again and again until the slice's end is reached.
Enter7 ==
    /\ pc = "arm7"
    /\ \/ /\ arm7 >= goal
          /\ todo' = mask /\ pc' = "system"
          /\ UNCHANGED <<arm7, target7, halted7>>
       \/ /\ arm7 < goal
          /\ target7' = goal
          /\ IF halted7 = 1 /\ ~Pending7
               THEN arm7' = goal /\ UNCHANGED <<halted7, pc>>
               ELSE halted7' = 0 /\ pc' = "exec7" /\ UNCHANGED arm7
          /\ UNCHANGED todo
    /\ UNCHANGED <<game, arm9, target9, goal, owed9, owed7, when, mask, pieces, vcount,
                   halted9, if9, if7, ie7, stops, call>>

Exec7 == pc = "exec7"
Spend7(c, target) ==
    /\ arm7' = arm7 + c + owed7 /\ owed7' = 0
    /\ pc' = IF arm7' >= target THEN "arm7" ELSE "exec7"
Stop7     == owed7 = 0 /\ owed7' = Min(Costs7) /\ pc' = "arm7"

Work7 ==
    /\ Exec7
    /\ \E c \in Costs7 : Spend7(c, target7)
    /\ \/ UNCHANGED <<if7, ie7>>
       \/ if7' = {} /\ UNCHANGED ie7
       \/ /\ "sleep" \in game /\ (asleep => EarlyWake)
          /\ ie7' \in {Awake7, Wakers} /\ UNCHANGED if7
    /\ UNCHANGED <<game, arm9, target9, target7, goal, owed9, sched, halted9, halted7, if9,
                   stops, call>>

\* A transfer that is already under way is not scheduled again.
StartSPI ==
    /\ Exec7 /\ "spi" \in game
    /\ IF "spi" \in mask
         THEN UNCHANGED <<when, mask, target7>>
         ELSE LET due == arm7 + Delay["spi"] IN
                /\ when' = [when EXCEPT !["spi"] = due]
                /\ mask' = mask \cup {"spi"}
                /\ target7' = Min({target7, due})
    /\ Spend7(Min(Costs7), target7')
    /\ UNCHANGED <<game, arm9, target9, goal, owed9, todo, pieces, vcount, cpus, stops, call>>

Halt7 ==
    /\ Exec7
    /\ halted7' = 1 /\ arm7' = target7 /\ Stop7
    /\ UNCHANGED <<game, arm9, target9, target7, goal, owed9, sched, halted9, if9, if7, ie7,
                   stops, call>>

\* The game sleeps with nothing enabled that does not wake it up.  The ARM7 goes on
\* until the end of the slice.
EnterSleepMode ==
    /\ Exec7 /\ "sleep" \in game /\ ~asleep
    /\ ie7 = Wakers /\ vcount \in SleepLines /\ sleeps < MaxSleeps
    /\ asleep' = TRUE /\ Stop7
    /\ UNCHANGED <<game, arm9, arm7, target9, target7, goal, owed9, sched, cpus, units, geometry,
                   wakeup, call>>

Call9 ==
    /\ Exec7
    /\ if9' = TRUE /\ Spend7(Min(Costs7), target7)
    /\ UNCHANGED <<game, arm9, target9, target7, goal, owed9, sched, halted9, halted7, if7, ie7,
                   stops, call>>
-----------------------------------------------------------------------------
(* RunSystem *)

Due   == {e \in todo : when[e] <= goal}
First == CHOOSE e \in Due : \A f \in Due : Number(e) <= Number(f)
Again(e) == [when EXCEPT ![e] = @ + Period[e]]

Firing(e) ==
    /\ pc = "system" /\ Due # {} /\ First = e
    /\ todo' = {f \in todo : Number(f) > Number(e)}
    /\ UNCHANGED <<game, times, halted9, halted7, ie7, geometry, left, sleeps, pc>>

\* The next line begins, or the frame is over.
FireLCD ==
    /\ Firing("lcd")
    /\ \/ /\ vcount + 1 < NumLines
          /\ vcount' = vcount + 1
          /\ LET fifo == "fifo" \in game /\ "fifo" \notin mask IN
               /\ when' = [when EXCEPT !["lcd"] = @ + Line,
                                       !["fifo"] = IF fifo THEN arm7 + Delay["fifo"] ELSE @]
               /\ mask' = IF fifo THEN mask \cup {"fifo"} ELSE mask
               /\ pieces' = IF fifo THEN Pieces ELSE pieces
          /\ if9' = TRUE /\ SetIRQ7("line")
          /\ UNCHANGED total
       \/ /\ vcount + 1 = NumLines
          /\ mask' = mask \ {"lcd"} /\ total' = TRUE
          /\ NoIRQ
          /\ UNCHANGED <<when, pieces, vcount>>
    /\ UNCHANGED <<units, samples>>

FireSPU ==
    /\ Firing("spu")
    /\ when' = Again("spu") /\ samples' = Min({samples + 1, Room})
    /\ NoIRQ
    /\ UNCHANGED <<mask, pieces, vcount, units, total>>

\* The clock ticks; it may be time for an alarm.
FireRTC ==
    /\ Firing("rtc")
    /\ when' = Again("rtc")
    /\ \/ UNCHANGED <<if7, asleep, wakeup>>
       \/ (asleep => EarlyWake) /\ SetIRQ7("wake")
    /\ UNCHANGED <<mask, pieces, vcount, if9, units, total, samples>>

\* DisplayFIFO may start a DMA, and comes again until the line is full.
FireFIFO ==
    /\ Firing("fifo")
    /\ IF pieces > 0
         THEN /\ when' = Again("fifo") /\ pieces' = pieces - 1
              /\ units' \in (IF units = 0 /\ "dma" \in game THEN 0..Units ELSE {units})
              /\ UNCHANGED mask
         ELSE mask' = mask \ {"fifo"} /\ UNCHANGED <<when, pieces, units>>
    /\ NoIRQ
    /\ UNCHANGED <<vcount, total, samples>>

FireOnce(e) ==
    /\ Firing(e)
    /\ mask' = mask \ {e}
    /\ IF e = "spi" THEN SetIRQ7("line") ELSE UNCHANGED <<if7, asleep, wakeup>>
    /\ UNCHANGED <<when, pieces, vcount, if9, units, total, samples>>

\* The slice is over: times count from its end.
Ahead(e) == e \in mask \/ (e = "lcd" /\ total)
EndSlice ==
    /\ pc = "system" /\ Due = {}
    /\ arm9' = arm9 - 2 * goal /\ arm7' = arm7 - goal
    /\ target9' = 0 /\ target7' = 0 /\ goal' = 0
    /\ when' = [e \in EventSet |-> IF Ahead(e) THEN when[e] - goal ELSE 0]
    /\ todo' = {}
    /\ pc' = IF asleep \/ total THEN "bottom" ELSE "slice"
    /\ UNCHANGED <<game, owed9, owed7, mask, pieces, vcount, cpus, stops, call>>
-----------------------------------------------------------------------------
(* Sleep mode, and the end of RunFrame *)

\* Sound and clock go on, and everything that would fall due is put off.
SleepStep ==
    /\ pc = "sleep" /\ asleep /\ left > 0
    /\ LET step == Min({when["spu"], when["rtc"], left})
           ticks(e) == e \in {"spu", "rtc"} /\ when[e] <= step
       IN
         /\ arm9' = 0 /\ arm7' = 0
         /\ when' = [e \in EventSet |->
                IF ticks(e) THEN when[e] + Period[e] - step
                ELSE IF e \in mask /\ when[e] > step THEN when[e] - step ELSE when[e]]
         /\ samples' = IF ticks("spu") THEN Min({samples + 1, Room}) ELSE samples
         /\ left' = left - step
         /\ \/ UNCHANGED <<if7, asleep, wakeup>>
            \/ ticks("rtc") /\ SetIRQ7("wake")
    /\ UNCHANGED <<game, target9, target7, goal, owed9, owed7, mask, todo, pieces, vcount,
                   halted9, halted7, if9, ie7, units, geometry, total, sleeps, pc>>

\* BlankFrame, when a whole frame has passed in sleep mode.
EndSleep ==
    /\ pc = "sleep" /\ (~asleep \/ left = 0)
    /\ total' = (total \/ left = 0) /\ left' = 0
    /\ pc' = "bottom"
    /\ UNCHANGED <<game, times, sched, cpus, stops, samples, sleeps>>

\* Seeded fault: the samples are handed over when the frame was drawn, not when it was slept.
ReturnDrawn ==
    /\ pc = "bottom"
    /\ IF total THEN pc' = "frontend" /\ samples' = (IF asleep THEN samples ELSE 0)
                ELSE pc' = "top" /\ UNCHANGED samples
    /\ UNCHANGED <<game, times, sched, cpus, stops, left, total, sleeps>>

\* SPU.TransferOutput empties the back buffer.
Return ==
    /\ pc = "bottom"
    /\ IF total THEN pc' = "frontend" /\ samples' = 0 ELSE pc' = "top" /\ UNCHANGED samples
    /\ UNCHANGED <<game, times, sched, cpus, stops, left, total, sleeps>>

\* SetLidClosed(false)
OpenLid ==
    /\ pc = "frontend"
    /\ SetIRQ7("wake")
    /\ UNCHANGED <<game, times, sched, halted9, halted7, if9, ie7, units, geometry, call, pc>>
-----------------------------------------------------------------------------
ARM9 ==
    \/ WaitForGeometry \/ RunDMA \/ Enter9
    \/ Work9 \/ StartDiv \/ Halt9 \/ StartDMA \/ FillGeometry \/ Call7

ARM7 ==
    \/ Enter7
    \/ Work7 \/ StartSPI \/ Halt7 \/ EnterSleepMode \/ Call9

RunSystem ==
    \/ FireLCD \/ FireSPU \/ FireRTC \/ FireFIFO \/ FireOnce("spi") \/ FireOnce("div")
    \/ EndSlice

Loop ==
    \/ StartFrame \/ FallAsleep \/ BeginSlice \/ ARM9 \/ RunGeometry \/ ARM7 \/ RunSystem
    \/ SleepStep \/ EndSleep \/ Return

Next == CallRunFrame \/ OpenLid \/ Loop

\* A call of RunFrame runs to its end, and the frontend always calls again.
Spec == Init /\ [][Next]_vars /\ WF_vars(Loop) /\ WF_vars(CallRunFrame)
-----------------------------------------------------------------------------
\* When the events are fired both CPUs have reached that time, and neither is
\* further ahead than one instruction.
InStep ==
    pc = "system" => /\ arm9 - 2 * goal \in {0, 1}
                     /\ arm7 - goal \in 0..(Max(Costs7) + Min(Costs7) - 1)

\* No event is fired later than the ARM9's longest step after its time, whoever has
\* scheduled it meanwhile; one that the ARM7 schedules behind the ARM9's back, than
\* the longest slice.  Sleep mode puts off what falls due in it.
Late(e) == 2 * (goal - when[e])
OnTime ==
    pc = "system" => \A e \in Due \ {"fifo"} :
        Late(e) <= Step9 + (IF e = "spi" THEN 2 * (MaxIteration + Margin - 1) ELSE 0)

\* One call of RunFrame leaves no more samples in the back buffer than a frame has,
\* and a frame's worth for every time that it comes into sleep mode.
SamplesOfACall ==
    2 * (samples - 1) * Period["spu"] <= 2 * (NumLines * Line + sleeps * SleepFrame) + Step9

\* Every call of RunFrame returns.
FramesFinish == pc # "frontend" ~> pc = "frontend"
=============================================================================
