------------------------------- MODULE GxFifo -------------------------------
(***************************************************************************)
(* The geometry engine's command FIFO (melonDS, GPU3D.cpp) and the three   *)
(* that use it: the ARM9, which writes packed words or single commands and *)
(* reads GXSTAT, a DMA, which is started whenever the FIFO is less than    *)
(* half full, and the engine, which runs when a slice of the ARM9 ends and *)
(* when GXSTAT is read.                                                    *)
(*                                                                         *)
(* An entry is the command that it belongs to.  How long a command takes   *)
(* is left open: in every call the engine executes as many as it likes.    *)
(***************************************************************************)
EXTENDS Naturals, Sequences, FiniteSets, FiniteSetsExt

CONSTANTS
    PipeSize, FifoSize, StallSize,  \* entries of CmdPIPE, CmdFIFO, CmdStallQueue: 4, 256, 64
    Low, Refill,    \* the pipe is refilled by Refill when at most Low are left: 2, 2
    Half, Burst,    \* below Half a DMA is started, for Burst words at most: 128, 112
    Command,        \* commands: "nop", "push", "test", "swap"
    Params,         \* CmdNumParams
    Words,          \* words of four packed commands that games write
    Stores,         \* bound on the ARM9's stores in one slice
    DmaWords,       \* numbers of words that games let a DMA transfer
    Modes           \* conditions for an interrupt that games choose: 1 and 2

Pack == Len(CHOOSE w \in Words : TRUE)
Nop  == "nop"

ASSUME FifoAssumption ==
    /\ {PipeSize, FifoSize, StallSize, Refill, Half, Burst, Stores} \subseteq Nat \ {0}
    /\ Low \in Nat /\ Low + Refill <= PipeSize
    /\ Refill < FifoSize /\ Half <= FifoSize
    /\ Params \in [Command -> Nat] /\ Words \subseteq Seq(Command) \ {<<>>}
    /\ DmaWords \subseteq Nat \ {0} /\ Modes \subseteq 0..2

\* A word packs as many commands as every other; nothing is a command without parameters,
\* and a push or pop has one at most.
ASSUME WordsAssumption ==
    /\ Words # {} /\ \A w \in Words : Len(w) = Pack
    /\ Nop \in Command /\ Params[Nop] = 0
    /\ "push" \in Command => Params["push"] <= 1

\* The stall queue takes what the ARM9 writes before it stops: 64 entries in the source,
\* the four commands of each of an STM's sixteen words.
ASSUME StallAssumption == Pack * Stores <= StallSize

VARIABLES
    pipe, fifo, stallq,   \* CmdPIPE, CmdFIFO, CmdStallQueue
    packed, got,          \* the commands left of the current word, ParamCount
    params,               \* ExecParamCount
    numPushPop, numTest,  \* NumPushPopCommands, NumTestCommands
    busy, pushpop, test,  \* GXSTAT bits 27, 14 and 0
    mode, irq,            \* GXSTAT bits 30-31, and the FIFO's bit of IF
    flush,                \* FlushRequest
    stall,                \* CPUStop_GXStall
    dma,                  \* the DMA: enabled, running, words left and left of the burst
    room,                 \* stores the ARM9 may still make in this slice
    sent,                 \* history: entries written and not yet read
    pc

queues == <<pipe, fifo, stallq, sent>>
status == <<numPushPop, numTest, busy, pushpop, test>>
decode == <<packed, got>>
vars   == <<queues, status, decode, params, mode, irq, flush, stall, dma, room, pc>>

Init ==
    /\ pipe = <<>> /\ fifo = <<>> /\ stallq = <<>> /\ sent = 0
    /\ packed = <<>> /\ got = 0 /\ params = 0
    /\ numPushPop = 0 /\ numTest = 0
    /\ busy = FALSE /\ pushpop = FALSE /\ test = FALSE
    /\ mode = 0 /\ irq = FALSE /\ flush = FALSE /\ stall = FALSE
    /\ dma = [on |-> FALSE, running |-> FALSE, left |-> 0, burst |-> 0]
    /\ room = Stores /\ pc = "cpu"
-----------------------------------------------------------------------------
(* What follows the FIFO's level *)

\* CheckFIFOIRQ
IrqAt(m, level) == (m = 1 /\ level < Half) \/ (m = 2 /\ level = 0)

\* DMA::Start and, for a FIFO of this level, CheckFIFODMA.
Started(d) == [d EXCEPT !.running = TRUE, !.burst = Min({d.left, Burst})]
DmaAt(d, level) == IF d.on /\ ~d.running /\ level < Half THEN Started(d) ELSE d
-----------------------------------------------------------------------------
(* CmdFIFOWrite and CmdFIFORead *)

Count(s, C) == Cardinality({i \in DOMAIN s : s[i] \in C})
PushPop     == {"push"}
Test        == {"test"}

\* The entries s are in the pipe or the FIFO now; done are the counts of what is executed.
Counted(s, pushpops, tests) ==
    /\ numPushPop' = numPushPop + Count(s, PushPop) - pushpops
    /\ numTest' = numTest + Count(s, Test) - tests

\* Seeded fault: an entry goes into the pipe whenever that has room.
CmdFIFOWriteEager(e) ==
    /\ sent' = sent + 1
    /\ \/ /\ \/ /\ Len(pipe) < PipeSize
                /\ pipe' = Append(pipe, e) /\ UNCHANGED fifo
             \/ /\ Len(pipe) = PipeSize
                /\ Len(fifo) < FifoSize
                /\ fifo' = Append(fifo, e) /\ UNCHANGED pipe
          /\ busy' = TRUE
          /\ Counted(<<e>>, 0, 0)
          /\ pushpop' = (pushpop \/ e \in PushPop) /\ test' = (test \/ e \in Test)
          /\ UNCHANGED <<stallq, stall>>
       \/ /\ Len(pipe) = PipeSize /\ Len(fifo) = FifoSize
          /\ stallq' = IF Len(stallq) < StallSize THEN Append(stallq, e) ELSE stallq
          /\ stall' = TRUE
          /\ UNCHANGED <<pipe, fifo, status>>

CmdFIFOWrite(e) ==
    /\ sent' = sent + 1
    /\ \/ /\ \/ /\ fifo = <<>> /\ Len(pipe) < PipeSize
                /\ pipe' = Append(pipe, e) /\ UNCHANGED fifo
             \/ /\ fifo # <<>> \/ Len(pipe) = PipeSize
                /\ Len(fifo) < FifoSize
                /\ fifo' = Append(fifo, e) /\ UNCHANGED pipe
          /\ busy' = TRUE
          /\ Counted(<<e>>, 0, 0)
          /\ pushpop' = (pushpop \/ e \in PushPop) /\ test' = (test \/ e \in Test)
          /\ UNCHANGED <<stallq, stall>>
       \/ /\ Len(fifo) = FifoSize
          /\ stallq' = IF Len(stallq) < StallSize THEN Append(stallq, e) ELSE stallq
          /\ stall' = TRUE
          /\ UNCHANGED <<pipe, fifo, status>>

\* CmdFIFORead takes the head of the pipe, refills a low one, and lets in what waits
\* in the stall queue as far as the FIFO takes it.
Rest   == Tail(pipe)
IsLow  == Len(Rest) <= Low
Filled == IF IsLow THEN Min({Refill, Len(fifo)}) ELSE 0
Shrunk == SubSeq(fifo, Filled + 1, Len(fifo))
Moved  == IF IsLow THEN SubSeq(stallq, 1, Min({Len(stallq), FifoSize - Len(Shrunk)})) ELSE <<>>

\* Seeded fault: the ARM9 is let go when the first entries have been let in.
LetGoEarly(before, after) == before # <<>>

LetGo(before, after) == before # <<>> /\ after = <<>>

CmdFIFORead ==
    /\ sent' = sent - 1
    /\ pipe' = Rest \o SubSeq(fifo, 1, Filled)
    /\ fifo' = Shrunk \o Moved
    /\ stallq' = SubSeq(stallq, Len(Moved) + 1, Len(stallq))
    /\ IF IsLow
         THEN /\ stall' = (stall /\ ~LetGo(stallq, stallq'))
              /\ dma' = DmaAt(dma, Len(fifo')) /\ irq' = IrqAt(mode, Len(fifo'))
         ELSE UNCHANGED <<stall, dma, irq>>

ExecuteCommand ==
    LET e    == Head(pipe)
        last == Params[e] <= 1 \/ params + 1 = Params[e]  \* of its parameters
    IN
      /\ CmdFIFORead
      /\ busy' = (busy \/ Moved # <<>>)
      /\ pushpop' = ((pushpop /\ numPushPop > 0) \/ Count(Moved, PushPop) > 0)
      /\ test' = ((test /\ numTest > 0) \/ Count(Moved, Test) > 0)
      /\ params' = IF last THEN 0 ELSE params + 1
      /\ Counted(Moved, IF last /\ e \in PushPop THEN 1 ELSE 0,
                        IF last /\ e \in Test THEN Max({1, Params[e]}) ELSE 0)
      /\ flush' = (last /\ e = "swap")
-----------------------------------------------------------------------------
(* The ARM9 and the DMA *)

\* A store is the ARM9's or, while it runs, the DMA's.
AfterStore == IF dma.running THEN "unit" ELSE "cpu"

\* WriteToGXFIFO: a word of commands, or a parameter of the one that is next.
WriteToGXFIFO ==
    /\ IF packed = <<>>
         THEN /\ packed' \in Words /\ got' = 0
              /\ pc' = IF Params[Head(packed')] > 0 THEN AfterStore ELSE "gx"
         ELSE got' = got + 1 /\ pc' = "gx" /\ UNCHANGED packed
    /\ UNCHANGED <<queues, status, params, mode, irq, flush, stall, dma>>

\* One turn of its loop.
Decode ==
    /\ pc = "gx"
    /\ LET c    == Head(packed)
           more == got >= Params[c]         \* the command is complete
           next == IF more THEN Tail(packed) ELSE packed
       IN
         /\ IF c # Nop \/ (Len(packed) = Pack /\ \A i \in DOMAIN packed : packed[i] = Nop)
              THEN CmdFIFOWrite(c)
              ELSE UNCHANGED <<queues, status, stall>>
         /\ packed' = next
         /\ got' = IF more THEN 0 ELSE got
         /\ pc' = IF more /\ next # <<>> /\ Params[Head(next)] = 0 THEN "gx" ELSE AfterStore
    /\ UNCHANGED <<params, mode, irq, flush, dma, room>>

StorePacked ==
    /\ pc = "cpu" /\ room > 0
    /\ room' = room - 1
    /\ WriteToGXFIFO

\* A command's own port.
StoreCommand(c) ==
    /\ pc = "cpu" /\ room > 0 /\ packed = <<>> /\ Params[c] <= 1
    /\ room' = room - 1
    /\ CmdFIFOWrite(c)
    /\ UNCHANGED <<decode, params, mode, irq, flush, dma, pc>>

\* The engine runs before the answer is given.
ReadStat ==
    /\ pc = "cpu" /\ room > 0
    /\ pc' = "run"
    /\ UNCHANGED <<queues, status, decode, params, mode, irq, flush, stall, dma, room>>

WriteStat(m) ==
    /\ pc = "cpu"
    /\ mode' = m /\ irq' = IrqAt(m, Len(fifo))
    /\ UNCHANGED <<queues, status, decode, params, flush, stall, dma, room, pc>>

\* Seeded fault: the level is not looked at again.
AcknowledgeOnly ==
    /\ pc = "cpu"
    /\ irq' = FALSE
    /\ UNCHANGED <<queues, status, decode, params, mode, flush, stall, dma, room, pc>>

Acknowledge ==
    /\ pc = "cpu"
    /\ irq' = IrqAt(mode, Len(fifo))
    /\ UNCHANGED <<queues, status, decode, params, mode, flush, stall, dma, room, pc>>

\* Seeded fault: the DMA waits for the FIFO to fall below the half.
StartDMAWaiting ==
    /\ pc = "cpu" /\ ~dma.on
    /\ \E n \in DmaWords :
         dma' = [dma EXCEPT !.on = TRUE, !.left = n]
    /\ UNCHANGED <<queues, status, decode, params, mode, irq, flush, stall, room, pc>>

\* DMA::WriteCnt in the GXFIFO mode; a DMA that starts stops the ARM9.
StartDMA ==
    /\ pc = "cpu" /\ ~dma.on
    /\ \E n \in DmaWords :
         dma' = DmaAt([dma EXCEPT !.on = TRUE, !.left = n], Len(fifo))
    /\ IF dma'.running THEN room' = 0 /\ pc' = "run" ELSE UNCHANGED <<room, pc>>
    /\ UNCHANGED <<queues, status, decode, params, mode, irq, flush, stall>>

EndCPU ==
    /\ pc = "cpu"
    /\ room' = 0 /\ pc' = "run"
    /\ UNCHANGED <<queues, status, decode, params, mode, irq, flush, stall, dma>>

\* DMA::Run9
StoreUnit ==
    /\ pc = "dma"
    /\ WriteToGXFIFO
    /\ UNCHANGED room

\* After a unit: another one, unless the FIFO has stalled it or the slice is over.
EndUnit ==
    /\ pc = "unit"
    /\ LET left == dma.left - 1
           burst == dma.burst - 1
       IN
         \/ /\ burst > 0 /\ ~stall
            /\ dma' = [dma EXCEPT !.left = left, !.burst = burst]
            /\ pc' = "dma"
         \/ /\ dma' = IF left = 0 THEN [dma EXCEPT !.on = FALSE, !.running = FALSE,
                                                   !.left = 0, !.burst = 0]
                      ELSE IF burst = 0
                        THEN DmaAt([dma EXCEPT !.running = FALSE, !.left = left, !.burst = 0], Len(fifo))
                      ELSE [dma EXCEPT !.left = left, !.burst = burst]
            /\ pc' = "run"
    /\ UNCHANGED <<queues, status, decode, params, mode, irq, flush, stall, room>>
-----------------------------------------------------------------------------
(* The engine *)

\* GPU3D::Run, command by command
Execute ==
    /\ pc = "run" /\ ~flush /\ pipe # <<>>
    /\ ExecuteCommand
    /\ UNCHANGED <<decode, mode, room, pc>>

\* Seeded fault: the two bits are left to the next command.
FinishOnly ==
    /\ pc = "run" /\ ~flush /\ pipe = <<>> /\ busy
    /\ busy' \in BOOLEAN
    /\ UNCHANGED <<queues, decode, params, numPushPop, numTest, pushpop, test, mode, irq, flush, stall, dma, room, pc>>

\* Run with nothing left to execute: FinishWork, when the pipelines are through.
Finish ==
    /\ pc = "run" /\ ~flush /\ pipe = <<>> /\ busy
    /\ busy' \in BOOLEAN
    /\ pushpop' = (pushpop /\ numPushPop > 0) /\ test' = (test /\ numTest > 0)
    /\ UNCHANGED <<queues, decode, params, numPushPop, numTest, mode, irq, flush, stall, dma, room, pc>>

\* Seeded fault: a stalled ARM9 begins its slice.
ReturnStalled ==
    /\ pc = "run"
    /\ IF room > 0
         THEN IF dma.running THEN room' = 0 /\ UNCHANGED pc ELSE pc' = "cpu" /\ UNCHANGED room
         ELSE /\ IF dma.running THEN pc' = "dma" /\ UNCHANGED room ELSE pc' = "cpu" /\ room' = Stores
    /\ UNCHANGED <<queues, status, decode, params, mode, irq, flush, stall, dma>>

\* The ARM9 reads on, or a new slice begins, in which a stalled one lets time pass.
Return ==
    /\ pc = "run"
    /\ IF room > 0
         THEN IF dma.running THEN room' = 0 /\ UNCHANGED pc ELSE pc' = "cpu" /\ UNCHANGED room
         ELSE /\ ~stall
              /\ IF dma.running THEN pc' = "dma" /\ UNCHANGED room ELSE pc' = "cpu" /\ room' = Stores
    /\ UNCHANGED <<queues, status, decode, params, mode, irq, flush, stall, dma>>

\* Seeded fault: the request is kept for a game that is held up.
VBlankKeeping ==
    /\ pc = "run" /\ room = 0 /\ flush
    /\ flush' = stall
    /\ UNCHANGED <<queues, status, decode, params, mode, irq, stall, dma, room, pc>>

\* VBlank, between two slices
VBlank ==
    /\ pc = "run" /\ room = 0 /\ flush
    /\ flush' = FALSE
    /\ UNCHANGED <<queues, status, decode, params, mode, irq, stall, dma, room, pc>>
-----------------------------------------------------------------------------
CPU ==
    \/ StorePacked \/ (\E c \in Command \ {Nop} : StoreCommand(c)) \/ ReadStat
    \/ (\E m \in Modes : WriteStat(m)) \/ Acknowledge \/ StartDMA

Engine == Execute \/ Finish \/ Return \/ VBlank

Next == CPU \/ EndCPU \/ Decode \/ StoreUnit \/ EndUnit \/ Engine

\* Time passes whoever uses it: a slice ends, the engine gets through its commands, and
\* a frame has a VBlank.
Spec ==
    /\ Init /\ [][Next]_vars
    /\ WF_vars(Decode) /\ WF_vars(StoreUnit) /\ WF_vars(EndUnit) /\ WF_vars(Return)
    /\ SF_vars(EndCPU) /\ SF_vars(Execute) /\ SF_vars(VBlank)
-----------------------------------------------------------------------------
\* The three parts are one queue, and it promises what GxQueue says.
Queue == INSTANCE GxQueue WITH
    Entry <- Command, Least <- FifoSize, Most <- FifoSize + PipeSize,
    queue <- pipe \o fifo \o stallq, waiting <- stall

IsQueue == Queue!Spec

\* No entry is lost, also those that the ARM9 goes on writing in the slice in which
\* the FIFO has become full.
NothingDropped == sent = Len(pipe \o fifo \o stallq)

\* The ARM9 is held up exactly while entries wait outside, and then the FIFO is full
\* and the pipe has some to execute, so that it will be let go.
StallIsDue ==
    /\ stall <=> stallq # <<>>
    /\ stallq # <<>> => Len(fifo) = FifoSize
    /\ fifo # <<>> => Len(pipe) > Low

\* GXSTAT tells a game that polls it the truth: it is busy while anything is queued,
\* and says that push, pop and test commands are under way while they are, and no more
\* when the engine has finished.  A test command with several parameters counts for each
\* of them, also for those that the engine has taken while the others are still to come.
Queued(C) == Count(pipe, C) + Count(fifo, C)
Begun(C)  == IF params > 0 /\ Head(pipe \o packed) \in C THEN params ELSE 0
StatusIsRight ==
    /\ numPushPop = Queued(PushPop)
    /\ numTest = Queued(Test) + Begun(Test)
    /\ pipe # <<>> => busy
    /\ numPushPop > 0 => pushpop
    /\ numTest > 0 => test
    /\ ~busy => ~pushpop /\ (test => numTest > 0)

\* An interrupt that the level asks for is pending, also when the game has just
\* acknowledged it or chosen another level.
InterruptIsPending == IrqAt(mode, Len(fifo)) => irq

\* A DMA that waits for room will be looked at again: the FIFO still has to fall below
\* the half.
DmaIsNotForgotten == dma.on /\ ~dma.running => Len(fifo) >= Half

\* A stalled ARM9 goes on.
StallsEnd == stall ~> ~stall
=============================================================================
