---------------------------- MODULE GxFifoProofs ----------------------------
(***************************************************************************)
(* Proofs about GxFifo for buffers of every size and every set of          *)
(* commands: what holds the ARM9 up and lets it go, what keeps interrupts  *)
(* and DMAs from being forgotten, and that pipe, FIFO and stall queue      *)
(* together are one queue.                                                 *)
(***************************************************************************)
EXTENDS GxFifo, SequenceTheorems, FiniteSetTheorems, TLAPS

\* The smaller of two levels, as Min finds it.
LEMMA MinOfTwo ==
    ASSUME NEW a \in Int, NEW b \in Int
    PROVE  Min({a, b}) = IF a <= b THEN a ELSE b
  <1> DEFINE m == IF a <= b THEN a ELSE b
  <1>1. m \in {a, b} /\ \A y \in {a, b} : m <= y
    OBVIOUS
  <1>2. \A x \in {a, b} : (\A y \in {a, b} : x <= y) => x = m
    OBVIOUS
  <1> QED
    BY <1>1, <1>2 DEF Min

\* The sizes, one by one.
LEMMA Sizes ==
    /\ PipeSize \in Nat /\ FifoSize \in Nat /\ StallSize \in Nat /\ Refill \in Nat /\ Half \in Nat
    /\ FifoSize > 0 /\ StallSize > 0 /\ Refill > 0 /\ Half > 0
    /\ Low \in Nat /\ Low < PipeSize /\ Low + Refill <= PipeSize
    /\ Refill < FifoSize /\ Half <= FifoSize
  BY FifoAssumption

\* The buffers hold commands and no more than they have room for; Decode has one to decode.
TypeInv ==
    /\ pipe \in Seq(Command) /\ Len(pipe) <= PipeSize
    /\ fifo \in Seq(Command) /\ Len(fifo) <= FifoSize
    /\ stallq \in Seq(Command) /\ stall \in BOOLEAN
    /\ packed \in Seq(Command) /\ (pc = "gx" => packed # <<>>)

Inv == TypeInv /\ StallIsDue

\* One entry more, at the end of the part that is the last with entries.
LEMMA WriteKeepsInv ==
    ASSUME TypeInv, StallIsDue, NEW e \in Command, CmdFIFOWrite(e)
    PROVE  /\ pipe' \in Seq(Command) /\ Len(pipe') <= PipeSize
           /\ fifo' \in Seq(Command) /\ Len(fifo') <= FifoSize
           /\ stallq' \in Seq(Command) /\ stall' \in BOOLEAN
           /\ StallIsDue'
           /\ Len(fifo') >= Len(fifo)
  <1>1. CASE /\ fifo = <<>> /\ Len(pipe) < PipeSize
             /\ pipe' = Append(pipe, e) /\ UNCHANGED <<fifo, stallq, stall>>
    BY <1>1, FifoAssumption DEF TypeInv, StallIsDue
  <1>2. CASE /\ fifo # <<>> \/ Len(pipe) = PipeSize
             /\ Len(fifo) < FifoSize
             /\ fifo' = Append(fifo, e) /\ UNCHANGED <<pipe, stallq, stall>>
    <2>1. /\ fifo' \in Seq(Command) /\ fifo' # <<>>
          /\ Len(fifo') = Len(fifo) + 1
      BY <1>2, AppendProperties DEF TypeInv
    <2>2. stallq = <<>> /\ ~stall
      BY <1>2, FifoAssumption DEF TypeInv, StallIsDue
    <2>3. Len(pipe) > Low
      BY <1>2, FifoAssumption, SMTT(60) DEF TypeInv, StallIsDue
    <2>4. Len(fifo) \in Nat /\ Len(fifo') <= FifoSize /\ Len(fifo') >= Len(fifo)
      BY <1>2, <2>1, Sizes DEF TypeInv
    <2>5. StallIsDue'
      BY <1>2, <2>2, <2>3 DEF StallIsDue
    <2> QED
      BY <1>2, <2>1, <2>4, <2>5 DEF TypeInv
  <1>3. CASE /\ Len(fifo) = FifoSize
             /\ stallq' = IF Len(stallq) < StallSize THEN Append(stallq, e) ELSE stallq
             /\ stall' = TRUE /\ UNCHANGED <<pipe, fifo>>
    <2>1. stallq' \in Seq(Command) /\ stallq' # <<>>
      <3>1. CASE Len(stallq) < StallSize
        BY <1>3, <3>1, AppendProperties DEF TypeInv
      <3>2. CASE ~(Len(stallq) < StallSize)
        <4>1. stallq' = stallq
          BY <1>3, <3>2
        <4>2. stallq # <<>>
          BY <3>2, Sizes
        <4> QED
          BY <4>1, <4>2 DEF TypeInv
      <3> QED
        BY <3>1, <3>2
    <2> QED
      BY <1>3, <2>1, FifoAssumption DEF TypeInv, StallIsDue
  <1> QED
    BY <1>1, <1>2, <1>3 DEF CmdFIFOWrite

\* What CmdFIFORead takes from each part, and how much is left there.
LEMMA ReadParts ==
    ASSUME TypeInv, StallIsDue, pipe # <<>>
    PROVE  /\ Rest \in Seq(Command) /\ Len(Rest) = Len(pipe) - 1
           /\ Filled \in 0..Len(fifo)
           /\ IsLow => Filled = IF Refill <= Len(fifo) THEN Refill ELSE Len(fifo)
           /\ ~IsLow => Filled = 0
           /\ SubSeq(fifo, 1, Filled) \in Seq(Command)
           /\ Len(SubSeq(fifo, 1, Filled)) = Filled
           /\ Shrunk \in Seq(Command) /\ Len(Shrunk) = Len(fifo) - Filled
           /\ \E n \in 0..Len(stallq) :
                /\ Moved = SubSeq(stallq, 1, n) /\ Moved \in Seq(Command) /\ Len(Moved) = n
                /\ IsLow => n = IF Len(stallq) <= FifoSize - Len(Shrunk)
                                  THEN Len(stallq) ELSE FifoSize - Len(Shrunk)
                /\ ~IsLow => n = 0
  <1>1. Rest \in Seq(Command) /\ Len(Rest) = Len(pipe) - 1
    BY HeadTailProperties DEF TypeInv, Rest
  <1>2. /\ Filled \in 0..Len(fifo)
        /\ IsLow => Filled = IF Refill <= Len(fifo) THEN Refill ELSE Len(fifo)
        /\ ~IsLow => Filled = 0
    <2>1. Refill \in Nat /\ Len(fifo) \in Nat
      BY FifoAssumption DEF TypeInv
    <2> QED
      BY <2>1, MinOfTwo DEF Filled
  <1>3. /\ SubSeq(fifo, 1, Filled) \in Seq(Command)
        /\ Len(SubSeq(fifo, 1, Filled)) = Filled
    <2>1. \A i \in 1..Filled : i \in 1..Len(fifo)
      BY <1>2 DEF TypeInv
    <2> QED
      BY <1>2, <2>1, SubSeqProperties DEF TypeInv
  <1>4. Shrunk \in Seq(Command) /\ Len(Shrunk) = Len(fifo) - Filled
    BY <1>2, SubSeqProperties DEF TypeInv, Shrunk
  <1>5. CASE ~IsLow
    <2>1. Moved = <<>> /\ SubSeq(stallq, 1, 0) = <<>> /\ Len(stallq) \in Nat
      BY <1>5, SubSeqEmpty DEF Moved, TypeInv
    <2> QED
      BY <1>1, <1>2, <1>3, <1>4, <1>5, <2>1
  <1>6. CASE IsLow
    <2> DEFINE n == IF Len(stallq) <= FifoSize - Len(Shrunk)
                      THEN Len(stallq) ELSE FifoSize - Len(Shrunk)
    <2>1. Len(stallq) \in Nat /\ FifoSize - Len(Shrunk) \in Nat
      <3>1. Len(stallq) \in Nat /\ Len(fifo) \in Nat /\ Len(fifo) <= FifoSize
        BY DEF TypeInv
      <3>2. Len(Shrunk) \in 0..FifoSize
        BY <1>2, <1>4, <3>1, Sizes
      <3> QED
        BY <3>1, <3>2, Sizes
    <2>2. Moved = SubSeq(stallq, 1, n)
      BY <1>6, <2>1, MinOfTwo DEF Moved
    <2>3. n \in 0..Len(stallq)
      BY <2>1
    <2>4. SubSeq(stallq, 1, n) \in Seq(Command) /\ Len(SubSeq(stallq, 1, n)) = n
      <3>1. \A i \in 1..n : i \in 1..Len(stallq)
        BY <2>3
      <3> QED
        BY <2>3, <3>1, SubSeqProperties DEF TypeInv
    <2> QED
      BY <1>1, <1>2, <1>3, <1>4, <1>6, <2>2, <2>3, <2>4
  <1> QED
    BY <1>5, <1>6

\* The lengths of the parts when the head has been read.
LEMMA ReadLengths ==
    ASSUME TypeInv, StallIsDue, pipe # <<>>, CmdFIFORead
    PROVE  /\ pipe' \in Seq(Command) /\ Len(pipe') = Len(pipe) - 1 + Filled
           /\ fifo' \in Seq(Command) /\ Len(fifo') = Len(fifo) - Filled + Len(Moved)
           /\ stallq' \in Seq(Command) /\ Len(stallq') = Len(stallq) - Len(Moved)
           /\ Len(Moved) \in 0..Len(stallq)
  <1>1. Moved \in Seq(Command) /\ Len(Moved) \in 0..Len(stallq)
    BY ReadParts
  <1>2. /\ pipe' = Rest \o SubSeq(fifo, 1, Filled)
        /\ fifo' = Shrunk \o Moved
        /\ stallq' = SubSeq(stallq, Len(Moved) + 1, Len(stallq))
    BY DEF CmdFIFORead
  <1>3. pipe' \in Seq(Command) /\ Len(pipe') = Len(pipe) - 1 + Filled
    <2> DEFINE first == SubSeq(fifo, 1, Filled)
    <2>1. /\ Rest \in Seq(Command) /\ Len(Rest) = Len(pipe) - 1
          /\ first \in Seq(Command) /\ Len(first) = Filled
      BY ReadParts
    <2> HIDE DEF first
    <2>2. Rest \o first \in Seq(Command) /\ Len(Rest \o first) = Len(Rest) + Len(first)
      BY <2>1, ConcatProperties
    <2> QED
      BY <1>2, <2>1, <2>2 DEF first
  <1>4. fifo' \in Seq(Command) /\ Len(fifo') = Len(fifo) - Filled + Len(Moved)
    <2>1. Shrunk \in Seq(Command) /\ Len(Shrunk) = Len(fifo) - Filled
      BY ReadParts
    <2>2. Shrunk \o Moved \in Seq(Command) /\ Len(Shrunk \o Moved) = Len(Shrunk) + Len(Moved)
      BY <1>1, <2>1, ConcatProperties
    <2> QED
      BY <1>2, <2>1, <2>2
  <1>5. stallq' \in Seq(Command) /\ Len(stallq') = Len(stallq) - Len(Moved)
    <2> DEFINE m == Len(Moved)
               k == Len(stallq)
    <2>1. m \in Nat /\ k \in Nat /\ m <= k
      BY <1>1 DEF TypeInv
    <2> HIDE DEF m, k
    <2>2. \A i \in (m + 1)..k : stallq[i] \in Command
      <3>1. \A i \in (m + 1)..k : i \in 1..Len(stallq)
        BY <2>1 DEF k
      <3> QED
        BY <3>1, ElementOfSeq DEF TypeInv
    <2>3. /\ SubSeq(stallq, m + 1, k) \in Seq(Command)
          /\ Len(SubSeq(stallq, m + 1, k)) = IF m + 1 <= k THEN k - (m + 1) + 1 ELSE 0
      <3>1. m + 1 \in Int /\ k \in Int
        BY <2>1
      <3> QED
        BY <2>2, <3>1, SubSeqProperties
    <2>4. Len(SubSeq(stallq, m + 1, k)) = k - m
      BY <2>1, <2>3
    <2> QED
      BY <1>2, <2>3, <2>4 DEF m, k
  <1> QED
    BY <1>1, <1>3, <1>4, <1>5

\* A sequence is empty when it has no elements.
LEMMA EmptyIsZero ==
    ASSUME NEW s \in Seq(Command)
    PROVE  Len(s) \in Nat /\ (s = <<>> <=> Len(s) = 0)
  OBVIOUS

\* The head read, the pipe refilled and the stall queue let in.
LEMMA ReadKeepsInv ==
    ASSUME TypeInv, StallIsDue, pipe # <<>>, CmdFIFORead
    PROVE  /\ pipe' \in Seq(Command) /\ Len(pipe') <= PipeSize
           /\ fifo' \in Seq(Command) /\ Len(fifo') <= FifoSize
           /\ stallq' \in Seq(Command) /\ stall' \in BOOLEAN
           /\ StallIsDue'
           /\ Len(fifo') <= Len(fifo)
           /\ ~IsLow => Len(fifo') = Len(fifo)
  <1>1. /\ pipe' \in Seq(Command) /\ Len(pipe') = Len(pipe) - 1 + Filled
        /\ fifo' \in Seq(Command) /\ Len(fifo') = Len(fifo) - Filled + Len(Moved)
        /\ stallq' \in Seq(Command) /\ Len(stallq') = Len(stallq) - Len(Moved)
    BY ReadLengths
  <1>2. /\ Len(pipe) \in Nat /\ Len(pipe) > 0 /\ Len(pipe) <= PipeSize
        /\ Len(fifo) \in Nat /\ Len(fifo) <= FifoSize /\ Len(stallq) \in Nat
        /\ stallq # <<>> <=> Len(stallq) > 0
        /\ fifo # <<>> <=> Len(fifo) > 0
    BY EmptyIsZero DEF TypeInv
  <1>3. /\ Len(stallq) > 0 => Len(fifo) = FifoSize
        /\ Len(fifo) > 0 => Len(pipe) > Low
    BY <1>2 DEF StallIsDue
  <1>4. CASE ~IsLow
    <2>1. Filled = 0 /\ Len(Moved) = 0
      BY <1>4, ReadParts
    <2>2. stall' = stall
      BY <1>4 DEF CmdFIFORead
    <2>3. Len(pipe') > Low
      <3>1. Len(Rest) = Len(pipe) - 1
        BY ReadParts
      <3> QED
        BY <1>1, <1>2, <1>4, <2>1, <3>1, Sizes DEF IsLow
    <2>4. Len(fifo') = Len(fifo) /\ Len(stallq') = Len(stallq) /\ Len(pipe') <= PipeSize
      <3>1. Len(fifo') = Len(fifo) - 0 + 0 /\ Len(stallq') = Len(stallq) - 0
        BY <1>1, <2>1
      <3>2. Len(pipe') = Len(pipe) - 1 + 0
        BY <1>1, <2>1
      <3> QED
        BY <1>2, <3>1, <3>2, Sizes
    <2>5. stallq' # <<>> <=> stallq # <<>>
      BY <1>1, <1>2, <2>4, EmptyIsZero
    <2>6. StallIsDue'
      BY <1>2, <1>3, <2>2, <2>3, <2>4, <2>5 DEF StallIsDue
    <2> QED
      BY <1>1, <1>2, <2>2, <2>4, <2>6 DEF TypeInv
  <1>5. CASE IsLow
    <2> DEFINE p  == Len(pipe)
               f  == Len(fifo)
               s  == Len(stallq)
               k  == Filled
               m  == Len(Moved)
               p1 == Len(pipe')
               f1 == Len(fifo')
               s1 == Len(stallq')
    <2>1. /\ p \in Nat /\ f \in Nat /\ s \in Nat
          /\ p > 0 /\ f <= FifoSize
          /\ s > 0 => f = FifoSize
          /\ f > 0 => p > Low
      BY <1>2, <1>3
    <2>2. k = IF Refill <= f THEN Refill ELSE f
      BY <1>5, ReadParts
    <2>3. m = IF s <= FifoSize - (f - k) THEN s ELSE FifoSize - (f - k)
      BY <1>5, ReadParts
    <2>4. p - 1 <= Low
      BY <1>5, ReadParts DEF IsLow
    <2>5. p1 = p - 1 + k /\ f1 = f - k + m /\ s1 = s - m
      BY <1>1
    <2>6. /\ Len(stallq') \in Nat /\ (stallq' # <<>> <=> s1 > 0)
          /\ Len(fifo') \in Nat /\ (fifo' # <<>> <=> f1 > 0)
      BY <1>1, EmptyIsZero
    <2>7. stall' = (stall /\ ~LetGo(stallq, stallq'))
      BY <1>5 DEF CmdFIFORead
    <2>8. stallq # <<>> <=> s > 0
      BY <1>2
    <2> HIDE DEF p, f, s, k, m, p1, f1, s1
    <2>9. k \in Nat /\ k <= f
      BY <2>1, <2>2, Sizes
    <2>10. m \in Nat /\ m <= s /\ (s = 0 => m = 0)
      BY <2>1, <2>3, <2>9, Sizes
    <2>11. p1 <= PipeSize /\ f1 <= FifoSize /\ f1 <= f
      <3>1. p1 <= PipeSize
        BY <2>1, <2>2, <2>4, <2>5, Sizes
      <3>2. f1 <= FifoSize /\ f1 <= f
        BY <2>1, <2>3, <2>5, <2>9, <2>10, Sizes
      <3> QED
        BY <3>1, <3>2
    <2>12. s1 > 0 => f1 = FifoSize
      BY <2>1, <2>3, <2>5, <2>9, <2>10, Sizes
    <2>13. f1 > 0 => p1 > Low
      BY <2>1, <2>2, <2>3, <2>4, <2>5, <2>9, <2>10, Sizes
    <2>14. s = 0 => s1 = 0
      <3>1. s1 = s - m /\ m \in Nat /\ s \in Nat /\ m <= s
        BY <2>1, <2>5, <2>10
      <3> QED
        BY <3>1
    <2>15. stall' \in BOOLEAN /\ (stall' <=> stallq' # <<>>)
      <3>1. stallq = <<>> => stallq' = <<>>
        BY <2>1, <2>6, <2>8, <2>14
      <3> QED
        BY <2>7, <3>1 DEF LetGo, StallIsDue, TypeInv
    <2>16. StallIsDue'
      BY <2>6, <2>12, <2>13, <2>15 DEF StallIsDue, p1, f1, s1
    <2> QED
      BY <1>1, <1>5, <2>11, <2>15, <2>16 DEF p1, f1, f
  <1> QED
    BY <1>4, <1>5
-----------------------------------------------------------------------------
\* The other steps leave the queue alone.
Quiet ==
    /\ UNCHANGED <<pipe, fifo, stallq, stall>>
    /\ packed' \in Seq(Command) /\ (pc' = "gx" => packed' # <<>>)

LEMMA QuietKeepsInv ==
    ASSUME Inv, Quiet
    PROVE  Inv'
  BY DEF Inv, TypeInv, StallIsDue, Quiet

\* Which steps those are.
LEMMA QuietSteps ==
    ASSUME Inv,
           \/ StorePacked \/ ReadStat \/ (\E m \in Modes : WriteStat(m)) \/ Acknowledge
           \/ StartDMA \/ EndCPU \/ StoreUnit \/ EndUnit \/ Finish \/ Return \/ VBlank
           \/ UNCHANGED vars
    PROVE  Quiet
  <1>1. packed \in Seq(Command) /\ (pc = "gx" => packed # <<>>)
    BY DEF Inv, TypeInv
  <1>2. CASE StorePacked \/ StoreUnit
    <2>1. WriteToGXFIFO
      BY <1>2 DEF StorePacked, StoreUnit
    <2>2. packed' \in Seq(Command) /\ (pc' = "gx" => packed' # <<>>)
      <3>1. CASE packed = <<>>
        BY <2>1, <3>1, FifoAssumption DEF WriteToGXFIFO
      <3>2. CASE packed # <<>>
        BY <2>1, <3>2, <1>1 DEF WriteToGXFIFO
      <3> QED
        BY <3>1, <3>2
    <2> QED
      BY <2>1, <2>2 DEF Quiet, WriteToGXFIFO, queues
  <1>3. CASE ReadStat \/ (\E m \in Modes : WriteStat(m)) \/ Acknowledge
    BY <1>1, <1>3 DEF Quiet, ReadStat, WriteStat, Acknowledge, queues, decode
  <1>4. CASE StartDMA \/ EndCPU \/ EndUnit
    BY <1>1, <1>4 DEF Quiet, StartDMA, EndCPU, EndUnit, queues, decode
  <1>5. CASE Finish \/ Return \/ VBlank
    BY <1>1, <1>5 DEF Quiet, Finish, Return, VBlank, queues, decode
  <1>6. CASE UNCHANGED vars
    BY <1>1, <1>6 DEF Quiet, vars, queues, decode
  <1> QED
    BY <1>2, <1>3, <1>4, <1>5, <1>6

\* Decode writes the command at hand or leaves the queue alone.
LEMMA DecodeStep ==
    ASSUME Inv, Decode
    PROVE  /\ packed' \in Seq(Command) /\ (pc' = "gx" => packed' # <<>>)
           /\ UNCHANGED <<mode, irq, dma>>
           /\ (\E e \in Command : CmdFIFOWrite(e)) \/ UNCHANGED <<pipe, fifo, stallq, stall>>
  <1>1. packed \in Seq(Command) /\ packed # <<>>
    BY DEF Inv, TypeInv, Decode
  <1>2. Head(packed) \in Command /\ Tail(packed) \in Seq(Command)
    BY <1>1, HeadTailProperties
  <1>3. packed' \in {packed, Tail(packed)}
    BY DEF Decode
  <1>4. pc' = "gx" => packed' # <<>>
    BY DEF Decode, AfterStore
  <1>5. CmdFIFOWrite(Head(packed)) \/ UNCHANGED <<pipe, fifo, stallq, stall>>
    BY DEF Decode, queues
  <1>6. UNCHANGED <<mode, irq, dma>>
    BY DEF Decode
  <1> QED
    BY <1>1, <1>2, <1>3, <1>4, <1>5, <1>6

\* The empty buffers.
LEMMA InvInit == Init => Inv
  <1>1. <<>> \in Seq(Command) /\ Len(<<>>) = 0
    BY EmptySeq
  <1>2. 0 <= PipeSize /\ 0 <= FifoSize
    BY Sizes
  <1>3. Init => TypeInv
    BY <1>1, <1>2 DEF Init, TypeInv
  <1>4. Init => StallIsDue
    BY DEF Init, StallIsDue
  <1> QED
    BY <1>3, <1>4 DEF Inv

\* Every step keeps the buffers in order.
LEMMA InvStep == Inv /\ [Next]_vars => Inv'
  <1> SUFFICES ASSUME Inv, [Next]_vars PROVE Inv'
    OBVIOUS
  <1>1. CASE Decode
    <2>1. CASE UNCHANGED <<pipe, fifo, stallq, stall>>
      BY <1>1, <2>1, DecodeStep, QuietKeepsInv DEF Quiet
    <2>2. CASE \E e \in Command : CmdFIFOWrite(e)
      BY <1>1, <2>2, DecodeStep, WriteKeepsInv DEF Inv, TypeInv
    <2> QED
      BY <1>1, <2>1, <2>2, DecodeStep
  <1>2. CASE \E c \in Command \ {Nop} : StoreCommand(c)
    <2>1. PICK c \in Command : StoreCommand(c)
      BY <1>2
    <2>2. CmdFIFOWrite(c) /\ packed' = packed /\ pc' = pc
      BY <2>1 DEF StoreCommand, decode
    <2> QED
      BY <2>2, WriteKeepsInv DEF Inv, TypeInv
  <1>3. CASE Execute
    <2>1. CmdFIFORead /\ pipe # <<>> /\ packed' = packed /\ pc' = pc
      BY <1>3 DEF Execute, ExecuteCommand, decode
    <2> QED
      BY <2>1, ReadKeepsInv DEF Inv, TypeInv
  <1>4. CASE \/ StorePacked \/ ReadStat \/ (\E m \in Modes : WriteStat(m)) \/ Acknowledge
             \/ StartDMA \/ EndCPU \/ StoreUnit \/ EndUnit \/ Finish \/ Return \/ VBlank
             \/ UNCHANGED vars
    BY <1>4, QuietSteps, QuietKeepsInv
  <1> QED
    BY <1>1, <1>2, <1>3, <1>4 DEF Next, CPU, Engine

\* The inductive invariant: the buffers' types and sizes together with StallIsDue.
THEOREM GxInv == Spec => []Inv
  BY InvInit, InvStep, PTL DEF Spec

\* Whatever the sizes of the buffers, the ARM9 is held up exactly while commands wait in
\* the stall queue, with a full FIFO before them and commands to execute before that.
THEOREM GxStallIsDue == Spec => []StallIsDue
  <1>1. Inv => StallIsDue
    BY DEF Inv
  <1> QED
    BY <1>1, GxInv, PTL
-----------------------------------------------------------------------------
(* Interrupts and DMAs *)

\* A level that is not lower asks for no interrupt that was not asked for before.
LEMMA IrqOfALevel ==
    ASSUME NEW k \in Nat, NEW l \in Nat, k <= l, NEW m, IrqAt(m, l)
    PROVE  IrqAt(m, k)
  BY Sizes DEF IrqAt

\* Every step keeps the interrupt pending.
LEMMA IrqStep == Inv /\ InterruptIsPending /\ [Next]_vars => InterruptIsPending'
  <1> SUFFICES ASSUME Inv, InterruptIsPending, [Next]_vars PROVE InterruptIsPending'
    OBVIOUS
  <1>1. Inv' /\ Len(fifo) \in Nat /\ Len(fifo') \in Nat
    BY InvStep DEF Inv, TypeInv
  <1>2. ASSUME NEW e \in Command, CmdFIFOWrite(e), UNCHANGED <<mode, irq>>
        PROVE  InterruptIsPending'
    <2>1. Len(fifo') >= Len(fifo)
      BY <1>2, WriteKeepsInv DEF Inv
    <2> QED
      BY <1>1, <1>2, <2>1, IrqOfALevel DEF InterruptIsPending
  <1>3. ASSUME UNCHANGED <<fifo, mode, irq>>
        PROVE  InterruptIsPending'
    BY <1>3 DEF InterruptIsPending
  <1>4. CASE Decode
    <2>1. CASE UNCHANGED <<pipe, fifo, stallq, stall>>
      BY <1>3, <1>4, <2>1, DecodeStep
    <2>2. CASE \E e \in Command : CmdFIFOWrite(e)
      BY <1>2, <1>4, <2>2, DecodeStep
    <2> QED
      BY <1>4, <2>1, <2>2, DecodeStep
  <1>5. CASE \E c \in Command \ {Nop} : StoreCommand(c)
    BY <1>2, <1>5 DEF StoreCommand
  <1>6. CASE Execute
    <2>1. CmdFIFORead /\ pipe # <<>> /\ mode' = mode
      BY <1>6 DEF Execute, ExecuteCommand
    <2>2. CASE IsLow
      BY <2>1, <2>2 DEF CmdFIFORead, InterruptIsPending
    <2>3. CASE ~IsLow
      <3>1. Len(fifo') = Len(fifo)
        BY <2>1, <2>3, ReadKeepsInv DEF Inv
      <3>2. irq' = irq
        BY <2>1, <2>3 DEF CmdFIFORead
      <3> QED
        BY <2>1, <3>1, <3>2 DEF InterruptIsPending
    <2> QED
      BY <2>2, <2>3
  <1>7. CASE (\E m \in Modes : WriteStat(m)) \/ Acknowledge
    BY <1>7 DEF WriteStat, Acknowledge, InterruptIsPending, queues
  <1>8. CASE StorePacked \/ ReadStat \/ StartDMA \/ EndCPU \/ StoreUnit \/ EndUnit
    BY <1>3, <1>8 DEF StorePacked, ReadStat, StartDMA, EndCPU, StoreUnit, EndUnit,
                      WriteToGXFIFO, queues
  <1>9. CASE Finish \/ Return \/ VBlank \/ UNCHANGED vars
    BY <1>3, <1>9 DEF Finish, Return, VBlank, vars, queues
  <1> QED
    BY <1>4, <1>5, <1>6, <1>7, <1>8, <1>9 DEF Next, CPU, Engine

\* Whatever the sizes, an interrupt that the FIFO's level asks for is pending.
THEOREM GxInterruptIsPending == Spec => []InterruptIsPending
  <1>1. Init => InterruptIsPending
    BY DEF Init, InterruptIsPending, IrqAt
  <1>2. Spec => [](Inv /\ InterruptIsPending)
    BY <1>1, InvInit, InvStep, IrqStep, PTL DEF Spec
  <1> QED
    BY <1>2, PTL

\* What is known of the DMA's record.
DmaType == dma \in [on : BOOLEAN, running : BOOLEAN, left : Int, burst : Int]

\* DMA::Start keeps its type.
LEMMA DmaAtType ==
    ASSUME NEW d \in [on : BOOLEAN, running : BOOLEAN, left : Int, burst : Int], NEW l \in Nat
    PROVE  /\ DmaAt(d, l) \in [on : BOOLEAN, running : BOOLEAN, left : Int, burst : Int]
           /\ DmaAt(d, l).on /\ ~DmaAt(d, l).running => l >= Half
  <1>1. Min({d.left, Burst}) \in Int
    BY MinOfTwo, FifoAssumption
  <1>2. CASE d.on /\ ~d.running /\ l < Half
    <2>1. DmaAt(d, l) = [d EXCEPT !.running = TRUE, !.burst = Min({d.left, Burst})]
      BY <1>2 DEF DmaAt, Started
    <2>2. DmaAt(d, l).running
      BY <2>1
    <2> QED
      BY <1>1, <2>1, <2>2
  <1>3. CASE ~(d.on /\ ~d.running /\ l < Half)
    <2>1. DmaAt(d, l) = d
      BY <1>3 DEF DmaAt
    <2>2. d.on /\ ~d.running => l >= Half
      BY <1>3, Sizes
    <2> QED
      BY <2>1, <2>2
  <1> QED
    BY <1>2, <1>3

\* Every step keeps a waiting DMA before a FIFO that is still to fall below the half.
LEMMA DmaStep ==
    Inv /\ DmaType /\ DmaIsNotForgotten /\ [Next]_vars => DmaType' /\ DmaIsNotForgotten'
  <1> SUFFICES ASSUME Inv, DmaType, DmaIsNotForgotten, [Next]_vars
               PROVE  DmaType' /\ DmaIsNotForgotten'
    OBVIOUS
  <1>1. Inv' /\ Len(fifo) \in Nat /\ Len(fifo') \in Nat
    BY InvStep DEF Inv, TypeInv
  <1>2. ASSUME Len(fifo') >= Len(fifo), dma' = dma
        PROVE  DmaType' /\ DmaIsNotForgotten'
    <2>1. dma.on /\ ~dma.running => Len(fifo') >= Half
      <3>1. Len(fifo) >= Half => Len(fifo') >= Half
        BY <1>1, <1>2, Sizes
      <3> QED
        BY <3>1 DEF DmaIsNotForgotten
    <2> QED
      BY <1>2, <2>1 DEF DmaType, DmaIsNotForgotten
  <1>3. ASSUME fifo' = fifo, dma' = dma
        PROVE  DmaType' /\ DmaIsNotForgotten'
    BY <1>3 DEF DmaType, DmaIsNotForgotten
  <1>4. CASE Decode
    <2>1. CASE UNCHANGED <<pipe, fifo, stallq, stall>>
      BY <1>3, <1>4, <2>1, DecodeStep
    <2>2. CASE \E e \in Command : CmdFIFOWrite(e)
      BY <1>2, <1>4, <2>2, DecodeStep, WriteKeepsInv DEF Inv
    <2> QED
      BY <1>4, <2>1, <2>2, DecodeStep
  <1>5. CASE \E c \in Command \ {Nop} : StoreCommand(c)
    BY <1>2, <1>5, WriteKeepsInv DEF StoreCommand, Inv
  <1>6. CASE Execute
    <2>1. CmdFIFORead /\ pipe # <<>>
      BY <1>6 DEF Execute, ExecuteCommand
    <2>2. CASE IsLow
      <3>1. dma' = DmaAt(dma, Len(fifo'))
        BY <2>1, <2>2 DEF CmdFIFORead
      <3> QED
        BY <1>1, <3>1, DmaAtType DEF DmaType, DmaIsNotForgotten
    <2>3. CASE ~IsLow
      <3>1. Len(fifo') = Len(fifo)
        BY <2>1, <2>3, ReadKeepsInv DEF Inv
      <3>2. dma' = dma
        BY <2>1, <2>3 DEF CmdFIFORead
      <3> QED
        BY <1>1, <1>2, <3>1, <3>2
    <2> QED
      BY <2>2, <2>3
  <1>7. CASE StartDMA
    <2>1. PICK n \in DmaWords : dma' = DmaAt([dma EXCEPT !.on = TRUE, !.left = n], Len(fifo))
      BY <1>7 DEF StartDMA
    <2>2. fifo' = fifo
      BY <1>7 DEF StartDMA, queues
    <2>3. [dma EXCEPT !.on = TRUE, !.left = n]
             \in [on : BOOLEAN, running : BOOLEAN, left : Int, burst : Int]
      <3>1. n \in Int
        BY FifoAssumption
      <3> QED
        BY <3>1 DEF DmaType
    <2> QED
      BY <1>1, <2>1, <2>2, <2>3, DmaAtType DEF DmaType, DmaIsNotForgotten
  <1>8. CASE EndUnit
    <2> DEFINE D == [on : BOOLEAN, running : BOOLEAN, left : Int, burst : Int]
               stop == [dma EXCEPT !.on = FALSE, !.running = FALSE, !.left = 0, !.burst = 0]
               wait == [dma EXCEPT !.running = FALSE, !.left = dma.left - 1, !.burst = 0]
               next == [dma EXCEPT !.left = dma.left - 1, !.burst = dma.burst - 1]
    <2>1. fifo' = fifo
      BY <1>8 DEF EndUnit, queues
    <2>2. dma' \in {stop, DmaAt(wait, Len(fifo)), next}
      BY <1>8 DEF EndUnit
    <2>3. stop \in D /\ wait \in D /\ next \in D
      <3>1. dma.left - 1 \in Int /\ dma.burst - 1 \in Int /\ 0 \in Int
        BY DEF DmaType
      <3> QED
        BY <3>1, Zenon DEF DmaType
    <2>4. ~stop.on /\ next.on = dma.on /\ next.running = dma.running
      BY DEF DmaType
    <2>5. CASE dma' = stop
      BY <2>3, <2>4, <2>5 DEF DmaType, DmaIsNotForgotten
    <2>6. CASE dma' = DmaAt(wait, Len(fifo))
      <3> HIDE DEF wait
      <3> QED
        BY <1>1, <2>1, <2>3, <2>6, DmaAtType DEF DmaType, DmaIsNotForgotten
    <2>7. CASE dma' = next
      <3> HIDE DEF next
      <3> QED
        BY <2>1, <2>3, <2>4, <2>7 DEF DmaType, DmaIsNotForgotten
    <2> QED
      BY <2>2, <2>5, <2>6, <2>7
  <1>9. CASE StorePacked \/ ReadStat \/ (\E m \in Modes : WriteStat(m)) \/ Acknowledge
    BY <1>3, <1>9 DEF StorePacked, ReadStat, WriteStat, Acknowledge, WriteToGXFIFO, queues
  <1>10. CASE EndCPU \/ StoreUnit \/ Finish \/ Return \/ VBlank \/ UNCHANGED vars
    BY <1>3, <1>10 DEF EndCPU, StoreUnit, Finish, Return, VBlank, WriteToGXFIFO, vars, queues
  <1> QED
    BY <1>4, <1>5, <1>6, <1>7, <1>8, <1>9, <1>10 DEF Next, CPU, Engine

\* Whatever the sizes, a DMA that does not run waits for a FIFO that has to fall below
\* the half yet.
THEOREM GxDmaIsNotForgotten == Spec => []DmaIsNotForgotten
  <1>1. Init => DmaType /\ DmaIsNotForgotten
    BY DEF Init, DmaType, DmaIsNotForgotten
  <1>2. Spec => [](Inv /\ DmaType /\ DmaIsNotForgotten)
    BY <1>1, InvInit, InvStep, DmaStep, PTL DEF Spec
  <1> QED
    BY <1>2, PTL
-----------------------------------------------------------------------------
(* Pipe, FIFO and stall queue are one queue *)

\* To be held up as StallIsDue says is to be held up as the queue allows.
LEMMA QueueFits ==
    ASSUME NEW p \in Seq(Command), NEW f \in Seq(Command), NEW s \in Seq(Command), NEW w \in BOOLEAN,
           Len(p) <= PipeSize, Len(f) <= FifoSize,
           w <=> s # <<>>, s # <<>> => Len(f) = FifoSize
    PROVE  Queue!Fits(p \o f \o s, w)
  <1>1. /\ Len(p \o f \o s) = Len(p) + Len(f) + Len(s)
        /\ Len(p) \in Nat /\ Len(f) \in Nat /\ Len(s) \in Nat
    BY ConcatProperties
  <1>2. CASE w
    <2>1. Len(s) > 0 /\ Len(f) = FifoSize
      BY <1>2, EmptyIsZero
    <2>2. Len(p \o f \o s) > FifoSize
      BY <1>1, <2>1, Sizes
    <2> QED
      BY <1>2, <2>2 DEF Queue!Fits
  <1>3. CASE ~w
    <2>1. Len(s) = 0
      BY <1>1, <1>3, EmptyIsZero
    <2>2. ~(Len(p \o f \o s) > FifoSize + PipeSize)
      BY <1>1, <2>1, Sizes
    <2> QED
      BY <1>3, <2>2 DEF Queue!Fits
  <1> QED
    BY <1>2, <1>3

\* To append to a part with nothing behind it is to append to the whole.
LEMMA AppendToParts ==
    ASSUME NEW a \in Seq(Command), NEW b \in Seq(Command), NEW c \in Seq(Command), NEW e \in Command
    PROVE  /\ Append(a, e) \o <<>> \o <<>> = Append(a \o <<>> \o <<>>, e)
           /\ a \o Append(b, e) \o <<>> = Append(a \o b \o <<>>, e)
           /\ a \o b \o Append(c, e) = Append(a \o b \o c, e)
  <1>1. \A s, t \in Seq(Command) : s \o Append(t, e) = Append(s \o t, e)
    <2> TAKE s, t \in Seq(Command)
    <2>1. Append(t, e) = t \o <<e>> /\ <<e>> \in Seq(Command)
      BY AppendIsConcat
    <2>2. s \o t \in Seq(Command)
      BY ConcatProperties
    <2>3. Append(s \o t, e) = (s \o t) \o <<e>>
      BY <2>2, AppendIsConcat
    <2> QED
      BY <2>1, <2>2, <2>3, ConcatAssociative
  <1>2. \A s \in Seq(Command) : s \o <<>> = s
    BY ConcatEmptySeq
  <1>3. a \o b \in Seq(Command) /\ Append(a, e) \in Seq(Command)
    BY ConcatProperties, AppendProperties
  <1>4. Append(a \o b, e) \in Seq(Command)
    BY <1>3, AppendProperties
  <1> QED
    BY <1>1, <1>2, <1>3, <1>4

\* A write puts its entry at the end of the queue or, when the stall queue is full,
\* leaves it as it is.
LEMMA WriteIsPut ==
    ASSUME Inv, NEW e \in Command, CmdFIFOWrite(e)
    PROVE  \/ pipe' \o fifo' \o stallq' = Append(pipe \o fifo \o stallq, e)
           \/ ~(Len(stallq) < StallSize) /\ UNCHANGED <<pipe, fifo, stallq, stall>>
  <1>1. /\ pipe \in Seq(Command) /\ fifo \in Seq(Command) /\ stallq \in Seq(Command)
        /\ stallq # <<>> => Len(fifo) = FifoSize
        /\ stall <=> stallq # <<>>
    BY DEF Inv, TypeInv, StallIsDue
  <1>2. CASE /\ fifo = <<>> /\ pipe' = Append(pipe, e) /\ UNCHANGED <<fifo, stallq>>
    <2>1. stallq = <<>>
      <3>1. Len(fifo) # FifoSize
        BY <1>2, Sizes, EmptySeq
      <3> QED
        BY <1>1, <3>1
    <2> QED
      BY <1>1, <1>2, <2>1, AppendToParts
  <1>3. CASE Len(fifo) < FifoSize /\ fifo' = Append(fifo, e) /\ UNCHANGED <<pipe, stallq>>
    <2>1. stallq = <<>>
      <3>1. Len(fifo) # FifoSize
        BY <1>1, <1>3, Sizes
      <3> QED
        BY <1>1, <3>1
    <2> QED
      BY <1>1, <1>3, <2>1, AppendToParts
  <1>4. CASE /\ stallq' = IF Len(stallq) < StallSize THEN Append(stallq, e) ELSE stallq
             /\ stall' = TRUE /\ UNCHANGED <<pipe, fifo>>
    <2>1. CASE Len(stallq) < StallSize
      BY <1>1, <1>4, <2>1, AppendToParts
    <2>2. CASE ~(Len(stallq) < StallSize)
      <3>1. stallq # <<>>
        BY <2>2, Sizes, EmptySeq
      <3>2. stall = TRUE
        BY <1>1, <3>1 DEF Inv, TypeInv
      <3> QED
        BY <1>4, <2>2, <3>2
    <2> QED
      BY <2>1, <2>2
  <1> QED
    BY <1>2, <1>3, <1>4 DEF CmdFIFOWrite

\* What is refilled from the FIFO, and what stays there.
LEMMA FifoParts ==
    ASSUME Inv, pipe # <<>>
    PROVE  SubSeq(fifo, 1, Filled) \o Shrunk = fifo
  <1>1. fifo \in Seq(Command) /\ Filled \in 0..Len(fifo)
    BY ReadParts DEF Inv, TypeInv
  <1>2. SubSeq(fifo, 1, Filled) \o SubSeq(fifo, Filled + 1, Len(fifo)) = SubSeq(fifo, 1, Len(fifo))
    <2>1. 1 \in 1..(Len(fifo) + 1) /\ Filled \in (1 - 1)..Len(fifo) /\ Len(fifo) \in Filled..Len(fifo)
      BY <1>1
    <2> QED
      BY <1>1, <2>1, ConcatAdjacentSubSeq
  <1> QED
    BY <1>1, <1>2, SubSeqFull DEF Shrunk

\* A read takes the head of the queue and leaves the rest in its order.
LEMMA ReadIsTake ==
    ASSUME Inv, pipe # <<>>, CmdFIFORead
    PROVE  /\ pipe \o fifo \o stallq # <<>>
           /\ pipe' \o fifo' \o stallq' = Tail(pipe \o fifo \o stallq)
  <1> DEFINE first == SubSeq(fifo, 1, Filled)
             left  == SubSeq(stallq, Len(Moved) + 1, Len(stallq))
  <1>1. pipe \in Seq(Command) /\ fifo \in Seq(Command) /\ stallq \in Seq(Command)
    BY DEF Inv, TypeInv
  <1>2. pipe' = Rest \o first /\ fifo' = Shrunk \o Moved /\ stallq' = left
    BY DEF CmdFIFORead
  <1>3. /\ Rest \in Seq(Command) /\ first \in Seq(Command) /\ Shrunk \in Seq(Command)
        /\ Filled \in 0..Len(fifo)
    BY ReadParts DEF Inv
  <1>4. first \o Shrunk = fifo
    BY FifoParts
  <1>5. PICK n \in 0..Len(stallq) : Moved = SubSeq(stallq, 1, n) /\ Moved \in Seq(Command) /\ Len(Moved) = n
    BY ReadParts DEF Inv
  <1>6. Moved \o left = stallq
    <2>1. SubSeq(stallq, 1, n) \o SubSeq(stallq, n + 1, Len(stallq)) = SubSeq(stallq, 1, Len(stallq))
      <3>1. 1 \in 1..(Len(stallq) + 1) /\ n \in (1 - 1)..Len(stallq) /\ Len(stallq) \in n..Len(stallq)
        BY <1>1, <1>5
      <3> QED
        BY <1>1, <3>1, ConcatAdjacentSubSeq
    <2> QED
      BY <1>1, <1>5, <2>1, SubSeqFull
  <1>7. left \in Seq(Command)
    BY <1>2, ReadLengths DEF Inv
  <1> HIDE DEF first, left
  <1>8. (Rest \o first) \o (Shrunk \o Moved) \o left = Rest \o (fifo \o stallq)
    <2>1. /\ Rest \o first \in Seq(Command) /\ Shrunk \o Moved \in Seq(Command)
          /\ first \o Shrunk \in Seq(Command) /\ Moved \o left \in Seq(Command)
      BY <1>3, <1>5, <1>7, ConcatProperties
    <2>0. \A s, t, u \in Seq(Command) : (s \o t) \o u = s \o (t \o u)
      BY ConcatAssociative
    <2>2. (Rest \o first) \o (Shrunk \o Moved) \o left = (Rest \o first) \o ((Shrunk \o Moved) \o left)
      BY <2>1, <1>7, <2>0, ZenonT(60)
    <2>3. (Shrunk \o Moved) \o left = Shrunk \o stallq
      <3>1. (Shrunk \o Moved) \o left = Shrunk \o (Moved \o left)
        BY <1>3, <1>5, <1>7, <2>0, ZenonT(60)
      <3> QED
        BY <1>6, <3>1
    <2>4. Shrunk \o stallq \in Seq(Command)
      BY <1>1, <1>3, ConcatProperties
    <2>5. (Rest \o first) \o (Shrunk \o stallq) = Rest \o (first \o (Shrunk \o stallq))
      BY <1>3, <2>4, <2>0, Zenon
    <2>6. (first \o Shrunk) \o stallq = first \o (Shrunk \o stallq)
      <3>1. first \in Seq(Command) /\ Shrunk \in Seq(Command) /\ stallq \in Seq(Command)
        BY <1>1, <1>3
      <3> QED
        BY <2>0, <3>1, Zenon
    <2> QED
      BY <1>4, <2>2, <2>3, <2>5, <2>6
  <1>9. pipe \o fifo \o stallq = pipe \o (fifo \o stallq) /\ fifo \o stallq \in Seq(Command)
    BY <1>1, ConcatAssociative, ConcatProperties
  <1>10. Tail(pipe \o (fifo \o stallq)) = Rest \o (fifo \o stallq) /\ pipe \o (fifo \o stallq) # <<>>
    <2>1. \A s \in Seq(Command) : pipe \o s # <<>> /\ Tail(pipe \o s) = Tail(pipe) \o s
      <3> TAKE s \in Seq(Command)
      <3>1. pipe = <<Head(pipe)>> \o Tail(pipe) /\ Head(pipe) \in Command /\ Tail(pipe) \in Seq(Command)
        BY <1>1, HeadTailProperties
      <3>2. pipe \o s = <<Head(pipe)>> \o (Tail(pipe) \o s)
        BY <3>1, ConcatAssociative
      <3>3. \A h \in Command : \A t \in Seq(Command) : <<h>> \o t # <<>> /\ Tail(<<h>> \o t) = t
        OBVIOUS
      <3> QED
        BY <3>1, <3>2, <3>3, ConcatProperties
    <2> QED
      BY <1>9, <2>1 DEF Rest
  <1> QED
    BY <1>2, <1>8, <1>9, <1>10

\* Every step is one of the queue's or leaves it alone.
LEMMA QueueStep == Inv /\ [Next]_vars => [Queue!Next]_(Queue!vars)
  <1> SUFFICES ASSUME Inv, [Next]_vars PROVE [Queue!Next]_(Queue!vars)
    OBVIOUS
  <1>1. stall' \in BOOLEAN /\ Queue!Fits(pipe' \o fifo' \o stallq', stall')
    <2>1. /\ pipe' \in Seq(Command) /\ Len(pipe') <= PipeSize
          /\ fifo' \in Seq(Command) /\ Len(fifo') <= FifoSize
          /\ stallq' \in Seq(Command) /\ stall' \in BOOLEAN
          /\ stall' <=> stallq' # <<>>
          /\ stallq' # <<>> => Len(fifo') = FifoSize
      BY InvStep DEF Inv, TypeInv, StallIsDue
    <2> QED
      BY <2>1, QueueFits
  <1>2. ASSUME UNCHANGED <<pipe, fifo, stallq, stall>>
        PROVE  UNCHANGED Queue!vars
    BY <1>2 DEF Queue!vars
  <1>3. ASSUME NEW e \in Command, CmdFIFOWrite(e)
        PROVE  [Queue!Next]_(Queue!vars)
    BY <1>1, <1>2, <1>3, WriteIsPut DEF Queue!Next, Queue!Put
  <1>4. CASE Decode
    BY <1>2, <1>3, <1>4, DecodeStep
  <1>5. CASE \E c \in Command \ {Nop} : StoreCommand(c)
    BY <1>3, <1>5 DEF StoreCommand
  <1>6. CASE Execute
    <2>1. CmdFIFORead /\ pipe # <<>>
      BY <1>6 DEF Execute, ExecuteCommand
    <2> QED
      BY <1>1, <2>1, ReadIsTake DEF Queue!Next, Queue!Take
  <1>7. CASE \/ StorePacked \/ ReadStat \/ (\E m \in Modes : WriteStat(m)) \/ Acknowledge
             \/ StartDMA \/ EndCPU \/ StoreUnit \/ EndUnit \/ Finish \/ Return \/ VBlank
             \/ UNCHANGED vars
    BY <1>2, <1>7, QuietSteps DEF Quiet
  <1> QED
    BY <1>4, <1>5, <1>6, <1>7 DEF Next, CPU, Engine

\* What the queue never does, of IsQueue the part without its fairness.
QueueSafety == Queue!Init /\ [][Queue!Next]_(Queue!vars)

\* Whatever the sizes and the commands, entries leave the three parts in the order in
\* which they were written, and the ARM9 is held up when the queue may hold it up.
THEOREM GxIsQueue == Spec => QueueSafety
  <1>1. Init => Queue!Init
    <2>1. <<>> \o <<>> \o <<>> = <<>>
      BY ConcatEmptySeq, EmptySeq
    <2> QED
      BY <2>1 DEF Init, Queue!Init
  <1> QED
    BY <1>1, InvInit, InvStep, QueueStep, PTL DEF Spec, QueueSafety
-----------------------------------------------------------------------------
(* Nothing is dropped *)

\* A word packs some commands, and what a store can write fits in the stall queue.
LEMMA PackFits ==
    /\ Pack \in Nat \ {0} /\ Stores \in Nat \ {0} /\ Pack <= StallSize
    /\ \A w \in Words : w \in Seq(Command) /\ w # <<>> /\ Len(w) = Pack
    /\ Pack * 0 = 0
    /\ \A r \in Nat \ {0} : Pack * r \in Nat /\ Pack * r = Pack * (r - 1) + Pack
  <1>1. \A w \in Words : w \in Seq(Command) /\ w # <<>> /\ Len(w) = Pack
    BY FifoAssumption, WordsAssumption
  <1>2. Pack \in Nat \ {0}
    <2>1. PICK w \in Words : TRUE
      BY WordsAssumption
    <2>2. w \in Seq(Command) /\ w # <<>> /\ Len(w) = Pack
      BY <1>1, <2>1
    <2> QED
      BY <2>2, EmptyIsZero
  <1>3. Stores \in Nat \ {0} /\ StallSize \in Nat
    BY FifoAssumption
  <1> DEFINE p == Pack
  <1>4. p \in Nat \ {0} /\ p * Stores <= StallSize
    BY <1>2, StallAssumption
  <1> HIDE DEF p
  <1>5. \A r \in Nat \ {0} : p * r \in Nat /\ p * r = p * (r - 1) + p
    BY <1>4
  <1>6. p <= StallSize /\ p * 0 = 0
    <2>1. p * Stores = p * (Stores - 1) + p /\ p * (Stores - 1) >= 0
      BY <1>3, <1>4
    <2>2. p * Stores \in Int /\ p * (Stores - 1) \in Int
      BY <1>3, <1>4
    <2> QED
      BY <1>3, <1>4, <2>1, <2>2
  <1> QED
    BY <1>1, <1>2, <1>3, <1>5, <1>6 DEF p

\* What the ARM9 or the DMA may still write before it looks at the stall again.
Owed == Pack * room + (IF pc = "gx" THEN Len(packed) ELSE IF pc = "dma" THEN Pack ELSE 0)

SpaceInv ==
    /\ room \in Nat /\ Len(packed) <= Pack
    /\ pc \in {"cpu", "gx", "dma", "unit", "run"}
    /\ dma.running /\ pc # "run" => room = 0
    /\ pc \in {"dma", "unit"} => room = 0
    /\ Len(stallq) + Owed <= StallSize
    /\ sent = Len(pipe \o fifo \o stallq)

\* The lengths that Owed adds up.
LEMMA SpaceTypes ==
    ASSUME Inv, SpaceInv
    PROVE  /\ Len(packed) \in Nat /\ Len(stallq) \in Nat /\ Pack * room \in Nat
           /\ room = 0 => Pack * room = 0
           /\ pipe \o fifo \o stallq \in Seq(Command) /\ sent \in Nat
           /\ StallSize \in Nat /\ Pack \in Nat \ {0} /\ Pack <= StallSize
  <1>1. /\ pipe \in Seq(Command) /\ fifo \in Seq(Command) /\ stallq \in Seq(Command)
        /\ packed \in Seq(Command) /\ room \in Nat
    BY DEF Inv, TypeInv, SpaceInv
  <1>2. Pack * room \in Nat /\ (room = 0 => Pack * room = 0)
    BY <1>1, PackFits
  <1>3. pipe \o fifo \o stallq \in Seq(Command)
    BY <1>1, ConcatProperties
  <1> QED
    BY <1>1, <1>2, <1>3, EmptyIsZero, PackFits, Sizes DEF SpaceInv

\* A write that finds room in the stall queue adds its entry, wherever it goes.
LEMMA WriteCounts ==
    ASSUME Inv, sent = Len(pipe \o fifo \o stallq), Len(stallq) < StallSize,
           NEW e \in Command, CmdFIFOWrite(e)
    PROVE  /\ sent' = Len(pipe' \o fifo' \o stallq')
           /\ Len(stallq') <= Len(stallq) + 1
           /\ pipe' \o fifo' \o stallq' = Append(pipe \o fifo \o stallq, e)
  <1>1. pipe' \o fifo' \o stallq' = Append(pipe \o fifo \o stallq, e)
    BY WriteIsPut
  <1>2. pipe \o fifo \o stallq \in Seq(Command) /\ stallq \in Seq(Command)
    BY ConcatProperties DEF Inv, TypeInv
  <1>3. stallq' = stallq \/ stallq' = Append(stallq, e)
    BY DEF CmdFIFOWrite
  <1>4. Len(stallq') <= Len(stallq) + 1
    BY <1>2, <1>3, AppendProperties
  <1>5. sent' = sent + 1
    BY DEF CmdFIFOWrite
  <1>6. Len(Append(pipe \o fifo \o stallq, e)) = Len(pipe \o fifo \o stallq) + 1
    BY <1>2, AppendProperties
  <1> QED
    BY <1>1, <1>4, <1>5, <1>6

\* A word more to write, or a parameter of the command at hand.
LEMMA StoreOwes ==
    ASSUME Inv, SpaceInv, WriteToGXFIFO
    PROVE  /\ Len(packed') \in Nat /\ Len(packed') <= Pack
           /\ pc' \in {"gx", AfterStore}
           /\ UNCHANGED <<pipe, fifo, stallq, sent, dma>>
  <1>1. packed' \in Words \/ packed' = packed
    BY DEF WriteToGXFIFO
  <1>2. Len(packed') \in Nat /\ Len(packed') <= Pack
    <2>1. CASE packed' \in Words
      <3>1. Pack \in Nat
        BY PackFits
      <3> QED
        BY <2>1, <3>1, PackFits
    <2>2. CASE packed' = packed
      BY <2>2, SpaceTypes DEF SpaceInv
    <2> QED
      BY <1>1, <2>1, <2>2
  <1> QED
    BY <1>2 DEF WriteToGXFIFO, queues

\* Every step leaves room for what may still be written.
LEMMA SpaceStep == Inv /\ SpaceInv /\ [Next]_vars => SpaceInv'
  <1> SUFFICES ASSUME Inv, SpaceInv, [Next]_vars PROVE SpaceInv'
    OBVIOUS
  <1>1. /\ Len(packed) \in Nat /\ Len(stallq) \in Nat /\ Pack * room \in Nat
        /\ room = 0 => Pack * room = 0
        /\ StallSize \in Nat /\ Pack \in Nat \ {0} /\ Pack <= StallSize
        /\ sent = Len(pipe \o fifo \o stallq) /\ sent \in Nat
        /\ room \in Nat /\ Len(packed) <= Pack
        /\ Len(stallq) + Owed <= StallSize
        /\ room # 0 => Pack * room = Pack * (room - 1) + Pack /\ Pack * (room - 1) \in Nat
    <2>1. room \in Nat
      BY DEF SpaceInv
    <2>2. room # 0 => Pack * room = Pack * (room - 1) + Pack
      BY <2>1, PackFits
    <2>3. room # 0 => Pack * (room - 1) \in Nat
      BY <2>1, PackFits
    <2> QED
      BY <2>1, <2>2, <2>3, SpaceTypes DEF SpaceInv
  <1>2. CASE StorePacked
    <2>1. /\ pc = "cpu" /\ room > 0 /\ room' = room - 1 /\ WriteToGXFIFO
      BY <1>2 DEF StorePacked
    <2>2. /\ Len(packed') \in Nat /\ Len(packed') <= Pack /\ pc' \in {"gx", AfterStore}
          /\ UNCHANGED <<pipe, fifo, stallq, sent, dma>>
      BY <2>1, StoreOwes
    <2>3. ~dma.running /\ pc' \in {"gx", "cpu"}
      BY <1>1, <2>1, <2>2 DEF SpaceInv, AfterStore
    <2>4. Len(stallq') + Owed' <= StallSize
      <3>1. Owed' = Pack * (room - 1) + (IF pc' = "gx" THEN Len(packed') ELSE 0)
        BY <2>1, <2>3 DEF Owed
      <3>2. Owed = Pack * (room - 1) + Pack
        BY <1>1, <2>1 DEF Owed
      <3> DEFINE a == Pack * (room - 1)
      <3>3. a \in Nat
        BY <1>1, <2>1
      <3> HIDE DEF a
      <3>4. Owed' = a + (IF pc' = "gx" THEN Len(packed') ELSE 0) /\ Owed = a + Pack
        BY <3>1, <3>2 DEF a
      <3> QED
        BY <1>1, <2>2, <3>3, <3>4
    <2> QED
      BY <1>1, <2>1, <2>2, <2>3, <2>4 DEF SpaceInv
  <1>3. CASE StoreUnit
    <2>1. pc = "dma" /\ room' = room /\ room = 0 /\ WriteToGXFIFO
      BY <1>3 DEF StoreUnit, SpaceInv
    <2>2. /\ Len(packed') \in Nat /\ Len(packed') <= Pack /\ pc' \in {"gx", "cpu", "unit"}
          /\ UNCHANGED <<pipe, fifo, stallq, sent, dma>>
      BY <2>1, StoreOwes DEF AfterStore
    <2>3. Len(stallq') + Owed' <= StallSize
      <3>1. Owed' = (IF pc' = "gx" THEN Len(packed') ELSE 0)
        <4>1. Pack * room' = 0
          BY <1>1, <2>1
        <4>2. Owed' = 0 + (IF pc' = "gx" THEN Len(packed') ELSE 0)
          BY <2>2, <4>1 DEF Owed
        <4> QED
          BY <2>2, <4>2
      <3>2. Owed = Pack
        BY <1>1, <2>1 DEF Owed
      <3> QED
        BY <1>1, <2>2, <3>1, <3>2
    <2> QED
      BY <1>1, <2>1, <2>2, <2>3 DEF SpaceInv
  <1>4. CASE Decode
    <2>1. /\ pc = "gx" /\ packed # <<>> /\ packed \in Seq(Command)
          /\ room' = room /\ dma' = dma /\ pc' \in {"gx", AfterStore}
          /\ pc' = "gx" => packed' = Tail(packed)
          /\ packed' \in {packed, Tail(packed)}
      <3>1. packed # <<>> /\ packed \in Seq(Command) /\ pc = "gx"
        BY <1>4 DEF Decode, Inv, TypeInv
      <3>2. packed' \in {packed, Tail(packed)} /\ pc' \in {"gx", AfterStore}
        BY <1>4 DEF Decode
      <3>3. pc' = "gx" => packed' = Tail(packed)
        BY <1>4 DEF Decode, AfterStore
      <3> QED
        BY <1>4, <3>1, <3>2, <3>3 DEF Decode
    <2>2. /\ Len(packed) > 0 /\ Len(packed') \in Nat /\ Len(packed') <= Len(packed)
          /\ pc' = "gx" => Len(packed') = Len(packed) - 1
      BY <2>1, HeadTailProperties
    <2>3. Owed = Pack * room + Len(packed)
      BY <2>1 DEF Owed
    <2>4. Len(stallq) < StallSize
      BY <1>1, <2>2, <2>3
    <2>5. sent' = Len(pipe' \o fifo' \o stallq') /\ Len(stallq') <= Len(stallq) + 1
          /\ Len(stallq') \in Nat
      <3>1. CASE CmdFIFOWrite(Head(packed))
        <4>1. Head(packed) \in Command
          BY <2>1
        <4>2. stallq' \in Seq(Command)
          BY <3>1, <4>1, WriteKeepsInv DEF Inv
        <4> QED
          BY <1>1, <2>4, <3>1, <4>1, <4>2, WriteCounts, EmptyIsZero
      <3>2. CASE UNCHANGED <<queues, status, stall>>
        BY <1>1, <3>2 DEF queues
      <3> QED
        BY <1>4, <3>1, <3>2 DEF Decode
    <2>6. pc' \in {"gx", "cpu", "unit"} /\ (pc' = "unit" => room = 0)
      BY <2>1 DEF AfterStore, SpaceInv
    <2>7. Len(stallq') + Owed' <= StallSize
      <3> DEFINE a == Pack * room
      <3>1. Owed' = a + (IF pc' = "gx" THEN Len(packed') ELSE 0) /\ Owed = a + Len(packed)
        BY <2>1, <2>3, <2>6 DEF Owed
      <3>2. a \in Nat
        BY <1>1
      <3> HIDE DEF a
      <3> QED
        BY <1>1, <2>2, <2>5, <3>1, <3>2
    <2>8. dma.running => room = 0
      BY <2>1 DEF SpaceInv
    <2> QED
      BY <1>1, <2>1, <2>2, <2>5, <2>6, <2>7, <2>8 DEF SpaceInv
  <1>5. CASE \E c \in Command \ {Nop} : StoreCommand(c)
    <2>1. PICK c \in Command : StoreCommand(c)
      BY <1>5
    <2>2. /\ pc = "cpu" /\ pc' = "cpu" /\ room > 0 /\ room' = room - 1 /\ CmdFIFOWrite(c)
          /\ packed' = packed /\ dma' = dma
      BY <2>1 DEF StoreCommand, decode
    <2>3. Owed = Pack * (room - 1) + Pack /\ Owed' = Pack * (room - 1)
      BY <1>1, <2>2 DEF Owed
    <2>4. Len(stallq) < StallSize
      BY <1>1, <2>2, <2>3
    <2>5. /\ sent' = Len(pipe' \o fifo' \o stallq') /\ Len(stallq') <= Len(stallq) + 1
          /\ stallq' \in Seq(Command)
      BY <1>1, <2>2, <2>4, WriteCounts, WriteKeepsInv DEF Inv
    <2>6. Len(stallq') \in Nat
      BY <2>5, EmptyIsZero
    <2>7. Len(stallq') + Owed' <= StallSize
      BY <1>1, <2>2, <2>3, <2>5, <2>6
    <2>8. ~dma.running
      BY <2>2 DEF SpaceInv
    <2> QED
      BY <1>1, <2>2, <2>5, <2>7, <2>8 DEF SpaceInv
  <1>6. CASE Execute
    <2>1. /\ pc = "run" /\ pc' = "run" /\ pipe # <<>> /\ CmdFIFORead
          /\ room' = room /\ packed' = packed /\ sent' = sent - 1
      BY <1>6 DEF Execute, ExecuteCommand, CmdFIFORead, decode
    <2>2. /\ pipe' \o fifo' \o stallq' = Tail(pipe \o fifo \o stallq)
          /\ pipe \o fifo \o stallq # <<>> /\ pipe \o fifo \o stallq \in Seq(Command)
      BY <2>1, ReadIsTake, SpaceTypes
    <2>3. sent' = Len(pipe' \o fifo' \o stallq')
      BY <1>1, <2>1, <2>2, HeadTailProperties
    <2>4. Len(stallq') \in Nat /\ Len(stallq') <= Len(stallq)
      <3>1. Len(stallq') = Len(stallq) - Len(Moved) /\ Len(Moved) \in 0..Len(stallq)
        BY <2>1, ReadLengths DEF Inv
      <3> QED
        BY <1>1, <3>1
    <2>5. Owed' = Pack * room /\ Owed = Pack * room
      BY <1>1, <2>1 DEF Owed
    <2> QED
      BY <1>1, <2>1, <2>3, <2>4, <2>5 DEF SpaceInv
  <1>7. CASE Return
    <2>1. pc = "run" /\ UNCHANGED <<pipe, fifo, stallq, sent, packed, dma>>
      BY <1>7 DEF Return, queues, decode
    <2>2. Owed = Pack * room
      BY <1>1, <2>1 DEF Owed
    <2>3. CASE room > 0 /\ dma.running
      <3>1. room' = 0 /\ pc' = "run"
        BY <1>7, <2>1, <2>3 DEF Return
      <3>2. Owed' = 0
        BY <3>1, PackFits DEF Owed
      <3> QED
        BY <1>1, <2>1, <2>2, <3>1, <3>2 DEF SpaceInv
    <2>4. CASE room > 0 /\ ~dma.running
      <3>1. room' = room /\ pc' = "cpu"
        BY <1>7, <2>4 DEF Return
      <3>2. Owed' = Pack * room
        BY <1>1, <3>1 DEF Owed
      <3> QED
        BY <1>1, <2>1, <2>2, <2>4, <3>1, <3>2 DEF SpaceInv
    <2>5. CASE ~(room > 0)
      <3>1. Len(stallq) = 0
        BY <1>7, <2>5, EmptySeq DEF Return, Inv, StallIsDue
      <3>2. CASE dma.running
        <4>1. pc' = "dma" /\ room' = room /\ room = 0
          BY <1>1, <1>7, <2>5, <3>2 DEF Return
        <4>2. Owed' = Pack
          BY <1>1, <4>1 DEF Owed
        <4> QED
          BY <1>1, <2>1, <3>1, <4>1, <4>2 DEF SpaceInv
      <3>3. CASE ~dma.running
        <4>1. pc' = "cpu" /\ room' = Stores
          BY <1>7, <2>5, <3>3 DEF Return
        <4>2. Owed' = Pack * Stores
          BY <4>1, PackFits DEF Owed
        <4>3. Pack * Stores <= StallSize /\ Pack * Stores \in Nat /\ Stores \in Nat
          BY PackFits, StallAssumption
        <4> QED
          BY <1>1, <2>1, <3>1, <3>3, <4>1, <4>2, <4>3 DEF SpaceInv
      <3> QED
        BY <3>2, <3>3
    <2> QED
      BY <2>3, <2>4, <2>5
  <1>8. CASE ReadStat \/ EndCPU
    <2>1. pc = "cpu" /\ pc' = "run" /\ room' \in {0, room}
          /\ UNCHANGED <<pipe, fifo, stallq, sent, packed, dma>>
      BY <1>8 DEF ReadStat, EndCPU, queues, decode
    <2>2. Owed = Pack * room /\ Owed' \in {0, Pack * room}
      <3>1. CASE room' = 0
        <4>1. Pack * room' = 0
          BY <3>1, PackFits
        <4> QED
          BY <1>1, <2>1, <3>1, <4>1 DEF Owed
      <3>2. CASE room' = room
        BY <1>1, <2>1, <3>2 DEF Owed
      <3> QED
        BY <2>1, <3>1, <3>2
    <2> QED
      BY <1>1, <2>1, <2>2 DEF SpaceInv
  <1>9. CASE StartDMA
    <2>1. /\ pc = "cpu" /\ UNCHANGED <<pipe, fifo, stallq, sent, packed>>
          /\ \/ dma'.running /\ room' = 0 /\ pc' = "run"
             \/ ~dma'.running /\ room' = room /\ pc' = "cpu"
      BY <1>9 DEF StartDMA, queues, decode
    <2>2. Owed = Pack * room /\ Owed' \in {0, Pack * room}
      <3>1. CASE room' = 0
        <4>1. Pack * room' = 0
          BY <3>1, PackFits
        <4> QED
          BY <1>1, <2>1, <4>1 DEF Owed
      <3>2. CASE room' = room /\ pc' = "cpu"
        BY <1>1, <2>1, <3>2 DEF Owed
      <3> QED
        BY <2>1, <3>1, <3>2
    <2> QED
      BY <1>1, <2>1, <2>2 DEF SpaceInv
  <1>10. CASE EndUnit
    <2>1. /\ pc = "unit" /\ UNCHANGED <<pipe, fifo, stallq, sent, packed, room>> /\ room = 0
          /\ pc' = "run" \/ (pc' = "dma" /\ ~stall)
      BY <1>10 DEF EndUnit, queues, decode, SpaceInv
    <2>2. Owed' = (IF pc' = "dma" THEN Pack ELSE 0)
      <3>1. Pack * room' = 0
        BY <1>1, <2>1
      <3>2. Owed' = 0 + (IF pc' = "dma" THEN Pack ELSE 0)
        BY <2>1, <3>1 DEF Owed
      <3> QED
        BY <1>1, <3>2
    <2>3. pc' = "dma" => Len(stallq) = 0
      BY <2>1, EmptySeq DEF Inv, StallIsDue
    <2>4. Owed = 0
      BY <1>1, <2>1 DEF Owed
    <2> QED
      BY <1>1, <2>1, <2>2, <2>3, <2>4 DEF SpaceInv
  <1>11. CASE (\E m \in Modes : WriteStat(m)) \/ Acknowledge \/ Finish \/ UNCHANGED vars
    <2>1. UNCHANGED <<pipe, fifo, stallq, sent, packed, room, pc, dma>>
      BY <1>11 DEF WriteStat, Acknowledge, Finish, vars, queues, decode
    <2> QED
      BY <2>1 DEF SpaceInv, Owed
  <1>12. CASE VBlank
    <2>1. UNCHANGED <<pipe, fifo, stallq, sent, packed, room, pc, dma>>
      BY <1>12 DEF VBlank, queues, decode
    <2> QED
      BY <2>1 DEF SpaceInv, Owed
  <1> QED
    BY <1>2, <1>3, <1>4, <1>5, <1>6, <1>7, <1>8, <1>9, <1>10, <1>11, <1>12 DEF Next, CPU, Engine

LEMMA SpaceInit == Init => SpaceInv
  <1> SUFFICES ASSUME Init PROVE SpaceInv
    OBVIOUS
  <1>1. <<>> \o <<>> \o <<>> = <<>> /\ Len(<<>>) = 0
    BY ConcatEmptySeq, EmptySeq
  <1>2. Pack \in Nat /\ Stores \in Nat /\ Pack * Stores <= StallSize /\ Pack * Stores \in Nat
    BY PackFits, StallAssumption
  <1>3. Owed = Pack * Stores
    BY <1>2 DEF Init, Owed
  <1> QED
    BY <1>1, <1>2, <1>3 DEF Init, SpaceInv

\* Whatever the sizes, as long as the stall queue takes what the ARM9 writes before it
\* stops: every entry that is written is in one of the three parts until it is executed.
THEOREM GxNothingDropped == Spec => []NothingDropped
  <1>1. SpaceInv => NothingDropped
    BY DEF SpaceInv, NothingDropped
  <1> QED
    BY <1>1, InvInit, InvStep, SpaceInit, SpaceStep, PTL DEF Spec
-----------------------------------------------------------------------------
(* Counting entries *)

Places(s, C) == {i \in 1..Len(s) : s[i] \in C}

LEMMA CountOfPlaces ==
    ASSUME NEW s \in Seq(Command), NEW C
    PROVE  /\ IsFiniteSet(Places(s, C)) /\ Count(s, C) = Cardinality(Places(s, C))
           /\ Count(s, C) \in Nat
  <1>1. DOMAIN s = 1..Len(s) /\ Len(s) \in Nat
    OBVIOUS
  <1>2. IsFiniteSet(1..Len(s))
    BY <1>1, FS_Interval
  <1>3. Places(s, C) \subseteq 1..Len(s)
    BY DEF Places
  <1>4. IsFiniteSet(Places(s, C))
    BY <1>2, <1>3, FS_Subset
  <1>5. Count(s, C) = Cardinality(Places(s, C))
    BY <1>1 DEF Count, Places
  <1> QED
    BY <1>4, <1>5, FS_CardinalityType

LEMMA CountOfNone == \A C : Count(<<>>, C) = 0
  <1> TAKE C
  <1>1. <<>> \in Seq(Command) /\ Len(<<>>) = 0
    BY EmptySeq
  <1>2. Places(<<>>, C) = {}
    BY <1>1 DEF Places
  <1> QED
    BY <1>1, <1>2, CountOfPlaces, FS_EmptySet

LEMMA CountOfOne ==
    ASSUME NEW e \in Command, NEW C
    PROVE  Count(<<e>>, C) = IF e \in C THEN 1 ELSE 0
  <1>1. <<e>> \in Seq(Command) /\ Len(<<e>>) = 1 /\ <<e>>[1] = e
    OBVIOUS
  <1>2. Count(<<e>>, C) = Cardinality(Places(<<e>>, C))
    BY <1>1, CountOfPlaces
  <1>3. CASE e \in C
    <2>1. Places(<<e>>, C) = {1}
      BY <1>1, <1>3 DEF Places
    <2> QED
      BY <1>2, <1>3, <2>1, FS_Singleton
  <1>4. CASE e \notin C
    <2>1. Places(<<e>>, C) = {}
      BY <1>1, <1>4 DEF Places
    <2> QED
      BY <1>2, <1>4, <2>1, FS_EmptySet
  <1> QED
    BY <1>3, <1>4

\* The entries of two parts, one after the other.
LEMMA CountOfConcat ==
    ASSUME NEW s \in Seq(Command), NEW t \in Seq(Command), NEW C
    PROVE  Count(s \o t, C) = Count(s, C) + Count(t, C)
  <1> DEFINE m == Len(s)
             B == {m + j : j \in Places(t, C)}
  <1>1. /\ s \o t \in Seq(Command) /\ Len(s \o t) = m + Len(t) /\ m \in Nat /\ Len(t) \in Nat
        /\ \A i \in 1..(m + Len(t)) : (s \o t)[i] = IF i <= m THEN s[i] ELSE t[i - m]
    BY ConcatProperties
  <1>2. Places(s \o t, C) = Places(s, C) \cup B
    <2>1. \A i \in Places(s \o t, C) : i \in Places(s, C) \cup B
      <3> TAKE i \in Places(s \o t, C)
      <3>1. i \in 1..(m + Len(t)) /\ (s \o t)[i] \in C
        BY <1>1 DEF Places
      <3>2. CASE i <= m
        BY <1>1, <3>1, <3>2 DEF Places
      <3>3. CASE ~(i <= m)
        <4>1. i - m \in Places(t, C) /\ i = m + (i - m)
          BY <1>1, <3>1, <3>3 DEF Places
        <4> QED
          BY <4>1
      <3> QED
        BY <3>2, <3>3
    <2>2. \A i \in Places(s, C) : i \in Places(s \o t, C)
      BY <1>1 DEF Places
    <2>3. \A j \in Places(t, C) : m + j \in Places(s \o t, C)
      <3> TAKE j \in Places(t, C)
      <3>1. j \in 1..Len(t) /\ t[j] \in C
        BY DEF Places
      <3>2. m + j \in 1..(m + Len(t)) /\ ~(m + j <= m) /\ (m + j) - m = j
        BY <1>1, <3>1
      <3>3. (s \o t)[m + j] = t[j]
        BY <1>1, <3>2
      <3> QED
        BY <1>1, <3>1, <3>2, <3>3 DEF Places
    <2> QED
      BY <2>1, <2>2, <2>3
  <1>3. Places(s, C) \cap B = {}
    BY <1>1 DEF Places
  <1>4. IsFiniteSet(B) /\ Cardinality(B) = Cardinality(Places(t, C))
    <2> DEFINE f == [j \in Places(t, C) |-> m + j]
    <2>1. Places(t, C) \subseteq Nat
      BY <1>1 DEF Places
    <2>2. f \in Bijection(Places(t, C), B)
      <3>1. f \in [Places(t, C) -> B]
        OBVIOUS
      <3>2. \A a, b \in Places(t, C) : f[a] = f[b] => a = b
        BY <1>1, <2>1
      <3>3. \A b \in B : \E a \in Places(t, C) : f[a] = b
        OBVIOUS
      <3> HIDE DEF f, B
      <3> QED
        BY <3>1, <3>2, <3>3 DEF Bijection, Injection, Surjection, IsInjective
    <2>3. ExistsBijection(Places(t, C), B)
      BY <2>2 DEF ExistsBijection
    <2> HIDE DEF f, B
    <2> QED
      BY <2>3, CountOfPlaces, FS_Bijection
  <1>5. Cardinality(Places(s, C) \cup B)
          = Cardinality(Places(s, C)) + Cardinality(B) - Cardinality(Places(s, C) \cap B)
    BY <1>4, CountOfPlaces, FS_Union
  <1> HIDE DEF B
  <1>6. /\ Count(s \o t, C) = Cardinality(Places(s \o t, C))
        /\ Count(s, C) = Cardinality(Places(s, C)) /\ Count(s, C) \in Nat
        /\ Count(t, C) = Cardinality(Places(t, C)) /\ Count(t, C) \in Nat
    BY <1>1, CountOfPlaces
  <1>7. Cardinality(Places(s, C) \cap B) = 0
    BY <1>3, FS_EmptySet
  <1> QED
    BY <1>2, <1>4, <1>5, <1>6, <1>7

LEMMA CountOfAppend ==
    ASSUME NEW s \in Seq(Command), NEW e \in Command, NEW C
    PROVE  Count(Append(s, e), C) = Count(s, C) + IF e \in C THEN 1 ELSE 0
  <1>1. Append(s, e) = s \o <<e>> /\ <<e>> \in Seq(Command)
    BY AppendIsConcat
  <1>2. Count(s \o <<e>>, C) = Count(s, C) + Count(<<e>>, C)
    BY <1>1, CountOfConcat
  <1> QED
    BY <1>1, <1>2, CountOfOne
-----------------------------------------------------------------------------
(* The entries of a command are together *)

\* The i-th entry of q is followed by one of the same command, or the last by the
\* command k that is at hand.
Follows(q, k, i) == IF i < Len(q) THEN q[i + 1] = q[i] ELSE k # <<>> /\ Head(k) = q[i]

\* Before the i-th entry of q there have been at[i] of its command.  The first had those
\* that the engine has taken, and the next to be written will have done.
Grouped(q, k, at, first, done) ==
    /\ at \in [1..(Len(q) + 1) -> Nat]
    /\ at[1] = first /\ at[Len(q) + 1] = done
    /\ \A i \in 1..Len(q) :
         /\ at[i] = 0 \/ at[i] < Params[q[i]]
         /\ at[i] + 1 < Params[q[i]] => at[i + 1] = at[i] + 1 /\ Follows(q, k, i)
         /\ ~(at[i] + 1 < Params[q[i]]) => at[i + 1] = 0

\* The first entry is taken.
LEMMA GroupedTail ==
    ASSUME NEW q \in Seq(Command), q # <<>>, NEW k, NEW at, NEW first, NEW done,
           Grouped(q, k, at, first, done)
    PROVE  \E at2 : Grouped(Tail(q), k, at2, at[2], done)
  <1> DEFINE n == Len(q)
             at2 == [i \in 1..n |-> at[i + 1]]
  <1>1. /\ n \in Nat \ {0} /\ Len(Tail(q)) = n - 1 /\ Tail(q) \in Seq(Command)
        /\ \A i \in 1..(n - 1) : Tail(q)[i] = q[i + 1]
    BY HeadTailProperties, EmptyIsZero
  <1>2. /\ at \in [1..(n + 1) -> Nat] /\ at[n + 1] = done
        /\ \A i \in 1..n :
             /\ at[i] = 0 \/ at[i] < Params[q[i]]
             /\ at[i] + 1 < Params[q[i]] => at[i + 1] = at[i] + 1 /\ Follows(q, k, i)
             /\ ~(at[i] + 1 < Params[q[i]]) => at[i + 1] = 0
    BY DEF Grouped
  <1> HIDE DEF n
  <1>3. at2 \in [1..(Len(Tail(q)) + 1) -> Nat]
    BY <1>1, <1>2
  <1>4. at2[1] = at[2] /\ at2[Len(Tail(q)) + 1] = done
    BY <1>1, <1>2
  <1>5. ASSUME NEW i \in 1..Len(Tail(q))
        PROVE  /\ at2[i] = 0 \/ at2[i] < Params[Tail(q)[i]]
               /\ at2[i] + 1 < Params[Tail(q)[i]] => at2[i + 1] = at2[i] + 1 /\ Follows(Tail(q), k, i)
               /\ ~(at2[i] + 1 < Params[Tail(q)[i]]) => at2[i + 1] = 0
    <2>1. /\ i \in 1..n /\ i + 1 \in 1..n /\ Tail(q)[i] = q[i + 1]
          /\ at2[i] = at[i + 1] /\ at2[i + 1] = at[(i + 1) + 1]
      BY <1>1, <1>5
    <2>2. Follows(q, k, i + 1) => Follows(Tail(q), k, i)
      <3>1. i < n - 1 => Tail(q)[i + 1] = q[(i + 1) + 1]
        BY <1>1, <2>1
      <3> QED
        BY <1>1, <2>1, <3>1 DEF Follows, n
    <2> HIDE DEF at2
    <2> QED
      BY <1>2, <2>1, <2>2
  <1> HIDE DEF at2
  <1>6. Grouped(Tail(q), k, at2, at[2], done)
    BY <1>3, <1>4, <1>5 DEF Grouped
  <1> QED
    BY <1>6

\* An entry of the command at hand is written, or of one on its own.
LEMMA GroupedAppend ==
    ASSUME NEW q \in Seq(Command), NEW k, NEW k2, NEW e \in Command,
           NEW at, NEW first, NEW done \in Nat, NEW done2 \in Nat,
           Grouped(q, k, at, first, done),
           k = <<>> \/ Head(k) = e, done = 0 \/ done < Params[e],
           done + 1 < Params[e] => done2 = done + 1 /\ k2 # <<>> /\ Head(k2) = e,
           ~(done + 1 < Params[e]) => done2 = 0
    PROVE  \E at2 : Grouped(Append(q, e), k2, at2, first, done2)
  <1> DEFINE n == Len(q)
             at2 == [i \in 1..(n + 2) |-> IF i <= n + 1 THEN at[i] ELSE done2]
  <1>1. /\ n \in Nat /\ Append(q, e) \in Seq(Command) /\ Len(Append(q, e)) = n + 1
        /\ \A i \in 1..n : Append(q, e)[i] = q[i]
        /\ Append(q, e)[n + 1] = e
    BY AppendProperties
  <1>2. /\ at \in [1..(n + 1) -> Nat] /\ at[1] = first /\ at[n + 1] = done
        /\ \A i \in 1..n :
             /\ at[i] = 0 \/ at[i] < Params[q[i]]
             /\ at[i] + 1 < Params[q[i]] => at[i + 1] = at[i] + 1 /\ Follows(q, k, i)
             /\ ~(at[i] + 1 < Params[q[i]]) => at[i + 1] = 0
    BY DEF Grouped
  <1>3. n = Len(q)
    OBVIOUS
  <1> HIDE DEF n
  <1>4. at2 \in [1..(Len(Append(q, e)) + 1) -> Nat]
    BY <1>1, <1>2
  <1>5. at2[1] = first /\ at2[Len(Append(q, e)) + 1] = done2
    BY <1>1, <1>2
  <1>6. ASSUME NEW i \in 1..Len(Append(q, e))
        PROVE  LET s == Append(q, e) IN
               /\ at2[i] = 0 \/ at2[i] < Params[s[i]]
               /\ at2[i] + 1 < Params[s[i]] => at2[i + 1] = at2[i] + 1 /\ Follows(s, k2, i)
               /\ ~(at2[i] + 1 < Params[s[i]]) => at2[i + 1] = 0
    <2>1. i \in 1..(n + 1)
      BY <1>1
    <2>2. CASE i \in 1..n
      <3>1. at2[i] = at[i] /\ at2[i + 1] = at[i + 1] /\ Append(q, e)[i] = q[i]
        BY <1>1, <2>2
      <3>2. Follows(q, k, i) => Follows(Append(q, e), k2, i)
        <4>1. CASE i < n
          <5>1. i + 1 \in 1..n
            BY <1>1, <2>2, <4>1
          <5>2. Append(q, e)[i + 1] = q[i + 1]
            BY <1>1, <5>1
          <5> QED
            BY <1>1, <1>3, <2>2, <3>1, <4>1, <5>2 DEF Follows
        <4>2. CASE i = n
          BY <1>1, <1>3, <3>1, <4>2 DEF Follows
        <4> QED
          BY <1>1, <2>2, <4>1, <4>2
      <3> HIDE DEF at2
      <3> QED
        BY <1>2, <2>2, <3>1, <3>2
    <2>3. CASE i = n + 1
      <3>1. at2[i] = done /\ at2[i + 1] = done2 /\ Append(q, e)[i] = e
        BY <1>1, <1>2, <2>3
      <3>2. ~(i < Len(Append(q, e)))
        BY <1>1, <2>3
      <3> HIDE DEF at2
      <3> QED
        BY <3>1, <3>2 DEF Follows
    <2> QED
      BY <1>1, <2>1, <2>2, <2>3
  <1> HIDE DEF at2
  <1>7. Grouped(Append(q, e), k2, at2, first, done2)
    BY <1>4, <1>5, <1>6 DEF Grouped
  <1> QED
    BY <1>7

\* Between two commands, another one comes to be at hand.
LEMMA GroupedOther ==
    ASSUME NEW q \in Seq(Command), NEW k, NEW k2, NEW at, NEW first,
           Grouped(q, k, at, first, 0)
    PROVE  Grouped(q, k2, at, first, 0)
  <1>1. Len(q) \in Nat
    OBVIOUS
  <1>2. ASSUME NEW i \in 1..Len(q), Follows(q, k, i), at[i + 1] # 0 PROVE Follows(q, k2, i)
    BY <1>1, <1>2 DEF Follows, Grouped
  <1>3. \A i \in 1..Len(q) : at[i] \in Nat
    BY <1>1 DEF Grouped
  <1> QED
    BY <1>2, <1>3 DEF Grouped
-----------------------------------------------------------------------------
(* The status *)

Written == pipe \o fifo \o stallq

\* The entries of the command at hand that are written.
Done == IF pc = "gx" /\ got > 0 THEN got - 1 ELSE got

Decoding ==
    /\ got \in Nat /\ params \in Nat
    /\ packed = <<>> => got = 0
    /\ packed # <<>> /\ pc # "gx" => got < Params[Head(packed)]
    /\ pc = "gx" => IF Params[Head(packed)] = 0 THEN got = 0 ELSE got \in 1..Params[Head(packed)]

Phases == \E at : Grouped(Written, packed, at, params, Done)

StatusInv == Decoding /\ Phases /\ StatusIsRight

\* The parts are sequences, and nothing waits behind an empty pipe.
PartsAre ==
    /\ pipe \in Seq(Command) /\ fifo \in Seq(Command) /\ stallq \in Seq(Command)
    /\ packed \in Seq(Command) /\ Written \in Seq(Command)
    /\ pipe = <<>> => fifo = <<>> /\ stallq = <<>> /\ Written = <<>>
    /\ pipe # <<>> => Written # <<>> /\ Head(Written) = Head(pipe)

\* The parts are sequences, and nothing waits behind an empty pipe.
LEMMA Parts ==
    ASSUME Inv
    PROVE  /\ pipe \in Seq(Command) /\ fifo \in Seq(Command) /\ stallq \in Seq(Command)
           /\ packed \in Seq(Command) /\ Written \in Seq(Command)
           /\ pipe = <<>> => fifo = <<>> /\ stallq = <<>> /\ Written = <<>>
           /\ pipe # <<>> => Written # <<>> /\ Head(Written) = Head(pipe)
           /\ \A c \in Command : Params[c] \in Nat
           /\ PartsAre
  <1>1. /\ pipe \in Seq(Command) /\ fifo \in Seq(Command) /\ stallq \in Seq(Command)
        /\ packed \in Seq(Command) /\ fifo \o stallq \in Seq(Command)
    BY ConcatProperties DEF Inv, TypeInv
  <1>2. Written \in Seq(Command) /\ Written = pipe \o (fifo \o stallq)
    BY <1>1, ConcatProperties, ConcatAssociative, SMTT(60) DEF Written
  <1>3. ASSUME pipe = <<>> PROVE fifo = <<>> /\ stallq = <<>>
    <2>1. Len(pipe) = 0
      BY <1>3, EmptySeq
    <2>2. fifo = <<>>
      BY <2>1, Sizes DEF Inv, StallIsDue
    <2>3. Len(fifo) # FifoSize
      BY <2>2, EmptySeq, Sizes
    <2> QED
      BY <2>2, <2>3 DEF Inv, StallIsDue
  <1>4. pipe = <<>> => Written = <<>>
    BY <1>3, ConcatEmptySeq, EmptySeq DEF Written
  <1>5. ASSUME pipe # <<>> PROVE Written # <<>> /\ Head(Written) = Head(pipe)
    <2> DEFINE rest == fifo \o stallq
    <2>1. rest \in Seq(Command) /\ Written = pipe \o rest
      BY <1>1, <1>2
    <2> HIDE DEF rest
    <2>2. Len(pipe) > 0 /\ Len(pipe \o rest) = Len(pipe) + Len(rest) /\ Len(rest) \in Nat
          /\ (pipe \o rest)[1] = pipe[1]
      BY <1>1, <1>5, <2>1, ConcatProperties, EmptyIsZero
    <2>3. pipe \o rest # <<>>
      BY <1>1, <1>2, <2>1, <2>2, EmptyIsZero
    <2>4. Head(pipe \o rest) = (pipe \o rest)[1] /\ Head(pipe) = pipe[1]
      BY <1>1, <1>5, <1>2, <2>1, <2>3
    <2> QED
      BY <2>1, <2>2, <2>3, <2>4
  <1>6. \A c \in Command : Params[c] \in Nat
    BY FifoAssumption
  <1> QED
    BY <1>1, <1>2, <1>3, <1>4, <1>5, <1>6 DEF PartsAre

LEMMA PartsNext == Inv' => PartsAre'
  <1>1. Inv => PartsAre
    BY Parts
  <1> QED
    BY <1>1, PTL

\* The command that the engine is in the middle of: the one in the pipe, or at hand.
LEMMA BegunIs ==
    ASSUME NEW p \in Seq(Command), NEW k \in Seq(Command)
    PROVE  /\ p # <<>> => Head(p \o k) = Head(p)
           /\ p = <<>> => Head(p \o k) = Head(k)
  <1>1. p = <<>> => p \o k = k
    BY ConcatEmptySeq
  <1>2. ASSUME p # <<>> PROVE Head(p \o k) = Head(p)
    <2>1. p \o k \in Seq(Command) /\ Len(p) > 0 /\ Len(p) \in Nat /\ (p \o k)[1] = p[1]
          /\ Len(p \o k) = Len(p) + Len(k) /\ Len(k) \in Nat
      BY <1>2, ConcatProperties, EmptyIsZero
    <2>2. p \o k # <<>>
      BY <2>1, EmptyIsZero
    <2> QED
      BY <1>2, <2>1, <2>2
  <1> QED
    BY <1>1, <1>2

\* With nothing written of it, the command at hand is not the one that is begun.
LEMMA BegunInPipe ==
    ASSUME Inv, Phases, Done = 0, params # 0 PROVE pipe # <<>>
  <1>1. PICK at : Grouped(Written, packed, at, params, Done)
    BY DEF Phases
  <1>2. Written = <<>> => Len(Written) + 1 = 1
    BY EmptySeq
  <1> QED
    BY <1>1, <1>2, Parts DEF Grouped

\* The level and the status are the same, and what is begun.
Same ==
    /\ UNCHANGED <<pipe, fifo, stallq, params, numPushPop, numTest, busy, pushpop, test>>
    /\ packed' = packed \/ (Done = 0 /\ packed' \in Seq(Command))
    /\ Done' = Done /\ Decoding'

LEMMA SameKeepsStatus == ASSUME Inv, StatusInv, Same PROVE StatusInv'
  <1>1. Phases'
    <2>1. PICK at : Grouped(Written, packed, at, params, Done)
      BY DEF StatusInv, Phases
    <2>2. Written' = Written /\ params' = params /\ Done' = Done /\ Written \in Seq(Command)
      BY Parts DEF Same, Written
    <2>3. CASE packed' = packed
      BY <2>1, <2>2, <2>3 DEF Phases
    <2>4. CASE Done = 0
      <3>1. Grouped(Written, packed', at, params, 0)
        BY <2>1, <2>2, <2>4, GroupedOther
      <3> QED
        BY <2>2, <2>4, <3>1 DEF Phases
    <2> QED
      BY <2>3, <2>4 DEF Same
  <1>2. \A C : Begun(C)' = Begun(C)
    <2>1. CASE packed' = packed
      BY <2>1 DEF Begun, Same
    <2>2. CASE Done = 0 /\ packed' \in Seq(Command)
      <3>1. CASE params = 0
        BY <3>1 DEF Begun, Same
      <3>2. CASE params # 0
        <4>1. pipe # <<>> /\ pipe \in Seq(Command) /\ packed \in Seq(Command)
          BY <2>2, <3>2, BegunInPipe, Parts DEF StatusInv
        <4>2. Head(pipe \o packed) = Head(pipe \o packed')
          BY <2>2, <4>1, BegunIs
        <4> QED
          BY <4>2 DEF Begun, Same
      <3> QED
        BY <3>1, <3>2
    <2> QED
      BY <2>1, <2>2 DEF Same
  <1>3. StatusIsRight'
    BY <1>2 DEF StatusInv, StatusIsRight, Queued, Same
  <1> QED
    BY <1>1, <1>3 DEF StatusInv, Same

\* What is at the head of the queue, or at hand when that is empty, stays there.
LEMMA WriteKeepsBegun ==
    ASSUME Inv, StatusInv, NEW e \in Command, CmdFIFOWrite(e), UNCHANGED params,
           packed = <<>> \/ Head(packed) = e, packed' \in Seq(Command), NEW C
    PROVE  Begun(C)' = Begun(C)
  <1>1. /\ pipe \in Seq(Command) /\ packed \in Seq(Command)
        /\ pipe = <<>> => fifo = <<>> /\ Written = <<>>
    BY Parts
  <1>2. CASE params = 0
    BY <1>2 DEF Begun
  <1>3. CASE params # 0 /\ pipe # <<>>
    <2>1. pipe' = pipe \/ pipe' = Append(pipe, e)
      BY DEF CmdFIFOWrite
    <2>2. pipe' \in Seq(Command) /\ pipe' # <<>> /\ Head(pipe') = Head(pipe)
      <3>1. CASE pipe' = pipe
        BY <1>1, <1>3, <3>1
      <3>2. CASE pipe' = Append(pipe, e)
        <4>1. Len(pipe) \in Nat /\ Len(pipe) > 0
          BY <1>1, <1>3, EmptyIsZero
        <4>2. /\ Append(pipe, e) \in Seq(Command) /\ Len(Append(pipe, e)) = Len(pipe) + 1
              /\ Append(pipe, e)[1] = pipe[1]
          BY <1>1, <4>1, AppendProperties
        <4>3. Append(pipe, e) # <<>>
          BY <4>1, <4>2, EmptyIsZero
        <4> QED
          BY <1>1, <1>3, <3>2, <4>2, <4>3
      <3> QED
        BY <2>1, <3>1, <3>2
    <2>3. Head(pipe' \o packed') = Head(pipe \o packed)
      BY <1>1, <1>3, <2>2, BegunIs
    <2> QED
      BY <2>3 DEF Begun
  <1>4. CASE params # 0 /\ pipe = <<>>
    <2>1. Done # 0
      BY <1>4, BegunInPipe DEF StatusInv
    <2>2. packed # <<>>
      BY <2>1 DEF Done, StatusInv, Decoding
    <2>3. pipe' = <<e>>
      <3>1. Len(pipe) = 0 /\ Len(fifo) = 0
        BY <1>1, <1>4, EmptySeq
      <3>2. ~(fifo # <<>> \/ Len(pipe) = PipeSize) /\ Len(fifo) # FifoSize
        BY <1>1, <1>4, <3>1, Sizes
      <3>3. pipe' = Append(pipe, e)
        BY <3>2 DEF CmdFIFOWrite
      <3> QED
        BY <1>4, <3>3
    <2>4. <<e>> \in Seq(Command) /\ <<e>> # <<>> /\ Head(<<e>>) = e
      OBVIOUS
    <2>5. Head(pipe' \o packed') = e
      BY <2>3, <2>4, BegunIs
    <2>6. Head(pipe \o packed) = e
      BY <1>1, <1>4, <2>2, BegunIs
    <2> QED
      BY <2>5, <2>6 DEF Begun
  <1> QED
    BY <1>2, <1>3, <1>4

\* An entry of the command at hand, or of one on its own, is written.
LEMMA WriteKeepsStatus ==
    ASSUME Inv, StatusInv, Len(stallq) < StallSize, sent = Len(Written),
           NEW e \in Command, CmdFIFOWrite(e), UNCHANGED params, Decoding',
           packed = <<>> \/ Head(packed) = e, packed' \in Seq(Command),
           Done = 0 \/ Done < Params[e],
           Done + 1 < Params[e] => Done' = Done + 1 /\ packed' # <<>> /\ Head(packed') = e,
           ~(Done + 1 < Params[e]) => Done' = 0
    PROVE  StatusInv'
  <1>1. Done \in Nat /\ Done' \in Nat
    <2>1. got \in Nat /\ got' \in Nat
      BY DEF StatusInv, Decoding
    <2>2. Done \in Nat
      BY <2>1 DEF Done
    <2>3. Done' \in Nat
      <3>1. CASE pc' = "gx" /\ got' > 0
        <4>1. Done' = got' - 1
          BY <3>1, Zenon DEF Done
        <4>2. got' - 1 \in Nat
          <5>1. \A n \in Nat : n > 0 => n - 1 \in Nat
            OBVIOUS
          <5> QED
            BY <2>1, <3>1, <5>1, Zenon
        <4> QED
          BY <4>1, <4>2
      <3>2. CASE ~(pc' = "gx" /\ got' > 0)
        BY <2>1, <3>2 DEF Done
      <3> QED
        BY <3>1, <3>2
    <2> QED
      BY <2>2, <2>3
  <1>2. Phases'
    <2>1. PICK at : Grouped(Written, packed, at, params, Done)
      BY DEF StatusInv, Phases
    <2>2. Written' = Append(Written, e)
      BY WriteCounts DEF Written
    <2>3. \E at2 : Grouped(Append(Written, e), packed', at2, params, Done')
      BY <1>1, <2>1, Parts, GroupedAppend
    <2> QED
      BY <2>2, <2>3 DEF Phases
  <1>3. \A C : Begun(C)' = Begun(C)
    BY WriteKeepsBegun
  <1>4. CASE UNCHANGED <<pipe, fifo, status>>
    <2>1. StatusIsRight'
      BY <1>3, <1>4 DEF StatusInv, StatusIsRight, Queued, status
    <2> QED
      BY <1>2, <2>1 DEF StatusInv
  <1>5. CASE /\ \/ pipe' = Append(pipe, e) /\ UNCHANGED fifo
                \/ fifo' = Append(fifo, e) /\ UNCHANGED pipe
             /\ busy' = TRUE /\ Counted(<<e>>, 0, 0)
             /\ pushpop' = (pushpop \/ e \in PushPop) /\ test' = (test \/ e \in Test)
    <2> DEFINE one(C) == IF e \in C THEN 1 ELSE 0
    <2>1. \A C : Queued(C)' = Queued(C) + one(C) /\ Queued(C) \in Nat
      <3> TAKE C
      <3>1. Count(pipe, C) \in Nat /\ Count(fifo, C) \in Nat
        BY Parts, CountOfPlaces
      <3>2. CASE pipe' = Append(pipe, e) /\ fifo' = fifo
        <4>1. Count(pipe', C) = Count(pipe, C) + one(C)
          BY <3>2, Parts, CountOfAppend
        <4> QED
          BY <3>1, <3>2, <4>1 DEF Queued
      <3>3. CASE fifo' = Append(fifo, e) /\ pipe' = pipe
        <4>1. Count(fifo', C) = Count(fifo, C) + one(C)
          BY <3>3, Parts, CountOfAppend
        <4> QED
          BY <3>1, <3>3, <4>1 DEF Queued
      <3> QED
        BY <1>5, <3>2, <3>3
    <2>2. /\ numPushPop = Queued(PushPop) /\ numTest = Queued(Test) + Begun(Test)
          /\ numPushPop > 0 => pushpop
          /\ numTest > 0 => test
          /\ Begun(Test) \in Nat
      BY DEF StatusInv, StatusIsRight, Begun, Decoding
    <2>3. numPushPop' = numPushPop + one(PushPop) /\ numTest' = numTest + one(Test)
      <3>1. \A C : Count(<<e>>, C) = one(C)
        BY CountOfOne
      <3>2. /\ numPushPop' = numPushPop + one(PushPop) - 0
            /\ numTest' = numTest + one(Test) - 0
        BY <1>5, <3>1 DEF Counted
      <3>3. numPushPop \in Nat /\ numTest \in Nat
        BY <2>1, <2>2
      <3> QED
        BY <3>2, <3>3
    <2>4. numPushPop' = Queued(PushPop)' /\ numTest' = Queued(Test)' + Begun(Test)'
      <3>1. /\ Queued(PushPop)' = Queued(PushPop) + one(PushPop)
            /\ Queued(Test)' = Queued(Test) + one(Test) /\ Queued(Test) \in Nat
        BY <2>1
      <3>2. Begun(Test)' = Begun(Test)
        BY <1>3
      <3> QED
        BY <2>2, <2>3, <3>1, <3>2
    <2>5. (numPushPop' > 0 => pushpop') /\ (numTest' > 0 => test')
      <3>1. numPushPop \in Nat /\ numTest \in Nat
        BY <2>1, <2>2
      <3>2. /\ e \notin PushPop => numPushPop' = numPushPop
            /\ e \notin Test => numTest' = numTest
        BY <3>1, <2>3
      <3>3. /\ pushpop' <=> pushpop \/ e \in PushPop
            /\ test' <=> test \/ e \in Test
        BY <1>5
      <3>4. numPushPop' > 0 => pushpop'
        BY <2>2, <3>2, <3>3
      <3>5. numTest' > 0 => test'
        BY <2>2, <3>2, <3>3
      <3> QED
        BY <3>4, <3>5
    <2>6. StatusIsRight'
      BY <1>5, <2>4, <2>5 DEF StatusIsRight
    <2> QED
      BY <1>2, <2>6 DEF StatusInv
  <1>6. (UNCHANGED <<pipe, fifo, status>>)
        \/ (/\ \/ pipe' = Append(pipe, e) /\ UNCHANGED fifo
               \/ fifo' = Append(fifo, e) /\ UNCHANGED pipe
            /\ busy' = TRUE /\ Counted(<<e>>, 0, 0)
            /\ pushpop' = (pushpop \/ e \in PushPop) /\ test' = (test \/ e \in Test))
    BY DEF CmdFIFOWrite
  <1>7. StatusIsRight' => StatusInv'
    BY <1>2 DEF StatusInv
  <1> QED
    BY <1>4, <1>5, <1>6, <1>7

\* A step outside of Decode that leaves the queues and their counts alone.
LEMMA OutsideKeepsStatus ==
    ASSUME Inv, StatusInv, UNCHANGED <<pipe, fifo, stallq, params, status, decode>>,
           pc' = pc \/ (pc # "gx" /\ pc' # "gx")
    PROVE  StatusInv'
  <1>1. UNCHANGED <<pipe, fifo, stallq, params, numPushPop, numTest, busy, pushpop, test, packed, got>>
    BY DEF status, decode
  <1>2. Done' = Done
    BY <1>1 DEF Done
  <1>3. Decoding'
    BY <1>1 DEF StatusInv, Decoding
  <1> QED
    BY <1>1, <1>2, <1>3, SameKeepsStatus DEF Same

\* A store: the command at hand has one more parameter, or a word of new ones comes.
LEMMA StoreKeepsStatus ==
    ASSUME Inv, StatusInv, WriteToGXFIFO, pc # "gx"
    PROVE  StatusInv'
  <1>1. /\ UNCHANGED <<pipe, fifo, stallq, params, numPushPop, numTest, busy, pushpop, test>>
        /\ AfterStore # "gx"
    BY DEF WriteToGXFIFO, queues, status, AfterStore
  <1>2. /\ got \in Nat /\ params \in Nat /\ Done = got
        /\ packed = <<>> => got = 0
        /\ packed # <<>> => got < Params[Head(packed)]
    BY DEF StatusInv, Decoding, Done
  <1>3. CASE packed = <<>>
    <2>1. /\ packed' \in Words /\ got' = 0
          /\ pc' = IF Params[Head(packed')] > 0 THEN AfterStore ELSE "gx"
      BY <1>3 DEF WriteToGXFIFO
    <2>2. packed' \in Seq(Command) /\ packed' # <<>> /\ Params[Head(packed')] \in Nat
      <3>1. packed' \in Seq(Command) /\ packed' # <<>>
        BY <2>1, PackFits
      <3>2. Head(packed') \in Command
        BY <3>1, HeadTailProperties
      <3> QED
        BY <3>1, <3>2, Parts
    <2>3. Done = 0 /\ Done' = 0
      BY <1>2, <1>3, <2>1 DEF Done
    <2>4. Decoding'
      <3>1. pc' = "gx" => Params[Head(packed')] = 0
        BY <1>1, <2>1, <2>2
      <3>2. pc' # "gx" => 0 < Params[Head(packed')]
        BY <2>1, <2>2
      <3> QED
        BY <1>1, <1>2, <2>1, <2>2, <3>1, <3>2 DEF Decoding
    <2> QED
      BY <1>1, <2>2, <2>3, <2>4, SameKeepsStatus DEF Same
  <1>4. CASE packed # <<>>
    <2>1. got' = got + 1 /\ pc' = "gx" /\ packed' = packed
      BY <1>4 DEF WriteToGXFIFO
    <2>2. Done' = Done
      BY <1>2, <2>1 DEF Done
    <2>3. Head(packed) \in Command /\ Params[Head(packed)] \in Nat
      <3>1. Head(packed) \in Command
        BY <1>4, HeadTailProperties, Parts
      <3> QED
        BY <3>1, Parts
    <2>4. got' \in Nat /\ got' \in 1..Params[Head(packed)] /\ Params[Head(packed)] # 0
      BY <1>2, <1>4, <2>1, <2>3
    <2>5. Decoding'
      BY <1>1, <1>2, <1>4, <2>1, <2>4 DEF Decoding
    <2> QED
      BY <1>1, <2>1, <2>2, <2>5, SameKeepsStatus DEF Same
  <1> QED
    BY <1>3, <1>4

\* What Decode leaves at hand.
LEMMA DecodeDecoding ==
    ASSUME Inv, StatusInv, Decode, NEW e, e = Head(packed)
    PROVE  /\ Decoding' /\ packed' \in Seq(Command) /\ e \in Command
           /\ Done = 0 \/ Done < Params[e]
           /\ Done + 1 < Params[e] => Done' = Done + 1 /\ packed' # <<>> /\ Head(packed') = e
           /\ ~(Done + 1 < Params[e]) => Done' = 0
           /\ Params[e] = 0 => Done = 0
  <1> DEFINE more == got >= Params[e]
  <1>1. /\ packed \in Seq(Command) /\ packed # <<>> /\ pc = "gx" /\ params' = params
        /\ packed' \in Seq(Command)
    BY DecodeStep DEF Inv, TypeInv, Decode
  <1>2. e \in Command /\ Params[e] \in Nat
    <2>1. e \in Command
      BY <1>1, HeadTailProperties
    <2> QED
      BY <2>1, Parts
  <1>3. /\ got \in Nat /\ params \in Nat
        /\ IF Params[e] = 0 THEN got = 0 ELSE got \in 1..Params[e]
        /\ Done = IF got > 0 THEN got - 1 ELSE got
    BY <1>1 DEF StatusInv, Decoding, Done
  <1>4. AfterStore # "gx"
    BY DEF AfterStore
  <1>5. CASE more
    <2>1. /\ packed' = Tail(packed) /\ got' = 0
          /\ pc' = IF packed' # <<>> /\ Params[Head(packed')] = 0 THEN "gx" ELSE AfterStore
      BY <1>5 DEF Decode
    <2>2. packed' # <<>> => Params[Head(packed')] \in Nat
      <3>1. packed' # <<>> => Head(packed') \in Command
        BY <1>1, HeadTailProperties
      <3> QED
        BY <3>1, Parts
    <2>3. Done' = 0
      BY <2>1 DEF Done
    <2>4. Decoding'
      <3>1. packed' # <<>> /\ pc' # "gx" => 0 < Params[Head(packed')]
        BY <2>1, <2>2
      <3>2. pc' = "gx" => Params[Head(packed')] = 0
        BY <1>4, <2>1
      <3> QED
        BY <1>1, <1>3, <2>1, <3>1, <3>2 DEF Decoding
    <2>5. ~(Done + 1 < Params[e]) /\ (Done = 0 \/ Done < Params[e]) /\ (Params[e] = 0 => Done = 0)
      BY <1>2, <1>3, <1>5
    <2> QED
      BY <1>1, <1>2, <2>3, <2>4, <2>5
  <1>6. CASE ~more
    <2>1. packed' = packed /\ got' = got /\ pc' = AfterStore
      BY <1>6 DEF Decode
    <2>2. Done' = got
      BY <1>4, <2>1 DEF Done
    <2>3. Decoding'
      <3>1. got < Params[e]
        BY <1>2, <1>3, <1>6
      <3> QED
        BY <1>1, <1>3, <1>4, <2>1, <3>1 DEF Decoding
    <2>4. /\ Done + 1 < Params[e] /\ Done + 1 = got /\ Params[e] # 0 /\ Done < Params[e]
      BY <1>2, <1>3, <1>6
    <2> QED
      BY <1>1, <1>2, <2>1, <2>2, <2>3, <2>4
  <1> QED
    BY <1>5, <1>6

\* The larger of two, as Max finds it.
LEMMA MaxOfTwo ==
    ASSUME NEW a \in Int, NEW b \in Int
    PROVE  Max({a, b}) = IF a >= b THEN a ELSE b
  <1> DEFINE m == IF a >= b THEN a ELSE b
  <1>1. m \in {a, b} /\ \A y \in {a, b} : m >= y
    OBVIOUS
  <1>2. \A x \in {a, b} : (\A y \in {a, b} : x >= y) => x = m
    OBVIOUS
  <1> QED
    BY <1>1, <1>2 DEF Max

\* The head leaves the pipe, and what was let in is in the FIFO.
LEMMA ReadCounts ==
    ASSUME Inv, pipe # <<>>, CmdFIFORead, NEW C
    PROVE  /\ Queued(C) \in Nat /\ Count(Moved, C) \in Nat
           /\ Queued(C)' = Queued(C) - (IF Head(pipe) \in C THEN 1 ELSE 0) + Count(Moved, C)
  <1> DEFINE first == SubSeq(fifo, 1, Filled)
  <1>1. pipe \in Seq(Command) /\ fifo \in Seq(Command)
    BY Parts
  <1>2. /\ Rest \in Seq(Command) /\ first \in Seq(Command) /\ Shrunk \in Seq(Command)
        /\ Moved \in Seq(Command)
    BY ReadParts DEF Inv
  <1>3. pipe' = Rest \o first /\ fifo' = Shrunk \o Moved /\ fifo = first \o Shrunk
    BY FifoParts DEF CmdFIFORead
  <1>4. Head(pipe) \in Command /\ pipe = <<Head(pipe)>> \o Rest /\ <<Head(pipe)>> \in Seq(Command)
    BY <1>1, HeadTailProperties DEF Rest
  <1> HIDE DEF first
  <1>5. /\ Count(pipe', C) = Count(Rest, C) + Count(first, C)
        /\ Count(fifo', C) = Count(Shrunk, C) + Count(Moved, C)
        /\ Count(fifo, C) = Count(first, C) + Count(Shrunk, C)
    BY <1>2, <1>3, CountOfConcat
  <1>6. Count(pipe, C) = (IF Head(pipe) \in C THEN 1 ELSE 0) + Count(Rest, C)
    <2>1. Count(<<Head(pipe)>> \o Rest, C) = Count(<<Head(pipe)>>, C) + Count(Rest, C)
      <3> DEFINE h == <<Head(pipe)>>
      <3>1. h \in Seq(Command)
        BY <1>4
      <3> HIDE DEF h
      <3>2. Count(h \o Rest, C) = Count(h, C) + Count(Rest, C)
        BY <1>2, <3>1, CountOfConcat
      <3> QED
        BY <3>2 DEF h
    <2>2. Count(<<Head(pipe)>>, C) = IF Head(pipe) \in C THEN 1 ELSE 0
      BY <1>4, CountOfOne
    <2> QED
      BY <1>4, <2>1, <2>2
  <1>7. /\ Count(Rest, C) \in Nat /\ Count(first, C) \in Nat /\ Count(Shrunk, C) \in Nat
        /\ Count(Moved, C) \in Nat
    BY <1>2, CountOfPlaces
  <1>8. Queued(C) = Count(pipe, C) + Count(fifo, C) /\ Queued(C)' = Count(pipe', C) + Count(fifo', C)
    BY DEF Queued
  <1> QED
    BY <1>5, <1>6, <1>7, <1>8

\* The engine takes an entry and, with the last of a command, executes that.
LEMMA ExecuteKeepsStatus ==
    ASSUME Inv, Inv', StatusInv, pipe # <<>>, pc = "run", ExecuteCommand, UNCHANGED <<decode, pc>>
    PROVE  StatusInv'
  <1> DEFINE e      == Head(pipe)
             last   == Params[e] <= 1 \/ params + 1 = Params[e]
             one(C) == IF e \in C THEN 1 ELSE 0
  <1>1. CmdFIFORead /\ UNCHANGED <<packed, got, pc>>
    BY DEF ExecuteCommand, decode
  <1>2. /\ pipe \in Seq(Command) /\ Written \in Seq(Command) /\ Written # <<>>
        /\ Head(Written) = e /\ e \in Command /\ Params[e] \in Nat
    <2>1. e \in Command
      BY Parts, HeadTailProperties
    <2> QED
      BY <2>1, Parts
  <1>3. Len(Written) \in Nat \ {0} /\ Written[1] = e
    BY <1>2, EmptyIsZero
  <1>4. PICK at : Grouped(Written, packed, at, params, Done)
    BY DEF StatusInv, Phases
  <1>5. /\ at[1] = params /\ params \in Nat
        /\ params = 0 \/ params < Params[e]
        /\ params + 1 < Params[e] => at[2] = params + 1 /\ Follows(Written, packed, 1)
        /\ ~(params + 1 < Params[e]) => at[2] = 0
    <2>1. 1 \in 1..Len(Written) /\ 1 + 1 = 2
      BY <1>3
    <2>2. params \in Nat
      BY DEF StatusInv, Decoding
    <2> QED
      BY <1>3, <1>4, <2>1, <2>2 DEF Grouped
  <1>6. last <=> ~(params + 1 < Params[e])
    BY <1>2, <1>5
  <1>7. params' = IF last THEN 0 ELSE params + 1
    BY DEF ExecuteCommand
  <1>8. Written' = Tail(Written)
    BY <1>1, ReadIsTake DEF Written
  <1>9. Phases'
    <2>1. params' = at[2] /\ packed' = packed /\ Done' = Done
      BY <1>1, <1>5, <1>6, <1>7 DEF Done
    <2> QED
      BY <1>2, <1>4, <1>8, <2>1, GroupedTail DEF Phases
  <1>10. Decoding'
    <2>1. params' \in Nat
      BY <1>5, <1>7
    <2> QED
      BY <1>1, <2>1 DEF StatusInv, Decoding
  <1>11. ASSUME ~last PROVE Head(pipe' \o packed') = e
    <2>1. Follows(Written, packed, 1)
      BY <1>5, <1>6, <1>11
    <2>2. /\ pipe' \in Seq(Command) /\ packed' \in Seq(Command) /\ Written' \in Seq(Command)
          /\ pipe' = <<>> => Written' = <<>>
          /\ pipe' # <<>> => Written' # <<>> /\ Head(Written') = Head(pipe')
      BY PartsNext DEF PartsAre
    <2>3. CASE 1 < Len(Written)
      <3>1. Len(Tail(Written)) = Len(Written) - 1 /\ Tail(Written)[1] = Written[2]
        BY <1>2, <1>3, <2>3, HeadTailProperties
      <3>2. Written' # <<>> /\ Head(Written') = Written'[1]
        <4>1. Len(Written') # 0
          BY <1>3, <1>8, <2>3, <3>1
        <4> QED
          BY <2>2, <4>1, EmptyIsZero
      <3>3. Written[2] = e
        BY <1>3, <2>1, <2>3 DEF Follows
      <3>4. pipe' # <<>> /\ Head(pipe') = e
        BY <1>8, <2>2, <3>1, <3>2, <3>3
      <3> QED
        BY <2>2, <3>4, BegunIs
    <2>4. CASE ~(1 < Len(Written))
      <3>1. packed # <<>> /\ Head(packed) = e
        BY <1>3, <2>1, <2>4 DEF Follows
      <3>2. Len(Written') = 0
        <4>1. Len(Tail(Written)) = Len(Written) - 1
          BY <1>2, HeadTailProperties
        <4> QED
          BY <1>3, <1>8, <2>4, <4>1
      <3>3. pipe' = <<>>
        BY <2>2, <3>2, EmptyIsZero
      <3> QED
        BY <1>1, <2>2, <3>1, <3>3, BegunIs
    <2> QED
      BY <2>3, <2>4
  <1>12. ASSUME NEW C
         PROVE  /\ Begun(C) = IF e \in C THEN params ELSE 0
                /\ Begun(C)' = IF ~last /\ e \in C THEN params + 1 ELSE 0
    <2>1. Head(pipe \o packed) = e
      BY <1>2, Parts, BegunIs
    <2>2. Begun(C) = IF e \in C THEN params ELSE 0
      BY <1>5, <2>1 DEF Begun
    <2>3. CASE last
      BY <1>7, <2>2, <2>3 DEF Begun
    <2>4. CASE ~last
      <3>1. params' = params + 1 /\ params' > 0
        BY <1>5, <1>7, <2>4
      <3>2. Head(pipe' \o packed') = e
        BY <1>11, <2>4
      <3> QED
        BY <2>2, <2>4, <3>1, <3>2 DEF Begun
    <2> QED
      BY <2>3, <2>4
  <1>13. \A C : /\ Queued(C) \in Nat /\ Count(Moved, C) \in Nat
                /\ Queued(C)' = Queued(C) - one(C) + Count(Moved, C)
    BY <1>1, ReadCounts
  <1> DEFINE pushpops == IF last /\ e \in PushPop THEN 1 ELSE 0
             tests    == IF last /\ e \in Test THEN Max({1, Params[e]}) ELSE 0
  <1>14. /\ numPushPop' = numPushPop + Count(Moved, PushPop) - pushpops
         /\ numTest' = numTest + Count(Moved, Test) - tests
    BY DEF ExecuteCommand, Counted
  <1>15. /\ busy' <=> busy \/ Moved # <<>>
         /\ pushpop' <=> (pushpop /\ numPushPop > 0) \/ Count(Moved, PushPop) > 0
         /\ test' <=> (test /\ numTest > 0) \/ Count(Moved, Test) > 0
    BY DEF ExecuteCommand
  <1>16. /\ numPushPop = Queued(PushPop) /\ numTest = Queued(Test) + Begun(Test)
         /\ busy
         /\ numPushPop > 0 => pushpop
         /\ numTest > 0 => test
    BY DEF StatusInv, StatusIsRight
  <1>17. e \in PushPop => last
    <2>1. e \in PushPop => e = "push" /\ Params[e] <= 1
      BY <1>2, WordsAssumption DEF PushPop
    <2> QED
      BY <2>1
  <1>18. Max({1, Params[e]}) = IF Params[e] <= 1 THEN 1 ELSE Params[e]
    BY <1>2, MaxOfTwo
  <1>19. numPushPop' = Queued(PushPop)' /\ pushpops \in Nat
    <2>1. pushpops = one(PushPop) /\ one(PushPop) \in Nat
      BY <1>17
    <2>2. /\ Queued(PushPop) \in Nat /\ Count(Moved, PushPop) \in Nat
          /\ Queued(PushPop)' = Queued(PushPop) - one(PushPop) + Count(Moved, PushPop)
      BY <1>13
    <2> HIDE DEF pushpops, one
    <2> QED
      BY <1>14, <1>16, <2>1, <2>2
  <1>20. numTest' = Queued(Test)' + Begun(Test)' /\ tests \in Nat
    <2>1. /\ Queued(Test) \in Nat /\ Count(Moved, Test) \in Nat
          /\ Queued(Test)' = Queued(Test) - one(Test) + Count(Moved, Test)
      BY <1>13
    <2>2. /\ Begun(Test) = IF e \in Test THEN params ELSE 0
          /\ Begun(Test)' = IF ~last /\ e \in Test THEN params + 1 ELSE 0
      BY <1>12
    <2>3. tests \in Nat /\ Begun(Test) - tests = Begun(Test)' - one(Test)
      BY <1>2, <1>5, <1>6, <1>18, <2>2
    <2>4. Begun(Test) \in Nat /\ Begun(Test)' \in Nat /\ one(Test) \in Nat
      BY <1>5, <2>2
    <2> HIDE DEF tests, one
    <2> QED
      BY <1>14, <1>16, <2>1, <2>3, <2>4, SMTT(60)
  <1>21. numPushPop' > 0 => pushpop'
    <2>1. numPushPop' > 0 => numPushPop > 0 \/ Count(Moved, PushPop) > 0
      <3>1. numPushPop \in Nat /\ Count(Moved, PushPop) \in Nat
        BY <1>13, <1>16
      <3> HIDE DEF pushpops
      <3> QED
        BY <1>14, <1>19, <3>1
    <2> QED
      BY <1>15, <1>16, <2>1
  <1>22. numTest' > 0 => test'
    <2>1. numTest' > 0 => numTest > 0 \/ Count(Moved, Test) > 0
      <3>1. numTest \in Nat /\ Count(Moved, Test) \in Nat
        <4>1. Begun(Test) \in Nat
          BY <1>5, <1>12
        <4> QED
          BY <1>13, <1>16, <4>1
      <3> HIDE DEF tests
      <3> QED
        BY <1>14, <1>20, <3>1
    <2> QED
      BY <1>15, <1>16, <2>1
  <1>23. StatusIsRight'
    BY <1>15, <1>16, <1>19, <1>20, <1>21, <1>22 DEF StatusIsRight
  <1> QED
    BY <1>9, <1>10, <1>23 DEF StatusInv

\* Nothing is left to execute: the counts are at zero, and so are the bits.
LEMMA FinishKeepsStatus ==
    ASSUME Inv, StatusInv, Finish
    PROVE  StatusInv'
  <1>1. /\ UNCHANGED <<pipe, fifo, stallq, params, numPushPop, numTest, packed, got, pc>>
        /\ pipe = <<>> /\ busy' \in BOOLEAN
        /\ pushpop' <=> pushpop /\ numPushPop > 0
        /\ test' <=> test /\ numTest > 0
    BY DEF Finish, queues, decode
  <1>2. fifo = <<>>
    BY <1>1, Parts
  <1>3. Queued(PushPop) = 0
    <2>1. Count(pipe, PushPop) = 0 /\ Count(fifo, PushPop) = 0
      BY <1>1, <1>2, CountOfNone
    <2> QED
      BY <2>1 DEF Queued
  <1>4. \A C : Queued(C)' = Queued(C) /\ Begun(C)' = Begun(C)
    BY <1>1 DEF Queued, Begun
  <1>5. StatusIsRight'
    <2>1. /\ numPushPop = Queued(PushPop) /\ numTest = Queued(Test) + Begun(Test)
          /\ numPushPop > 0 => pushpop
          /\ numTest > 0 => test
      BY DEF StatusInv, StatusIsRight
    <2>2. ~pushpop'
      BY <1>1, <1>3, <2>1
    <2>3. numPushPop' = Queued(PushPop)' /\ numTest' = Queued(Test)' + Begun(Test)'
      BY <1>1, <1>4, <2>1
    <2>4. pipe' = <<>> /\ (numTest' > 0 <=> test')
      BY <1>1, <2>1
    <2>5. ~(numPushPop' > 0)
      BY <1>1, <1>3, <2>1
    <2> QED
      BY <2>2, <2>3, <2>4, <2>5 DEF StatusIsRight
  <1>6. Phases'
    BY <1>1 DEF StatusInv, Phases, Written, Done
  <1>7. Decoding'
    BY <1>1 DEF StatusInv, Decoding
  <1> QED
    BY <1>5, <1>6, <1>7 DEF StatusInv

\* Every step keeps the counts and the bits right.
LEMMA StatusStep == Inv /\ SpaceInv /\ StatusInv /\ [Next]_vars => StatusInv'
  <1> SUFFICES ASSUME Inv, SpaceInv, StatusInv, [Next]_vars PROVE StatusInv'
    OBVIOUS
  <1>1. /\ sent = Len(Written) /\ Len(stallq) \in Nat /\ Len(packed) \in Nat
        /\ Pack * room \in Nat /\ StallSize \in Nat
    BY SpaceTypes DEF SpaceInv, Written
  <1>2. CASE StorePacked \/ StoreUnit
    BY <1>2, StoreKeepsStatus DEF StorePacked, StoreUnit
  <1>3. CASE Decode
    <2> DEFINE e == Head(packed)
    <2>1. /\ Decoding' /\ packed' \in Seq(Command) /\ e \in Command
          /\ Done = 0 \/ Done < Params[e]
          /\ Done + 1 < Params[e] => Done' = Done + 1 /\ packed' # <<>> /\ Head(packed') = e
          /\ ~(Done + 1 < Params[e]) => Done' = 0
          /\ Params[e] = 0 => Done = 0
      BY <1>3, DecodeDecoding
    <2>2. CASE CmdFIFOWrite(e)
      <3>1. Len(stallq) < StallSize
        <4>1. pc = "gx" /\ packed # <<>> /\ packed \in Seq(Command)
          BY <1>3 DEF Decode, Inv, TypeInv
        <4>2. Len(packed) > 0
          BY <4>1, EmptyIsZero
        <4>3. Len(stallq) + (Pack * room + Len(packed)) <= StallSize
          BY <4>1 DEF SpaceInv, Owed
        <4> QED
          BY <1>1, <4>2, <4>3
      <3>2. UNCHANGED params
        BY <1>3 DEF Decode
      <3> HIDE DEF e
      <3>3. Head(packed) = e
        BY DEF e
      <3> QED
        BY <1>1, <2>1, <2>2, <3>1, <3>2, <3>3, WriteKeepsStatus
    <2>3. CASE e = Nop /\ UNCHANGED <<queues, status, stall>>
      <3>1. Done = 0 /\ Done' = 0
        <4>1. Params[e] = 0
          BY <2>3, WordsAssumption
        <4> QED
          BY <2>1, <4>1
      <3>2. UNCHANGED <<pipe, fifo, stallq, params, numPushPop, numTest, busy, pushpop, test>>
        BY <1>3, <2>3 DEF Decode, queues, status
      <3> QED
        BY <2>1, <3>1, <3>2, SameKeepsStatus DEF Same
    <2> QED
      BY <1>3, <2>2, <2>3 DEF Decode
  <1>4. CASE \E c \in Command \ {Nop} : StoreCommand(c)
    <2>1. PICK c \in Command : StoreCommand(c)
      BY <1>4
    <2>2. /\ pc = "cpu" /\ room > 0 /\ packed = <<>> /\ Params[c] <= 1 /\ CmdFIFOWrite(c)
          /\ UNCHANGED <<params, packed, got, pc>>
      BY <2>1 DEF StoreCommand, decode
    <2>3. got = 0 /\ params \in Nat
      BY <2>2 DEF StatusInv, Decoding
    <2>4. Done = 0 /\ Done' = 0 /\ Decoding'
      BY <2>2, <2>3 DEF Done, Decoding
    <2>5. Len(stallq) < StallSize
      <3>1. Owed = Pack * room
        BY <1>1, <2>2 DEF Owed
      <3>2. room # 0 /\ room \in Nat
        BY <2>2 DEF SpaceInv
      <3>3. /\ Pack * room = Pack * (room - 1) + Pack /\ Pack \in Nat \ {0}
            /\ Pack * (room - 1) \in Nat
        BY <3>2, PackFits
      <3> QED
        BY <1>1, <3>1, <3>3 DEF SpaceInv
    <2>6. ~(0 + 1 < Params[c])
      BY <2>2, Parts
    <2>7. packed' \in Seq(Command)
      BY <2>2, Parts
    <2> QED
      BY <1>1, <2>2, <2>4, <2>5, <2>6, <2>7, WriteKeepsStatus
  <1>5. CASE Execute
    BY <1>5, InvStep, ExecuteKeepsStatus DEF Execute
  <1>6. CASE Finish
    BY <1>6, FinishKeepsStatus
  <1>7. CASE ReadStat \/ EndCPU \/ StartDMA \/ EndUnit \/ (\E m \in Modes : WriteStat(m)) \/ Acknowledge
    <2>1. /\ UNCHANGED <<pipe, fifo, stallq, params, status, decode>>
          /\ pc' = pc \/ (pc # "gx" /\ pc' # "gx")
      BY <1>7 DEF ReadStat, EndCPU, StartDMA, EndUnit, WriteStat, Acknowledge, queues
    <2> QED
      BY <2>1, OutsideKeepsStatus
  <1>8. CASE Return \/ VBlank \/ UNCHANGED vars
    <2>1. /\ UNCHANGED <<pipe, fifo, stallq, params, status, decode>>
          /\ pc' = pc \/ (pc # "gx" /\ pc' # "gx")
      BY <1>8 DEF Return, VBlank, vars, queues
    <2> QED
      BY <2>1, OutsideKeepsStatus
  <1> QED
    BY <1>2, <1>3, <1>4, <1>5, <1>6, <1>7, <1>8 DEF Next, CPU, Engine

LEMMA StatusInit == Init => StatusInv
  <1> SUFFICES ASSUME Init PROVE StatusInv
    OBVIOUS
  <1>1. Written = <<>> /\ Len(<<>>) = 0
    BY ConcatEmptySeq, EmptySeq DEF Init, Written
  <1>2. Decoding /\ Done = 0
    BY DEF Init, Decoding, Done
  <1>3. Phases
    <2> DEFINE at == [i \in 1..1 |-> 0]
    <2>1. Grouped(<<>>, <<>>, at, 0, 0)
      <3>1. at \in [1..(Len(<<>>) + 1) -> Nat] /\ at[1] = 0 /\ at[Len(<<>>) + 1] = 0
        BY <1>1
      <3>2. 1..Len(<<>>) = {}
        BY <1>1
      <3> QED
        BY <3>1, <3>2 DEF Grouped
    <2> QED
      BY <1>1, <1>2, <2>1 DEF Init, Phases
  <1>4. \A C : Queued(C) = 0 /\ Begun(C) = 0
    BY CountOfNone DEF Init, Queued, Begun
  <1>5. StatusIsRight
    BY <1>4 DEF Init, StatusIsRight
  <1> QED
    BY <1>2, <1>3, <1>5 DEF StatusInv

\* Whatever the sizes and the numbers of parameters: GXSTAT says busy while anything is
\* queued, and counts the push, pop and test commands that are under way exactly.
THEOREM GxStatusIsRight == Spec => []StatusIsRight
  <1>1. StatusInv => StatusIsRight
    BY DEF StatusInv
  <1> QED
    BY <1>1, InvInit, InvStep, SpaceInit, SpaceStep, StatusInit, StatusStep, PTL DEF Spec

=============================================================================
