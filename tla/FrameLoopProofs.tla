-------------------------- MODULE FrameLoopProofs --------------------------
(***************************************************************************)
(* When RunSystem fires the events both CPUs have come as far, and no      *)
(* event is late by more than one step of the ARM9, whatever the game      *)
(* executes and whatever it schedules meanwhile.  A call of RunFrame       *)
(* leaves no more samples than its frame and its sleeps have.              *)
(***************************************************************************)
EXTENDS FrameLoop, WellFoundedInduction, TLAPS

\* What a CPU may be past its target.
Past9 == Step9 - 1
Past7 == Max(Costs7) + Min(Costs7) - 1

\* A game that waits for the geometry engine while pieces of DisplayFIFO may be late
\* would set the ARM9 back to them: the pieces are further apart than a step then.
FifoKeepsUp == \A g \in Games : {"fifo", "geometry"} \subseteq g => Step9 <= 2 * Period["fifo"] + 1

\* Where the loop is.
InSlice == {"arm9", "exec9"}
Caught  == {"gpu", "arm7", "exec7", "system"}    \* the ARM9's part is over
Outside == {"frontend", "top", "slice", "sleep", "bottom"}

TypeOK ==
    /\ game \in Games
    /\ arm9 \in Int /\ arm7 \in Int /\ target9 \in Int /\ target7 \in Int /\ goal \in Int
    /\ owed9 \in {0, Min(Costs9)} /\ owed7 \in {0, Min(Costs7)}
    /\ when \in [EventSet -> Int] /\ mask \in SUBSET EventSet /\ todo \in SUBSET EventSet
    /\ pieces \in Nat /\ vcount \in Nat
    /\ halted9 \in {0, 1} /\ halted7 \in {0, 1}
    /\ if9 \in BOOLEAN /\ if7 \in SUBSET Awake7 /\ ie7 \in SUBSET Awake7
    /\ units \in Nat /\ geometry \in Nat
    /\ asleep \in BOOLEAN /\ wakeup \in BOOLEAN
    /\ left \in Nat /\ total \in BOOLEAN /\ samples \in Nat /\ sleeps \in Nat
    /\ pc \in InSlice \cup Caught \cup Outside

\* Who needs what: only a game that has them waits for a DisplayFIFO or the engine.
Needs ==
    /\ geometry > 0 => "geometry" \in game
    /\ "fifo" \in mask => "fifo" \in game
    /\ {"spu", "rtc"} \subseteq mask
    /\ todo \subseteq mask
    /\ pc \in InSlice \cup {"slice", "gpu", "arm7", "exec7", "top", "sleep"} => ~total
    /\ pc \in {"exec9"} => halted9 = 0

\* The events that are never behind.  Pieces of DisplayFIFO can be, when they come
\* closer than a step; not while the ARM9 is halted, which stops at its target.
Timely(e) == e # "fifo" \/ halted9 = 1 \/ Step9 <= 2 * Period["fifo"] + 1

\* What the ARM9 may be past an event.
Slack(e) == IF e = "fifo" /\ halted9 = 1 THEN 2 * Unit - 1 ELSE Past9

\* Between two slices.
Rested ==
    /\ arm9 \in {0, 1} /\ arm7 \in 0..Past7
    /\ \A e \in mask : Timely(e) => when[e] >= 0
    /\ 2 * when["lcd"] >= -Past9

\* The ARM9 runs until its target, which lies no later than the next event.
Running9 ==
    /\ \A e \in mask : target9 <= 2 * when[e]
    /\ target9 <= 2 * (MaxIteration + Margin - 1)
    /\ (\A e \in mask : when[e] >= 0) => target9 >= 0 \/ pc = "exec9"
    /\ arm9 >= 0 /\ (arm9 <= 1 \/ arm9 < target9) /\ arm7 \in 0..Past7
    /\ \A e \in mask : Timely(e) => when[e] >= 0
    /\ 2 * when["lcd"] >= -Past9

\* It has passed the events by a step at most; what the ARM7 schedules by a slice more.
Passed(e) ==
    /\ when[e] >= 0 \/ e # "spi"
    /\ e = "spi" \/ arm9 - 2 * when[e] <= Slack(e)

Ran9 ==
    /\ arm9 >= 0 /\ arm9 <= 2 * (MaxIteration + Margin - 1) + Past9
    /\ \A e \in mask : Timely(e) => Passed(e)
    /\ "lcd" \in mask \/ total => arm9 - 2 * when["lcd"] <= Past9

CaughtUp == goal = arm9 \div 2 /\ arm7 >= 0 /\ arm7 - goal <= Past7

IInv ==
    /\ TypeOK /\ Needs
    /\ pc \in Outside => Rested
    /\ pc \in InSlice => Running9
    /\ pc = "exec9" => arm9 < target9
    /\ pc \in Caught => Ran9
    /\ pc = "gpu" => arm7 \in 0..Past7
    /\ pc \in Caught \ {"gpu"} => CaughtUp
    /\ pc = "exec7" => arm7 < target7 /\ target7 <= goal
    /\ pc = "system" =>
         /\ arm7 >= goal
         /\ \A e \in mask \ todo : Timely(e) => when[e] >= goal
-----------------------------------------------------------------------------
(* Least and greatest elements *)

LEMMA MinOfTwo ==
    ASSUME NEW a \in Int, NEW b \in Int
    PROVE  /\ Min({a, b}) \in {a, b} /\ Min({a, b}) <= a /\ Min({a, b}) <= b
           /\ Max({a, b}) \in {a, b} /\ Max({a, b}) >= a /\ Max({a, b}) >= b
<1>1. \E x \in {a, b} : \A y \in {a, b} : x <= y
  OBVIOUS
<1>2. \E x \in {a, b} : \A y \in {a, b} : x >= y
  OBVIOUS
<1> QED
  BY <1>1, <1>2 DEF Min, Max

LEMMA NaturalMin ==
    ASSUME NEW a \in Nat, NEW b \in Nat PROVE Min({a, b}) \in Nat
<1>1. Min({a, b}) \in {a, b}
  BY MinOfTwo
<1> QED
  BY <1>1

LEMMA NaturalMax ==
    ASSUME NEW a \in Int PROVE Max({0, a}) \in Nat
<1>1. Max({0, a}) \in {0, a} /\ Max({0, a}) >= 0
  BY MinOfTwo
<1> QED
  BY <1>1, SMTT(60)

LEMMA MinOfThree ==
    ASSUME NEW a \in Int, NEW b \in Int, NEW c \in Int
    PROVE  LET m == Min({a, b, c}) IN m \in {a, b, c} /\ m <= a /\ m <= b /\ m <= c
<1>1. \E x \in {a, b, c} : \A y \in {a, b, c} : x <= y
  <2>1. CASE a <= b /\ a <= c
    BY <2>1
  <2>2. CASE b <= a /\ b <= c
    BY <2>2
  <2>3. CASE c <= a /\ c <= b
    BY <2>3
  <2> QED
    BY <2>1, <2>2, <2>3
<1> QED
  BY <1>1 DEF Min

\* A set of integers that is bounded from below has a least element.
LEMMA MinOfBounded ==
    ASSUME NEW S \in SUBSET Int, S # {}, NEW k \in Int, \A x \in S : k <= x
    PROVE  Min(S) \in S /\ \A x \in S : Min(S) <= x
<1> DEFINE T == {x - k : x \in S}
<1>1. T \subseteq Nat /\ T # {}
  <2>1. \A x \in S : x \in Int /\ x - k \in Nat
    OBVIOUS
  <2> QED
    BY <2>1
<1> DEFINE Less == OpToRel(<, Nat)
<1>2. \A x, y \in Nat : <<x, y>> \in Less <=> x < y
  BY DEF OpToRel
<1>3. IsWellFoundedOn(Less, Nat)
  BY NatLessThanWellFounded, Zenon
<1> HIDE DEF Less
<1>4. PICK m \in T : \A y \in T : ~(<<y, m>> \in Less)
  <2> HIDE DEF T
  <2> QED BY <1>1, <1>3, WFMin, Zenon
<1>5. PICK b \in S : b - k = m
  BY <1>4
<1>6. ASSUME NEW x \in S PROVE b <= x
  <2>1. x - k \in T /\ x - k \in Nat /\ m \in Nat
    BY <1>1, <1>4
  <2>2. ~(x - k < m)
    BY <1>2, <1>4, <2>1
  <2> QED
    BY <1>5, <2>1, <2>2
<1>7. \E a \in S : \A x \in S : a <= x
  BY <1>6
<1> QED
  BY <1>7 DEF Min

\* Of the costs of an instruction there is a least and a greatest.
LEMMA CostsHaveLimits ==
    ASSUME NEW S \in {Costs9, Costs7}
    PROVE  /\ Min(S) \in S /\ Max(S) \in S
           /\ \A c \in S : c \in Nat \ {0} /\ Min(S) <= c /\ c <= Max(S)
<1>1. S \subseteq Nat \ {0} /\ \E m \in S : \A c \in S : c <= m
  BY CostsAssumption
<1>2. Min(S) \in S /\ \A c \in S : Min(S) <= c
  BY <1>1, MinOfBounded
<1>3. \E m \in S : \A c \in S : m >= c
  BY <1>1
<1>4. Max(S) \in S /\ \A c \in S : Max(S) >= c
  BY <1>3 DEF Max
<1> QED
  BY <1>1, <1>2, <1>4

\* What a step of either CPU may come to.
LEMMA Limits ==
    /\ Min(Costs9) \in Nat \ {0} /\ Min(Costs9) \in Costs9
    /\ Min(Costs7) \in Nat \ {0} /\ Min(Costs7) \in Costs7
    /\ Past9 \in Nat \ {0} /\ Past7 \in Nat \ {0}
    /\ \A c \in Costs9 : c \in Nat \ {0} /\ c + Min(Costs9) <= Past9 + 1
    /\ \A c \in Costs7 : c \in Nat \ {0} /\ c + Min(Costs7) <= Past7 + 1
    /\ 2 * Unit <= Past9 + 1 /\ Step9 = Past9 + 1
    /\ Unit \in Nat \ {0}
<1>1. Unit \in Nat \ {0}
  BY LoopAssumption
<1> DEFINE M == Max(Costs9)  L == Min(Costs9)
<1>2. /\ M \in Nat \ {0} /\ L \in Nat \ {0} /\ L <= M /\ L \in Costs9
      /\ \A c \in Costs9 : c \in Nat \ {0} /\ c <= M
  BY CostsHaveLimits
<1>3. /\ Max(Costs7) \in Nat \ {0} /\ Min(Costs7) \in Nat \ {0} /\ Min(Costs7) \in Costs7
      /\ \A c \in Costs7 : c \in Nat \ {0} /\ c <= Max(Costs7)
  BY CostsHaveLimits
<1> HIDE DEF M, L
<1>4. /\ Step9 \in {M + L, 2 * Unit} /\ Step9 >= M + L /\ Step9 >= 2 * Unit
  <2>1. M + L \in Int /\ 2 * Unit \in Int /\ Step9 = Max({M + L, 2 * Unit})
    BY <1>1, <1>2 DEF Step9, M, L
  <2> QED
    BY <2>1, MinOfTwo
<1>5. Past9 \in Nat \ {0} /\ 2 * Unit <= Past9 + 1 /\ Step9 = Past9 + 1 /\ M + L <= Past9 + 1
  BY <1>1, <1>2, <1>4 DEF Past9
<1>6. Past7 \in Nat \ {0} /\ \A c \in Costs7 : c + Min(Costs7) <= Past7 + 1
  BY <1>3 DEF Past7
<1> QED
  BY <1>1, <1>2, <1>3, <1>5, <1>6 DEF M, L

\* A slice ends at the next event at the latest, and not before now unless one is late.
LEMMA NextTargetIsNext ==
    ASSUME when \in [EventSet -> Int], mask \in SUBSET EventSet
    PROVE  /\ NextTarget \in Int /\ NextTarget <= MaxIteration + Margin - 1
           /\ \A e \in mask : NextTarget <= when[e]
           /\ (\A e \in mask : when[e] >= 0) => NextTarget >= 0
<1> DEFINE S == {when[e] : e \in mask}
<1>0. MaxIteration \in Nat \ {0} /\ Margin \in Nat \ {0}
  BY LoopAssumption
<1>1. CASE mask = {}
  BY <1>0, <1>1 DEF NextTarget
<1>2. CASE mask # {}
  <2>1. \E k \in Int : \A e \in EventSet : k <= when[e]
    <3> DEFINE neg(e) == IF when[e] < 0 THEN when[e] ELSE 0
               k == neg("lcd") + neg("spu") + neg("rtc") + neg("fifo") + neg("spi") + neg("div")
    <3>1. \A e \in EventSet : neg(e) \in Int /\ neg(e) <= 0 /\ neg(e) <= when[e]
      OBVIOUS
    <3> HIDE DEF neg
    <3>2. k \in Int /\ \A e \in EventSet : k <= when[e]
      BY <3>1 DEF EventSet
    <3> QED
      BY <3>2
  <2>2. S \in SUBSET Int /\ S # {}
    BY <1>2
  <2>3. NextEvent \in S /\ \A x \in S : NextEvent <= x
    <3>1. PICK k \in Int : \A e \in EventSet : k <= when[e]
      BY <2>1
    <3>2. \A x \in S : k <= x
      BY <3>1
    <3>3. NextEvent = Min(S)
      BY DEF NextEvent
    <3> HIDE DEF S
    <3> QED
      BY <2>2, <3>2, <3>3, MinOfBounded
  <2>4. NextEvent \in Int /\ (\E e \in mask : NextEvent = when[e]) /\ \A e \in mask : NextEvent <= when[e]
    BY <2>2, <2>3
  <2> QED
    BY <1>0, <1>2, <2>4 DEF NextTarget
<1> QED
  BY <1>1, <1>2

\* The cycles that periodic events and one-shots take.
LEMMA Clocks ==
    /\ Line \in Nat \ {0} /\ Past9 <= 2 * Line
    /\ Period["spu"] \in Nat \ {0} /\ Past9 <= 2 * Period["spu"]
    /\ Period["rtc"] \in Nat \ {0} /\ Past9 <= 2 * Period["rtc"]
    /\ Period["fifo"] \in Nat \ {0} /\ Unit <= Period["fifo"]
    /\ \A e \in Optional : Delay[e] \in Nat \ {0}
    /\ Step9 = Past9 + 1
<1> QED
  BY Limits, LoopAssumption, PeriodsAssumption DEF Past9, Optional
-----------------------------------------------------------------------------
(* The invariant *)

LEMMA InitIInv == Init => IInv
<1> SUFFICES ASSUME Init PROVE IInv
  OBVIOUS
<1>1. TypeOK
  <2>1. when \in [EventSet -> Int]
    BY Clocks DEF Init, EventSet
  <2>2. mask \in SUBSET EventSet /\ todo \in SUBSET EventSet
    BY DEF Init, EventSet
  <2>3. if7 \in SUBSET Awake7 /\ ie7 \in SUBSET Awake7
    BY DEF Init
  <2>4. arm9 \in Int /\ arm7 \in Int /\ target9 \in Int /\ target7 \in Int /\ goal \in Int
    BY DEF Init
  <2>5. pieces \in Nat /\ vcount \in Nat /\ units \in Nat /\ geometry \in Nat
    BY DEF Init
  <2>6. left \in Nat /\ samples \in Nat /\ sleeps \in Nat
    BY DEF Init
  <2>7. if9 \in BOOLEAN /\ asleep \in BOOLEAN /\ wakeup \in BOOLEAN /\ total \in BOOLEAN
    BY DEF Init
  <2>8. halted9 \in {0, 1} /\ halted7 \in {0, 1} /\ pc \in Outside
    BY DEF Init, Outside
  <2> QED
    BY <2>1, <2>2, <2>3, <2>4, <2>5, <2>6, <2>7, <2>8 DEF Init, TypeOK
<1>2. Rested
  BY Clocks, Limits DEF Init, Rested, EventSet
<1>3. Needs
  BY DEF Init, Needs, InSlice
<1> QED
  BY <1>1, <1>2, <1>3 DEF IInv, Init, InSlice, Caught
-----------------------------------------------------------------------------
(* Types *)

LEMMA SetIRQ7Type ==
    ASSUME TypeOK, NEW i \in Awake7, SetIRQ7(i)
    PROVE  if7' \in SUBSET Awake7 /\ asleep' \in BOOLEAN /\ wakeup' \in BOOLEAN
BY DEF TypeOK, SetIRQ7

LEMMA TypeOutside ==
    TypeOK /\ (CallRunFrame \/ OpenLid \/ StartFrame \/ FallAsleep \/ BeginSlice \/ SleepStep
               \/ EndSleep \/ Return) => TypeOK'
<1> SUFFICES ASSUME TypeOK, CallRunFrame \/ OpenLid \/ StartFrame \/ FallAsleep \/ BeginSlice
                            \/ SleepStep \/ EndSleep \/ Return
             PROVE  TypeOK'
  OBVIOUS
<1> USE DEF TypeOK, times, sched, cpus, stops, call, InSlice, Caught, Outside
<1>1. CASE CallRunFrame
  BY <1>1 DEF CallRunFrame
<1>2. CASE OpenLid
  BY <1>2, SetIRQ7Type DEF OpenLid, Awake7, Wakers
<1>3. CASE StartFrame
  <2>1. arm7 + Delay["fifo"] \in Int /\ Line \in Int /\ Pieces \in Nat
    BY Clocks, LoopAssumption DEF Optional
  <2>2. CASE wakeup
    BY <1>3, <2>2 DEF StartFrame
  <2>3. CASE ~wakeup
    <3>1. when' \in [EventSet -> Int]
      BY <1>3, <2>1, <2>3 DEF StartFrame, EventSet
    <3>2. mask' \in SUBSET EventSet
      BY <1>3, <2>3 DEF StartFrame, EventSet
    <3>3. pieces' \in Nat /\ vcount' \in Nat /\ total' = FALSE /\ wakeup' = FALSE /\ pc' = "slice"
      BY <1>3, <2>1, <2>3 DEF StartFrame
    <3> QED
      BY <1>3, <3>1, <3>2, <3>3 DEF StartFrame
  <2> QED
    BY <2>2, <2>3
<1>4. CASE FallAsleep
  BY <1>4, LoopAssumption DEF FallAsleep
<1>5. CASE BeginSlice
  BY <1>5, NextTargetIsNext DEF BeginSlice
<1>6. CASE SleepStep
  <2> DEFINE step == Min({when["spu"], when["rtc"], left})
  <2>1. step \in Int /\ step <= left
    <3>1. when["spu"] \in Int /\ when["rtc"] \in Int /\ left \in Int
      BY DEF EventSet
    <3> QED
      BY <3>1, MinOfThree
  <2> HIDE DEF step
  <2>2. when' \in [EventSet -> Int]
    BY <1>6, <2>1, Clocks DEF SleepStep, EventSet, step
  <2>3. samples' \in Nat
    <3>1. samples + 1 \in Nat /\ Room \in Nat
      BY LoopAssumption
    <3>2. Min({samples + 1, Room}) \in Nat
      BY <3>1, NaturalMin
    <3> QED
      BY <1>6, <3>2 DEF SleepStep
  <2>4. left' \in Nat /\ arm9' = 0 /\ arm7' = 0
    BY <1>6, <2>1 DEF SleepStep, step
  <2>5. if7' \in SUBSET Awake7 /\ asleep' \in BOOLEAN /\ wakeup' \in BOOLEAN
    BY <1>6, SetIRQ7Type DEF SleepStep, Awake7, Wakers
  <2>6. UNCHANGED <<game, target9, target7, goal, owed9, owed7, mask, todo, pieces, vcount,
                    halted9, halted7, if9, ie7, units, geometry, total, sleeps, pc>>
    BY <1>6 DEF SleepStep
  <2> QED
    BY <2>2, <2>3, <2>4, <2>5, <2>6
<1>7. CASE EndSleep \/ Return
  <2>1. total' \in BOOLEAN
    BY <1>7 DEF EndSleep, Return
  <2> QED
    BY <1>7, <2>1 DEF EndSleep, Return
<1> QED
  BY <1>1, <1>2, <1>3, <1>4, <1>5, <1>6, <1>7

LEMMA Spend9Type ==
    ASSUME TypeOK, NEW c \in Costs9, NEW t \in Int, Spend9(c, t)
    PROVE  /\ arm9' \in Int /\ arm9' > arm9 /\ arm9' <= arm9 + Past9 + 1
           /\ owed9' = 0 /\ owed9' \in {0, Min(Costs9)}
           /\ pc' = IF arm9' >= t THEN "gpu" ELSE "exec9"
BY Limits DEF Spend9, TypeOK

LEMMA Spend7Type ==
    ASSUME TypeOK, NEW c \in Costs7, NEW t \in Int, Spend7(c, t)
    PROVE  /\ arm7' \in Int /\ arm7' > arm7 /\ arm7' <= arm7 + Past7 + 1
           /\ owed7' = 0 /\ owed7' \in {0, Min(Costs7)}
           /\ pc' = IF arm7' >= t THEN "arm7" ELSE "exec7"
BY Limits DEF Spend7, TypeOK

LEMMA TypeARM9 == TypeOK /\ (ARM9 \/ RunGeometry) => TypeOK'
<1> SUFFICES ASSUME TypeOK, ARM9 \/ RunGeometry PROVE TypeOK'
  OBVIOUS
<1> USE DEF TypeOK, times, sched, cpus, stops, call, InSlice, Caught, Outside
<1>1. CASE WaitForGeometry
  <2>1. target9 \in Int /\ arm9 + 2 * geometry \in Int
    OBVIOUS
  <2>2. arm9' \in Int
    BY <1>1, <2>1, MinOfTwo DEF WaitForGeometry
  <2> QED
    BY <1>1, <2>2 DEF WaitForGeometry
<1>2. CASE RunDMA
  BY <1>2, Limits DEF RunDMA
<1>3. CASE Enter9
  BY <1>3 DEF Enter9
<1>4. CASE Work9
  <2>1. PICK c \in Costs9 : Spend9(c, target9)
    BY <1>4 DEF Work9
  <2>2. if9' \in BOOLEAN
    BY <1>4 DEF Work9
  <2> QED
    BY <1>4, <2>1, <2>2, Spend9Type DEF Work9
<1>5. CASE StartDiv
  <2> DEFINE due == arm9 \div 2 + Delay["div"]
  <2>1. due \in Int /\ 2 * due \in Int
    BY Clocks DEF Optional
  <2>2. target9' = Min({target9, 2 * due}) /\ when' = [when EXCEPT !["div"] = due]
    BY <1>5 DEF StartDiv
  <2>3. target9' \in Int
    <3> HIDE DEF due
    <3> QED
      BY <2>1, <2>2, MinOfTwo
  <2>4. PICK c \in Costs9 : Spend9(c, target9')
    BY <1>5 DEF StartDiv
  <2>5. when' \in [EventSet -> Int] /\ mask' \in SUBSET EventSet
    BY <1>5, <2>1, <2>2 DEF StartDiv, EventSet
  <2> QED
    BY <1>5, <2>3, <2>4, <2>5, Spend9Type DEF StartDiv
<1>6. CASE Halt9
  BY <1>6 DEF Halt9, Stop9
<1>7. CASE StartDMA
  BY <1>7, LoopAssumption DEF StartDMA, Stop9
<1>8. CASE FillGeometry
  BY <1>8, Limits, LoopAssumption, Spend9Type DEF FillGeometry
<1>9. CASE Call7
  BY <1>9, Limits, SetIRQ7Type, Spend9Type DEF Call7, Awake7
<1>10. CASE RunGeometry
  <2>1. goal' \in Int
    BY <1>10 DEF RunGeometry
  <2>2. geometry - goal' \in Int
    BY <2>1
  <2>3. geometry' \in Nat
    BY <1>10, <2>2, NaturalMax DEF RunGeometry
  <2> QED
    BY <1>10, <2>1, <2>3 DEF RunGeometry
<1> QED
  BY <1>1, <1>2, <1>3, <1>4, <1>5, <1>6, <1>7, <1>8, <1>9, <1>10 DEF ARM9

LEMMA TypeARM7 == TypeOK /\ ARM7 => TypeOK'
<1> SUFFICES ASSUME TypeOK, ARM7 PROVE TypeOK'
  OBVIOUS
<1> USE DEF TypeOK, times, sched, cpus, stops, call, InSlice, Caught, Outside
<1>1. CASE Enter7
  BY <1>1 DEF Enter7
<1>2. CASE Work7
  <2>1. PICK c \in Costs7 : Spend7(c, target7)
    BY <1>2 DEF Work7
  <2>2. if7' \in SUBSET Awake7 /\ ie7' \in SUBSET Awake7
    BY <1>2 DEF Work7, Awake7
  <2> QED
    BY <1>2, <2>1, <2>2, Spend7Type DEF Work7
<1>3. CASE StartSPI
  <2> DEFINE due == arm7 + Delay["spi"]
  <2>1. due \in Int
    BY Clocks DEF Optional
  <2>2. target7' \in {target7, Min({target7, due})}
    BY <1>3 DEF StartSPI
  <2>3. target7' \in Int
    <3> HIDE DEF due
    <3> QED
      BY <2>1, <2>2, MinOfTwo
  <2>4. when' \in [EventSet -> Int] /\ mask' \in SUBSET EventSet
    BY <1>3, <2>1 DEF StartSPI, EventSet
  <2> QED
    BY <1>3, <2>3, <2>4, Limits, Spend7Type DEF StartSPI
<1>4. CASE Halt7 \/ EnterSleepMode
  BY <1>4 DEF Halt7, EnterSleepMode, Stop7
<1>5. CASE Call9
  BY <1>5, Limits, Spend7Type DEF Call9
<1> QED
  BY <1>1, <1>2, <1>3, <1>4, <1>5 DEF ARM7

LEMMA TypeSystem == TypeOK /\ RunSystem => TypeOK'
<1> SUFFICES ASSUME TypeOK, RunSystem PROVE TypeOK'
  OBVIOUS
<1> USE DEF TypeOK, times, sched, cpus, stops, call, InSlice, Caught, Outside, Firing
<1>1. CASE FireLCD
  <2>1. arm7 + Delay["fifo"] \in Int /\ Line \in Int /\ Pieces \in Nat /\ NumLines \in Nat
    BY Clocks, LoopAssumption DEF Optional
  <2>2. when' \in [EventSet -> Int]
    BY <1>1, <2>1 DEF FireLCD, EventSet
  <2>3. mask' \in SUBSET EventSet
    BY <1>1 DEF FireLCD, EventSet
  <2>4. vcount' \in Nat /\ pieces' \in Nat
    BY <1>1, <2>1 DEF FireLCD
  <2>5. if9' \in BOOLEAN /\ total' \in BOOLEAN
    BY <1>1 DEF FireLCD, NoIRQ
  <2>6. if7' \in SUBSET Awake7 /\ asleep' \in BOOLEAN /\ wakeup' \in BOOLEAN
    BY <1>1, SetIRQ7Type DEF FireLCD, NoIRQ, Awake7
  <2> QED
    BY <1>1, <2>2, <2>3, <2>4, <2>5, <2>6 DEF FireLCD
<1>2. CASE FireSPU
  <2>1. samples + 1 \in Nat /\ Room \in Nat
    BY LoopAssumption
  <2>2. samples' \in Nat
    BY <1>2, <2>1, NaturalMin DEF FireSPU
  <2>3. when' \in [EventSet -> Int]
    BY <1>2, Clocks DEF FireSPU, Again, EventSet
  <2> QED
    BY <1>2, <2>2, <2>3 DEF FireSPU, NoIRQ
<1>3. CASE FireRTC
  <2>1. when' \in [EventSet -> Int]
    BY <1>3, Clocks DEF FireRTC, Again, EventSet
  <2>2. if7' \in SUBSET Awake7 /\ asleep' \in BOOLEAN /\ wakeup' \in BOOLEAN
    BY <1>3, SetIRQ7Type DEF FireRTC, Awake7, Wakers
  <2> QED
    BY <1>3, <2>1, <2>2 DEF FireRTC
<1>4. CASE FireFIFO
  <2>1. when' \in [EventSet -> Int]
    BY <1>4, Clocks DEF FireFIFO, Again, EventSet
  <2>3. mask' \in SUBSET EventSet
    BY <1>4 DEF FireFIFO
  <2>2. units' \in Nat /\ pieces' \in Nat
    BY <1>4, LoopAssumption DEF FireFIFO
  <2> QED
    BY <1>4, <2>1, <2>2, <2>3 DEF FireFIFO, NoIRQ
<1>5. ASSUME NEW e \in {"spi", "div"}, FireOnce(e) PROVE TypeOK'
  <2>1. if7' \in SUBSET Awake7 /\ asleep' \in BOOLEAN /\ wakeup' \in BOOLEAN
    BY <1>5, SetIRQ7Type DEF FireOnce, Awake7
  <2> QED
    BY <1>5, <2>1 DEF FireOnce
<1>6. CASE EndSlice
  <2>1. when' \in [EventSet -> Int]
    BY <1>6 DEF EndSlice
  <2> QED
    BY <1>6, <2>1 DEF EndSlice
<1> QED
  BY <1>1, <1>2, <1>3, <1>4, <1>5, <1>6 DEF RunSystem

LEMMA TypeStep == TypeOK /\ [Next]_vars => TypeOK'
<1>1. TypeOK /\ UNCHANGED vars => TypeOK'
  BY DEF TypeOK, vars, times, sched, cpus, stops, call
<1> QED
  BY <1>1, TypeOutside, TypeARM9, TypeARM7, TypeSystem DEF Next, Loop
-----------------------------------------------------------------------------
(* Time *)

LEMMA StepOutside ==
    IInv /\ (CallRunFrame \/ OpenLid \/ StartFrame \/ FallAsleep \/ BeginSlice \/ SleepStep
             \/ EndSleep \/ Return) => IInv'
<1> SUFFICES ASSUME IInv, CallRunFrame \/ OpenLid \/ StartFrame \/ FallAsleep \/ BeginSlice
                          \/ SleepStep \/ EndSleep \/ Return
             PROVE  IInv'
  OBVIOUS
<1>0. TypeOK'
  BY TypeOutside DEF IInv
<1> USE <1>0 DEF IInv, TypeOK, Needs, InSlice, Caught, Outside, times, sched, cpus, stops, call
<1>1. CASE CallRunFrame
  BY <1>1 DEF CallRunFrame, Rested, Timely
<1>2. CASE OpenLid
  BY <1>2 DEF OpenLid, SetIRQ7, Rested, Timely
<1>3. CASE StartFrame
  <2>1. CASE wakeup
    BY <1>3, <2>1 DEF StartFrame, Rested, Timely
  <2>2. CASE ~wakeup
    <3>1. /\ when' = [when EXCEPT !["lcd"] = @ + Line,
                                  !["fifo"] = IF "fifo" \in game THEN arm7 + Delay["fifo"] ELSE @]
          /\ mask' = mask \cup {"lcd"} \cup (game \cap {"fifo"})
          /\ UNCHANGED <<game, arm9, arm7, halted9, todo, geometry>>
          /\ pc' = "slice" /\ total' = FALSE
      BY <1>3, <2>2 DEF StartFrame
    <3>2. arm7 + Delay["fifo"] \in Int /\ arm7 + Delay["fifo"] >= 0
      BY <1>3, Clocks, Limits DEF StartFrame, Rested, Optional
    <3>3. when'["lcd"] >= 0
      BY <1>3, <3>1, Clocks, Limits DEF StartFrame, Rested, EventSet
    <3>4. \A e \in mask' : Timely(e) => when'[e] >= 0
      BY <1>3, <3>1, <3>2, <3>3 DEF StartFrame, Rested, Timely, EventSet
    <3>5. Rested'
      BY <1>3, <3>1, <3>3, <3>4, Limits DEF StartFrame, Rested, Timely
    <3> QED
      BY <3>1, <3>5
  <2> QED
    BY <2>1, <2>2
<1>4. CASE FallAsleep
  BY <1>4 DEF FallAsleep, Rested, Timely
<1>5. CASE BeginSlice
  <2>1. Rested /\ target9' = 2 * NextTarget /\ UNCHANGED <<arm9, arm7, halted9, when, mask>>
    BY <1>5 DEF BeginSlice, Rested
  <2>2. Running9'
    BY <2>1, NextTargetIsNext, LoopAssumption DEF Rested, Running9, Timely
  <2> QED
    BY <1>5, <2>2 DEF BeginSlice
<1>6. CASE SleepStep
  <2> DEFINE step == Min({when["spu"], when["rtc"], left})
  <2>1. step \in Int /\ step >= 0 /\ step <= when["spu"] /\ step <= when["rtc"]
    <3>1. /\ when["spu"] \in Int /\ when["rtc"] \in Int /\ left \in Int
          /\ when["spu"] >= 0 /\ when["rtc"] >= 0 /\ left >= 0
      BY <1>6 DEF EventSet, SleepStep, Rested, Timely
    <3>2. /\ step \in {when["spu"], when["rtc"], left}
          /\ step <= when["spu"] /\ step <= when["rtc"]
      BY <3>1, MinOfThree
    <3> HIDE DEF step
    <3> QED
      BY <3>1, <3>2
  <2> HIDE DEF step
  <2>2. \A e \in EventSet : when'[e] \in {when[e] + Period[e] - step, when[e] - step, when[e]}
                            /\ (when[e] >= 0 => when'[e] >= 0)
                            /\ (e = "lcd" => when'[e] = when[e] \/ when'[e] >= 0)
    <3>1. /\ when["spu"] <= step => when["spu"] = step
          /\ when["rtc"] <= step => when["rtc"] = step
      BY <2>1 DEF EventSet
    <3> QED
      BY <1>6, <2>1, <3>1, Clocks DEF SleepStep, step, EventSet
  <2>3. /\ UNCHANGED <<game, halted9, mask, todo, geometry, total, pc>> /\ arm9' = 0 /\ arm7' = 0
        /\ pc = "sleep"
    BY <1>6 DEF SleepStep
  <2>4. Rested'
    BY <2>2, <2>3, Limits DEF Rested, Timely, EventSet
  <2> QED
    BY <2>3, <2>4
<1>7. CASE EndSleep \/ Return
  BY <1>7 DEF EndSleep, Return, Rested, Timely
<1> QED
  BY <1>1, <1>2, <1>3, <1>4, <1>5, <1>6, <1>7

LEMMA StepPast ==
    ASSUME NEW a \in Int, NEW b \in Int, NEW d \in Int, NEW p \in Int,
           a < 2 * d, b <= a + p + 1
    PROVE  b - 2 * d <= p
OBVIOUS

\* The ARM9 has come to the end of its part, or goes on.  StartDiv adds an event, and
\* cuts the target so that the same holds of it.
LEMMA PassedByAStep ==
    ASSUME IInv, pc = "exec9", TypeOK', Needs', halted9' = 0,
           UNCHANGED <<arm7, total>>,
           target9' <= target9, arm9' >= arm9,
           arm9' <= arm9 + Past9 + 1,
           pc' = IF arm9' >= target9' THEN "gpu" ELSE "exec9",
           \A e \in EventSet \ {"div"} : when'[e] = when[e] /\ (e \in mask' <=> e \in mask),
           "div" \in mask' => \/ when'["div"] = when["div"] /\ "div" \in mask
                              \/ target9' <= 2 * when'["div"] /\ when'["div"] >= 0
                                 /\ arm9' - 2 * when'["div"] <= Past9
    PROVE  IInv'
<1> USE DEF IInv, TypeOK
<1>1. /\ arm9 >= 0 /\ arm9 < target9 /\ arm7 \in 0..Past7 /\ halted9 = 0
      /\ target9 <= 2 * (MaxIteration + Margin - 1)
      /\ \A e \in mask : target9 <= 2 * when[e] /\ (Timely(e) => when[e] >= 0)
      /\ 2 * when["lcd"] >= -Past9 /\ ~total
  BY DEF Running9, InSlice, Needs
<1>2. arm9' >= 0 /\ arm9' < target9 + Past9 + 1 /\ Past9 \in Nat \ {0}
  BY <1>1, Limits
<1>3. when'["lcd"] = when["lcd"] /\ ("lcd" \in mask' <=> "lcd" \in mask)
  BY DEF EventSet
<1>4. \A e \in mask' : /\ target9' <= 2 * when'[e]
                       /\ Timely(e)' => when'[e] >= 0
                       /\ arm9' - 2 * when'[e] <= Past9
  <2> SUFFICES ASSUME NEW e \in mask'
               PROVE  /\ target9' <= 2 * when'[e]
                      /\ Timely(e)' => when'[e] >= 0
                      /\ arm9' - 2 * when'[e] <= Past9
    OBVIOUS
  <2>1. CASE e \in mask /\ when'[e] = when[e]
    BY <1>1, <1>2, <2>1 DEF Timely
  <2>2. CASE e = "div"
    BY <1>1, <1>2, <2>1, <2>2
  <2>3. e \in EventSet
    OBVIOUS
  <2> QED
    BY <2>1, <2>2, <2>3
<1>5. CASE arm9' >= target9'
  <2>1. MaxIteration \in Nat /\ Margin \in Nat
    BY LoopAssumption
  <2>2. Ran9'
    BY <1>1, <1>2, <1>3, <1>4, <2>1 DEF Ran9, Passed, Slack
  <2> QED
    BY <1>1, <1>5, <2>2 DEF Caught, Outside, InSlice
<1>6. CASE arm9' < target9'
  <2>1. Running9' /\ pc' = "exec9"
    BY <1>1, <1>2, <1>3, <1>4, <1>6, LoopAssumption DEF Running9
  <2> QED
    BY <1>6, <2>1 DEF Caught, Outside, InSlice
<1> QED
  BY <1>5, <1>6

LEMMA StepARM9 ==
    ASSUME FifoKeepsUp PROVE IInv /\ (ARM9 \/ RunGeometry) => IInv'
<1> SUFFICES ASSUME IInv, ARM9 \/ RunGeometry PROVE IInv'
  OBVIOUS
<1>0. TypeOK /\ TypeOK' /\ Needs
  BY TypeARM9 DEF IInv
<1> USE <1>0 DEF times, sched, cpus, stops, call
<1>1. CASE WaitForGeometry
  <2>1. /\ pc = "arm9" /\ pc' = "gpu" /\ geometry > 0
        /\ arm9' = Min({target9, arm9 + 2 * geometry})
        /\ UNCHANGED <<game, arm7, target9, when, mask, todo, halted9, geometry, total>>
    BY <1>1 DEF WaitForGeometry
  <2>2. Running9 /\ ~total
    BY <2>1 DEF IInv, InSlice, Needs
  <2>3. "fifo" \in mask => Step9 <= 2 * Period["fifo"] + 1
    BY <2>1, Clocks DEF Needs, FifoKeepsUp, TypeOK
  <2>4. target9 >= 0
    BY <2>1, <2>2, <2>3 DEF Running9, Timely
  <2>5. arm9' >= 0 /\ arm9' <= target9
    <3>1. /\ target9 \in Int /\ arm9 + 2 * geometry \in Int
          /\ arm9 + 2 * geometry >= 0
      BY <2>2 DEF Running9, TypeOK
    <3> QED
      BY <2>1, <2>4, <3>1, MinOfTwo
  <2>6. Ran9'
    <3>1. \A e \in mask : arm9' - 2 * when[e] <= 0
      BY <2>2, <2>5 DEF Running9, TypeOK
    <3>2. arm9' <= 2 * (MaxIteration + Margin - 1) + Past9
      BY <2>2, <2>5, Limits, LoopAssumption DEF Running9, TypeOK
    <3> QED
      <4>1. \A e \in mask : Slack(e)' >= 0
        BY <2>1, Limits DEF Slack, TypeOK
      <4>2. \A e \in mask : Timely(e) => Passed(e)'
        <5> SUFFICES ASSUME NEW e \in mask, Timely(e) PROVE Passed(e)'
          OBVIOUS
        <5>1. when'[e] = when[e] /\ when[e] >= 0
          BY <2>1, <2>2 DEF Running9
        <5>2. arm9' - 2 * when[e] <= Slack(e)'
          <6>1. Slack(e)' \in Int /\ Slack(e)' >= 0
            BY <4>1, Limits DEF Slack
          <6>2. arm9' - 2 * when[e] \in Int /\ arm9' - 2 * when[e] <= 0
            BY <3>1 DEF TypeOK
          <6> QED
            BY <6>1, <6>2
        <5> QED
          BY <5>1, <5>2 DEF Passed
      <4>3. "lcd" \in mask \/ total => arm9' - 2 * when["lcd"] <= Past9
        BY <2>2, <3>1, Limits DEF TypeOK
      <4>4. \A e : Timely(e)' <=> Timely(e)
        BY <2>1 DEF Timely
      <4> QED
        BY <2>1, <2>5, <3>2, <4>2, <4>3, <4>4 DEF Ran9
  <2> QED
    BY <2>1, <2>2, <2>6 DEF IInv, Running9, Needs, InSlice, Caught, Outside
<1>2. CASE RunDMA
  <2>1. /\ pc = "arm9" /\ pc' \in {"arm9", "gpu"}
        /\ \/ arm9 >= target9 /\ arm9' = arm9 /\ pc' = "gpu"
           \/ arm9 < target9 /\ arm9' = arm9 + 2 * Unit /\ (pc' = "arm9" => arm9' < target9)
        /\ UNCHANGED <<game, arm7, target9, when, mask, todo, halted9, geometry, total>>
    <3>1. CASE arm9 >= target9
      BY <1>2, <3>1 DEF RunDMA
    <3>2. CASE ~(arm9 >= target9)
      <4>1. arm9 < target9
        BY <3>2 DEF TypeOK
      <4>2. arm9' = arm9 + 2 * Unit /\ pc' = IF units' = 0 \/ arm9' >= target9 THEN "gpu" ELSE "arm9"
        BY <1>2, <3>2 DEF RunDMA
      <4>3. pc' = "arm9" => arm9' < target9
        BY <4>2 DEF TypeOK
      <4> QED
        BY <1>2, <4>1, <4>2, <4>3 DEF RunDMA
    <3> QED
      BY <3>1, <3>2
  <2>2. Running9 /\ ~total
    BY <2>1 DEF IInv, InSlice, Needs
  <2>3. CASE pc' = "arm9"
    <3>1. Running9'
      BY <2>1, <2>2, <2>3, Limits DEF Running9, Timely, TypeOK
    <3> QED
      BY <2>1, <2>3, <3>1 DEF IInv, Needs, InSlice, Caught, Outside
  <2>4. CASE pc' = "gpu"
    <3>1. Ran9'
      BY <2>1, <2>2, <2>4, Limits, LoopAssumption
         DEF Running9, Ran9, Passed, Slack, Timely, TypeOK
    <3> QED
      BY <2>1, <2>2, <2>4, <3>1 DEF IInv, Running9, Needs, InSlice, Caught, Outside
  <2> QED
    BY <2>1, <2>3, <2>4
<1>3. CASE Enter9
  <2>1. /\ pc = "arm9"
        /\ \/ halted9 = 1 /\ arm9' = target9 /\ pc' = "gpu" /\ halted9' = halted9
           \/ halted9' = 0 /\ arm9' = arm9 /\ pc' = IF arm9 >= target9 THEN "gpu" ELSE "exec9"
        /\ UNCHANGED <<game, arm7, target9, when, mask, todo, geometry, total>>
    BY <1>3 DEF Enter9
  <2>2. Running9 /\ ~total
    BY <2>1 DEF IInv, InSlice, Needs
  <2>3. CASE pc' = "exec9"
    <3>1. Running9' /\ arm9' < target9'
      BY <2>1, <2>2, <2>3 DEF Running9, Timely, TypeOK
    <3> QED
      BY <2>1, <2>3, <3>1 DEF IInv, Needs, InSlice, Caught, Outside
  <2>4. CASE pc' = "gpu"
    <3>1. halted9 = 1 => target9 >= 0
      BY <2>1, <2>2 DEF Running9, Timely
    <3>2. Ran9'
      BY <2>1, <2>2, <2>4, <3>1, Limits, LoopAssumption
         DEF Running9, Ran9, Passed, Slack, Timely, TypeOK
    <3> QED
      BY <2>1, <2>2, <2>4, <3>2 DEF IInv, Running9, Needs, InSlice, Caught, Outside
  <2> QED
    BY <2>1, <2>3, <2>4
<1>4. CASE Work9 \/ Call7 \/ FillGeometry
  <2>1. PICK c \in Costs9 : Spend9(c, target9)
    BY <1>4, Limits DEF Work9, Call7, FillGeometry
  <2>2. /\ pc = "exec9" /\ UNCHANGED <<game, arm7, target9, when, mask, todo, halted9, total>>
        /\ geometry' > 0 => "geometry" \in game
    BY <1>4 DEF Work9, Call7, FillGeometry, Exec9, Needs
  <2>3. Needs' /\ halted9 = 0
    BY <2>1, <2>2, Spend9Type DEF Needs, InSlice, TypeOK
  <2>4. arm9' >= arm9
    BY <2>1, Spend9Type DEF TypeOK
  <2> QED
    BY <2>1, <2>2, <2>3, <2>4, Spend9Type, PassedByAStep DEF TypeOK
<1>5. CASE StartDiv
  <2> DEFINE due == arm9 \div 2 + Delay["div"]
  <2>1. /\ pc = "exec9" /\ when' = [when EXCEPT !["div"] = due]
        /\ target9' = Min({target9, 2 * due}) /\ mask' = mask \cup {"div"}
        /\ UNCHANGED <<game, arm7, todo, halted9, geometry, total>>
    BY <1>5 DEF StartDiv, Exec9
  <2>2. PICK c \in Costs9 : Spend9(c, target9')
    BY <1>5 DEF StartDiv
  <2>3. Running9
    BY <2>1 DEF IInv, InSlice
  <2>4. due \in Int /\ due >= 0 /\ arm9 < 2 * due
    BY <2>3, Clocks DEF Running9, TypeOK, Optional
  <2> HIDE DEF due
  <2>5. target9' \in Int /\ target9' <= target9 /\ target9' <= 2 * due
    <3>1. target9 \in Int /\ 2 * due \in Int
      BY <2>4 DEF TypeOK
    <3>2. /\ Min({target9, 2 * due}) \in {target9, 2 * due}
          /\ Min({target9, 2 * due}) <= target9 /\ Min({target9, 2 * due}) <= 2 * due
      BY <3>1, MinOfTwo
    <3> QED
      BY <2>1, <3>1, <3>2
  <2>6. /\ arm9' >= arm9 /\ arm9' <= arm9 + Past9 + 1
        /\ pc' = IF arm9' >= target9' THEN "gpu" ELSE "exec9"
    BY <2>2, <2>5, Spend9Type DEF TypeOK
  <2>7. Needs' /\ halted9' = 0
    BY <2>1, <2>6 DEF Needs, InSlice
  <2>8. arm9' - 2 * when'["div"] <= Past9 /\ target9' <= 2 * when'["div"] /\ when'["div"] >= 0
    <3>1. when'["div"] = due
      BY <2>1 DEF TypeOK, EventSet
    <3>2. arm9 \in Int /\ arm9' \in Int /\ Past9 \in Int
      BY Limits DEF TypeOK
    <3>3. arm9' - 2 * due <= Past9
      <4>1. due \in Int /\ arm9 < 2 * due /\ arm9' <= arm9 + Past9 + 1
        BY <2>4, <2>6
      <4> QED
        BY <3>2, <4>1, StepPast
    <3> QED
      BY <2>4, <2>5, <3>1, <3>3
  <2>9. \A e \in EventSet \ {"div"} : when'[e] = when[e] /\ (e \in mask' <=> e \in mask)
    BY <2>1 DEF TypeOK
  <2> QED
    BY <2>1, <2>5, <2>6, <2>7, <2>8, <2>9, PassedByAStep
<1>6. CASE Halt9 \/ StartDMA
  <2>1. /\ pc = "exec9" /\ pc' = "gpu"
        /\ \/ halted9' = 1 /\ arm9' = target9
           \/ halted9' = halted9 /\ arm9' = arm9
        /\ UNCHANGED <<game, arm7, target9, when, mask, todo, geometry, total>>
    BY <1>6 DEF Halt9, StartDMA, Exec9, Stop9
  <2>2. Running9 /\ ~total /\ arm9 < target9
    BY <2>1 DEF IInv, InSlice, Needs
  <2>3. Ran9'
    <3>1. arm9' >= 0 /\ arm9' <= target9
      BY <2>1, <2>2 DEF Running9, TypeOK
    <3>2. \A e \in mask : arm9' - 2 * when[e] <= 0 /\ when[e] >= 0
      BY <2>2, <3>1 DEF Running9, TypeOK
    <3>3. arm9' <= 2 * (MaxIteration + Margin - 1) + Past9
      BY <2>2, <3>1, Limits, LoopAssumption DEF Running9, TypeOK
    <3> QED
      BY <2>1, <2>2, <3>1, <3>2, <3>3, Limits DEF Ran9, Passed, Slack, TypeOK
  <2> QED
    BY <2>1, <2>2, <2>3 DEF IInv, Running9, Needs, InSlice, Caught, Outside
<1>7. CASE RunGeometry
  <2>1. /\ pc = "gpu" /\ pc' = "arm7" /\ goal' = arm9 \div 2
        /\ geometry' = Max({0, geometry - goal'})
        /\ UNCHANGED <<game, arm9, arm7, when, mask, todo, halted9, total>>
    BY <1>7 DEF RunGeometry
  <2>2. Ran9 /\ arm7 \in 0..Past7
    BY <2>1 DEF IInv, Caught
  <2>3. CaughtUp'
    BY <2>1, <2>2, Limits DEF CaughtUp, Ran9, TypeOK
  <2>4. Ran9'
    BY <2>1, <2>2 DEF Ran9, Passed, Slack, Timely
  <2>5. geometry' > 0 => geometry > 0
    <3> DEFINE rest == geometry - goal'
    <3>1. goal' \in Int /\ goal' >= 0 /\ geometry \in Nat
      BY <2>1, <2>2 DEF Ran9, TypeOK
    <3>2. rest \in Int /\ rest <= geometry /\ geometry' = Max({0, rest})
      BY <2>1, <3>1
    <3> HIDE DEF rest
    <3>3. geometry' \in {0, rest}
      BY <3>2, MinOfTwo
    <3> QED
      BY <3>1, <3>2, <3>3
  <2>6. Needs'
    BY <2>1, <2>5 DEF Needs, InSlice
  <2> QED
    BY <2>1, <2>3, <2>4, <2>6 DEF IInv, InSlice, Caught, Outside
<1> QED
  BY <1>1, <1>2, <1>3, <1>4, <1>5, <1>6, <1>7 DEF ARM9
LEMMA StepCatches ==
    ASSUME NEW a \in Int, NEW b \in Int, NEW t \in Int, NEW g \in Int, NEW p \in Nat,
           a < t, t <= g
    PROVE  /\ b <= a + p + 1 => b - g <= p
           /\ a - g <= p /\ t - g <= p
OBVIOUS

\* The ARM7 goes on, or has come to its target.  It may have scheduled a transfer.
LEMMA CaughtByAStep ==
    ASSUME IInv, pc \in {"arm7", "exec7"}, pc' \in {"arm7", "exec7"}, TypeOK',
           UNCHANGED <<game, arm9, goal, halted9, geometry, total, todo>>,
           arm7' >= 0, arm7' - goal <= Past7,
           pc' = "exec7" => arm7' < target7' /\ target7' <= goal,
           mask \subseteq mask',
           \A e \in EventSet \ {"spi"} : when'[e] = when[e] /\ (e \in mask' => e \in mask),
           "spi" \in mask' => ("spi" \in mask /\ when'["spi"] = when["spi"]) \/ when'["spi"] >= 0
    PROVE  IInv'
<1>1. TypeOK /\ Ran9 /\ CaughtUp /\ Needs
  BY DEF IInv, Caught
<1>2. Needs'
  <2>1. "fifo" \in mask' => "fifo" \in mask
    BY DEF EventSet
  <2> QED
    BY <1>1, <2>1 DEF Needs, InSlice
<1>3. when'["lcd"] = when["lcd"] /\ ("lcd" \in mask' <=> "lcd" \in mask)
  BY DEF EventSet
<1>4. \A e \in mask' : Timely(e)' => Passed(e)'
  <2> SUFFICES ASSUME NEW e \in mask', Timely(e)' PROVE Passed(e)'
    OBVIOUS
  <2>1. Timely(e) /\ Slack(e)' = Slack(e) /\ e \in EventSet
    BY <1>1 DEF Timely, Slack, TypeOK
  <2>2. CASE e \in mask /\ when'[e] = when[e]
    BY <1>1, <2>1, <2>2 DEF Ran9, Passed
  <2>3. CASE e = "spi" /\ when'["spi"] >= 0
    BY <2>3 DEF Passed
  <2> QED
    BY <2>1, <2>2, <2>3
<1>5. Ran9'
  BY <1>1, <1>3, <1>4 DEF Ran9
<1>6. CaughtUp'
  BY <1>1 DEF CaughtUp
<1> QED
  BY <1>2, <1>5, <1>6 DEF IInv, InSlice, Caught, Outside

LEMMA StepARM7 == IInv /\ ARM7 => IInv'
<1> SUFFICES ASSUME IInv, ARM7 PROVE IInv'
  OBVIOUS
<1>0. TypeOK /\ TypeOK' /\ Needs
  BY TypeARM7 DEF IInv
<1> USE <1>0 DEF times, sched, cpus, stops, call
<1>1. pc \in {"arm7", "exec7"}
  BY DEF ARM7, Enter7, Work7, StartSPI, Halt7, EnterSleepMode, Call9, Exec7
<1>2. Ran9 /\ CaughtUp
  BY <1>1 DEF IInv, Caught
<1>3. Past7 \in Nat /\ goal \in Int /\ goal >= 0 /\ arm7 \in Int /\ arm7 >= 0
  BY <1>2, Limits DEF Ran9, CaughtUp, TypeOK
<1>4. CASE Enter7 /\ arm7 >= goal
  <2>1. /\ pc' = "system" /\ todo' = mask
        /\ UNCHANGED <<game, arm9, arm7, goal, when, mask, halted9, geometry, total>>
    BY <1>4 DEF Enter7, TypeOK
  <2>2. Ran9' /\ CaughtUp'
    BY <1>2, <2>1 DEF Ran9, Passed, Slack, Timely, CaughtUp
  <2>3. Needs'
    BY <2>1 DEF Needs, InSlice
  <2> QED
    BY <1>4, <2>1, <2>2, <2>3 DEF IInv, InSlice, Caught, Outside
<1>5. CASE Enter7 /\ ~(arm7 >= goal)
  <2>1. /\ target7' = goal /\ arm7 < goal
        /\ \/ arm7' = goal /\ pc' = "arm7"
           \/ arm7' = arm7 /\ pc' = "exec7"
        /\ UNCHANGED <<game, arm9, goal, when, mask, todo, halted9, geometry, total>>
    BY <1>5 DEF Enter7, TypeOK
  <2> QED
    BY <1>1, <1>3, <2>1, CaughtByAStep
<1>6. ASSUME pc = "exec7" PROVE arm7 < target7 /\ target7 <= goal /\ target7 \in Int
  BY <1>6 DEF IInv, TypeOK
<1>7. CASE Work7 \/ Call9
  <2>1. PICK c \in Costs7 : Spend7(c, target7)
    BY <1>7, Limits DEF Work7, Call9
  <2>2. pc = "exec7" /\ UNCHANGED <<game, arm9, target7, goal, when, mask, todo, halted9, geometry, total>>
    BY <1>7 DEF Work7, Call9, Exec7
  <2>3. /\ arm7' \in Int /\ arm7' > arm7 /\ arm7' <= arm7 + Past7 + 1
        /\ pc' = IF arm7' >= target7 THEN "arm7" ELSE "exec7"
    BY <1>6, <2>1, <2>2, Spend7Type
  <2>4. arm7' >= 0 /\ arm7' - goal <= Past7 /\ (pc' = "exec7" => arm7' < target7)
    <3>1. arm7 < target7 /\ target7 <= goal /\ target7 \in Int
      BY <1>6, <2>2
    <3>2. arm7' - goal <= Past7
      BY <1>3, <2>3, <3>1, StepCatches
    <3> QED
      <4>1. arm7' >= 0
        BY <1>3, <2>3
      <4>2. pc' = "exec7" => arm7' < target7
        BY <2>3, <3>1
      <4> QED
        BY <3>2, <4>1, <4>2
  <2>5. pc' \in {"arm7", "exec7"}
    BY <2>3
  <2> QED
    BY <1>1, <1>6, <2>2, <2>4, <2>5, CaughtByAStep
<1>8. CASE StartSPI
  <2> DEFINE due == arm7 + Delay["spi"]
  <2>1. pc = "exec7" /\ UNCHANGED <<game, arm9, goal, todo, halted9, geometry, total>>
    BY <1>8 DEF StartSPI, Exec7
  <2>2. due \in Int /\ due >= 0
    BY <1>3, Clocks DEF Optional
  <2>3. /\ target7' \in Int /\ target7' <= target7 /\ mask \subseteq mask'
        /\ \A e \in EventSet \ {"spi"} : when'[e] = when[e] /\ (e \in mask' => e \in mask)
        /\ "spi" \in mask' => ("spi" \in mask /\ when'["spi"] = when["spi"]) \/ when'["spi"] >= 0
    <3>1. CASE "spi" \in mask
      BY <1>6, <1>8, <2>1, <3>1 DEF StartSPI
    <3>2. CASE "spi" \notin mask
      <4>1. /\ when' = [when EXCEPT !["spi"] = due] /\ mask' = mask \cup {"spi"}
            /\ target7' = Min({target7, due})
        BY <1>8, <3>2 DEF StartSPI
      <4> HIDE DEF due
      <4>2. target7' \in Int /\ target7' <= target7
        <5>1. target7 \in Int
          BY <1>6, <2>1
        <5>2. Min({target7, due}) \in {target7, due} /\ Min({target7, due}) <= target7
          BY <2>2, <5>1, MinOfTwo
        <5> QED
          BY <2>2, <4>1, <5>1, <5>2
      <4>3. when'["spi"] = due /\ \A e \in EventSet \ {"spi"} : when'[e] = when[e]
        BY <4>1 DEF TypeOK, EventSet
      <4> QED
        BY <2>2, <4>1, <4>2, <4>3
    <3> QED
      BY <3>1, <3>2
  <2>4. /\ arm7' \in Int /\ arm7' > arm7 /\ arm7' <= arm7 + Past7 + 1
        /\ pc' = IF arm7' >= target7' THEN "arm7" ELSE "exec7"
    BY <1>8, <2>3, Limits, Spend7Type DEF StartSPI
  <2>5. /\ arm7' >= 0 /\ arm7' - goal <= Past7
        /\ pc' = "exec7" => arm7' < target7' /\ target7' <= goal
    <3>1. arm7 < target7 /\ target7 <= goal /\ target7 \in Int
      BY <1>6, <2>1
    <3>2. arm7' - goal <= Past7
      BY <1>3, <2>4, <3>1, StepCatches
    <3> QED
      <4>1. arm7' >= 0
        BY <1>3, <2>4
      <4>2. pc' = "exec7" => arm7' < target7'
        BY <2>3, <2>4
      <4>3. target7' <= goal
        BY <1>3, <2>3, <3>1
      <4> QED
        BY <3>2, <4>1, <4>2, <4>3
  <2>6. pc' \in {"arm7", "exec7"}
    BY <2>4
  <2> QED
    BY <1>1, <2>1, <2>3, <2>5, <2>6, CaughtByAStep
<1>9. CASE Halt7 \/ EnterSleepMode
  <2>1. /\ pc = "exec7" /\ pc' = "arm7" /\ arm7' \in {arm7, target7}
        /\ UNCHANGED <<game, arm9, goal, when, mask, todo, halted9, geometry, total>>
    BY <1>9 DEF Halt7, EnterSleepMode, Exec7, Stop7
  <2>2. arm7' >= 0 /\ arm7' - goal <= Past7
    <3>1. arm7 < target7 /\ target7 <= goal /\ target7 \in Int
      BY <1>6, <2>1
    <3>2. arm7 - goal <= Past7 /\ target7 - goal <= Past7
      BY <1>3, <3>1, StepCatches
    <3> QED
      <4>1. arm7' >= 0
        BY <1>3, <2>1, <3>1
      <4>2. arm7' - goal <= Past7
        BY <2>1, <3>2
      <4> QED
        BY <4>1, <4>2
  <2> QED
    BY <1>1, <2>1, <2>2, CaughtByAStep
<1> QED
  BY <1>4, <1>5, <1>7, <1>8, <1>9 DEF ARM7
LEMMA Numbers == \A e \in EventSet : Number(e) \in 1..6 /\ Events[Number(e)] = e
<1> SUFFICES ASSUME NEW e \in EventSet PROVE Number(e) \in 1..6 /\ Events[Number(e)] = e
  OBVIOUS
<1>1. \E i \in 1..6 : Events[i] = e
  <2>1. \A n \in 1..6 : Events[n] = <<"lcd", "spu", "rtc", "fifo", "spi", "div">>[n]
    BY DEF Events
  <2> QED
    BY <2>1 DEF EventSet
<1> QED
  BY <1>1 DEF Number

\* The event that is fired is due, and what RunSystem has skipped is not.
LEMMA FirstIsLeast ==
    ASSUME TypeOK, Due # {}
    PROVE  /\ First \in Due
           /\ \A f \in todo : f = First \/ Number(f) > Number(First) \/ when[f] > goal
<1> DEFINE S == {Number(e) : e \in Due}
<1>1. Due \subseteq todo /\ todo \subseteq EventSet
  BY DEF Due, TypeOK
<1>2. S \in SUBSET Int /\ S # {} /\ \A x \in S : 1 <= x
  BY <1>1, Numbers
<1>3. Min(S) \in S /\ \A x \in S : Min(S) <= x
  <2> HIDE DEF S
  <2> QED BY <1>2, MinOfBounded
<1>4. \E e \in Due : \A f \in Due : Number(e) <= Number(f)
  BY <1>3
<1>5. First \in Due /\ \A f \in Due : Number(First) <= Number(f)
  BY <1>4 DEF First
<1>6. ASSUME NEW f \in todo PROVE f = First \/ Number(f) > Number(First) \/ when[f] > goal
  <2>1. /\ Number(f) \in Int /\ Number(First) \in Int
        /\ Number(f) = Number(First) => f = First
    BY <1>1, <1>5, Numbers
  <2>2. f \in Due \/ when[f] > goal
    BY <1>1 DEF Due, TypeOK
  <2> QED
    BY <1>5, <2>1, <2>2
<1> QED
  BY <1>5, <1>6

\* What is put off by its period lies ahead, if it was not too late.
LEMMA AgainIsAhead ==
    ASSUME NEW a \in Nat, NEW w \in Int, NEW p \in Int, NEW l \in Int,
           a - 2 * w <= l, l <= 2 * p
    PROVE  w + p >= a \div 2
OBVIOUS

\* An event is fired, and whatever it schedules lies ahead.
Fires(e) ==
    /\ Firing(e)
    /\ "fifo" \in mask' => "fifo" \in game
    /\ mask \ {e} \subseteq mask' /\ {"spu", "rtc"} \subseteq mask'
    /\ \A f \in mask' : \/ f # e /\ f \in mask /\ when'[f] = when[f]
                        \/ Timely(f) => when'[f] >= goal
    /\ "lcd" \in mask' \/ total' => \/ when'["lcd"] = when["lcd"] /\ ("lcd" \in mask \/ total)
                                    \/ when'["lcd"] >= goal

LEMMA FiredKeepsTime ==
    ASSUME IInv, NEW e \in EventSet, Fires(e), TypeOK' PROVE IInv'
<1> USE DEF Fires
<1>1. /\ pc = "system" /\ Due # {} /\ First = e
      /\ todo' = {f \in todo : Number(f) > Number(e)}
      /\ UNCHANGED <<game, arm9, arm7, goal, halted9, geometry, pc>>
  BY DEF Firing, times
<1>2. /\ TypeOK /\ Needs /\ Ran9 /\ CaughtUp /\ arm7 >= goal
      /\ \A f \in mask \ todo : Timely(f) => when[f] >= goal
  BY <1>1 DEF IInv, Caught
<1>3. todo' \subseteq mask'
  BY <1>1, <1>2, Numbers DEF Needs, TypeOK
<1>4. Needs'
  BY <1>1, <1>2, <1>3 DEF Needs, InSlice
<1>5. /\ goal \in Int /\ goal >= 0 /\ arm9 \in Int /\ arm9 <= 2 * goal + 1
      /\ Past9 \in Nat \ {0}
  BY <1>2, Limits DEF Ran9, CaughtUp, TypeOK
<1>6. ASSUME NEW f \in mask', Timely(f), when'[f] >= goal PROVE Passed(f)'
  <2>1. when'[f] \in Int /\ when'[f] >= 0
    BY <1>5, <1>6 DEF TypeOK
  <2>2. Slack(f)' \in Int /\ Slack(f)' >= 1
    BY <1>5, Limits DEF Slack
  <2>3. arm9 - 2 * when'[f] <= 1
    BY <1>5, <1>6, <2>1
  <2>4. arm9' - 2 * when'[f] <= Slack(f)'
    BY <1>1, <1>5, <2>1, <2>2, <2>3
  <2> QED
    BY <2>1, <2>4 DEF Passed
<1>7. \A f \in mask' : Timely(f)' => Passed(f)'
  <2> SUFFICES ASSUME NEW f \in mask', Timely(f)' PROVE Passed(f)'
    OBVIOUS
  <2>1. Timely(f) /\ Slack(f)' = Slack(f)
    BY <1>1 DEF Timely, Slack
  <2>2. CASE f \in mask /\ when'[f] = when[f]
    BY <1>1, <1>2, <2>1, <2>2 DEF Ran9, Passed
  <2>3. CASE when'[f] >= goal
    BY <1>6, <2>1, <2>3
  <2> QED
    BY <2>1, <2>2, <2>3
<1>8. "lcd" \in mask' \/ total' => arm9' - 2 * when'["lcd"] <= Past9
  <2> SUFFICES ASSUME "lcd" \in mask' \/ total' PROVE arm9' - 2 * when'["lcd"] <= Past9
    OBVIOUS
  <2>1. when'["lcd"] \in Int
    BY DEF TypeOK, EventSet
  <2>2. CASE when'["lcd"] = when["lcd"] /\ ("lcd" \in mask \/ total)
    BY <1>1, <1>2, <2>2 DEF Ran9
  <2>3. CASE when'["lcd"] >= goal
    BY <1>1, <1>5, <2>1, <2>3
  <2> QED
    BY <2>2, <2>3
<1>9. Ran9' /\ CaughtUp'
  BY <1>1, <1>2, <1>7, <1>8 DEF Ran9, CaughtUp
<1>10. \A f \in mask' \ todo' : Timely(f)' => when'[f] >= goal'
  <2> SUFFICES ASSUME NEW f \in mask', f \notin todo', Timely(f)' PROVE when'[f] >= goal'
    OBVIOUS
  <2>1. Timely(f) /\ goal' = goal
    BY <1>1 DEF Timely
  <2>2. CASE f # e /\ f \in mask /\ when'[f] = when[f]
    <3>1. CASE f \in todo
      <4>1. ~(Number(f) > Number(e))
        BY <1>1, <3>1
      <4>2. when[f] > goal
        BY <1>1, <1>2, <2>2, <3>1, <4>1, FirstIsLeast
      <4> QED
        BY <1>5, <2>1, <2>2, <4>2 DEF TypeOK
    <3>2. CASE f \notin todo
      BY <1>2, <2>1, <2>2, <3>2
    <3> QED
      BY <3>1, <3>2
  <2> QED
    BY <2>1, <2>2
<1> QED
  BY <1>1, <1>2, <1>4, <1>9, <1>10 DEF IInv, InSlice, Caught, Outside

LEMMA StepSystem == IInv /\ RunSystem => IInv'
<1> SUFFICES ASSUME IInv, RunSystem PROVE IInv'
  OBVIOUS
<1>0. TypeOK /\ TypeOK' /\ Needs
  BY TypeSystem DEF IInv
<1>1. pc = "system"
  BY DEF RunSystem, FireLCD, FireSPU, FireRTC, FireFIFO, FireOnce, Firing, EndSlice
<1>2. /\ Ran9 /\ CaughtUp /\ arm7 >= goal
      /\ \A f \in mask \ todo : Timely(f) => when[f] >= goal
      /\ todo \subseteq mask /\ mask \subseteq EventSet /\ {"spu", "rtc"} \subseteq mask
      /\ "fifo" \in mask => "fifo" \in game
  BY <1>0, <1>1 DEF IInv, Caught, Needs, TypeOK
<1>3. /\ goal \in Int /\ goal >= 0 /\ arm9 \in Nat /\ goal = arm9 \div 2
      /\ arm9 - 2 * goal \in {0, 1} /\ arm7 \in Int /\ when \in [EventSet -> Int]
  BY <1>0, <1>2 DEF Ran9, CaughtUp, TypeOK
<1>4. ASSUME NEW e \in {"lcd", "spu", "rtc", "fifo"}, e \in todo, Timely(e)
      PROVE  when[e] + (IF e = "lcd" THEN Line ELSE Period[e]) >= goal
  <2> DEFINE p == IF e = "lcd" THEN Line ELSE Period[e]
  <2>1. arm9 - 2 * when[e] <= Slack(e)
    BY <1>2, <1>4 DEF Ran9, Passed
  <2>2. p \in Int /\ Slack(e) \in Int /\ Slack(e) <= 2 * p
    BY <1>4, Clocks, Limits DEF Slack, Timely
  <2>3. when[e] \in Int
    BY <1>3 DEF EventSet
  <2> HIDE DEF p
  <2>4. when[e] + p >= goal
    BY <1>3, <2>1, <2>2, <2>3, AgainIsAhead
  <2> QED
    BY <2>4 DEF p
<1>5. ASSUME NEW e, Firing(e) PROVE e \in todo /\ e = First
  BY <1>0, <1>5, FirstIsLeast DEF Firing, Due
<1>6. CASE FireLCD
  <2>1. Firing("lcd") /\ "lcd" \in todo
    BY <1>5, <1>6 DEF FireLCD
  <2> DEFINE fifo == "fifo" \in game /\ "fifo" \notin mask
  <2>2. CASE /\ when' = [when EXCEPT !["lcd"] = @ + Line,
                                     !["fifo"] = IF fifo THEN arm7 + Delay["fifo"] ELSE @]
             /\ mask' = IF fifo THEN mask \cup {"fifo"} ELSE mask
             /\ UNCHANGED total
    <3>1. arm7 + Delay["fifo"] >= goal
      BY <1>2, <1>3, Clocks DEF Optional
    <3>2. when'["lcd"] >= goal
      BY <1>3, <1>4, <2>1, <2>2 DEF Timely, EventSet
    <3>3. fifo => when'["fifo"] >= goal
      BY <1>3, <2>2, <3>1 DEF EventSet
    <3>4. \A f \in mask' : (f # "lcd" /\ f \in mask /\ when'[f] = when[f]) \/ when'[f] >= goal
      <4> SUFFICES ASSUME NEW f \in mask' 
                   PROVE  (f # "lcd" /\ f \in mask /\ when'[f] = when[f]) \/ when'[f] >= goal
        OBVIOUS
      <4>1. CASE f = "lcd" \/ (f = "fifo" /\ fifo)
        BY <3>2, <3>3, <4>1
      <4>2. CASE f # "lcd" /\ ~(f = "fifo" /\ fifo)
        <5>1. f \in mask
          BY <2>2, <4>2
        <5>2. f \in EventSet
          BY <1>2, <5>1
        <5>3. when'[f] = when[f]
          BY <1>3, <2>2, <4>2, <5>2
        <5> QED
          BY <4>2, <5>1, <5>3
      <4> QED
        BY <4>1, <4>2
    <3>5. /\ "fifo" \in mask' => "fifo" \in game
          /\ mask \subseteq mask'
      BY <1>2, <2>2
    <3>6. Fires("lcd")
      BY <1>2, <2>1, <3>2, <3>4, <3>5 DEF Fires
    <3> QED
      BY <1>0, <3>6, FiredKeepsTime DEF EventSet
  <2>3. CASE mask' = mask \ {"lcd"} /\ total' = TRUE /\ UNCHANGED when
    <3>1. Fires("lcd")
      BY <1>2, <2>1, <2>3 DEF Fires
    <3> QED
      BY <1>0, <3>1, FiredKeepsTime DEF EventSet
  <2> QED
    BY <1>6, <2>2, <2>3 DEF FireLCD
<1>7. ASSUME NEW e \in {"spu", "rtc"}, Firing(e), when' = Again(e), UNCHANGED <<mask, total>>
      PROVE  IInv'
  <2>1. e \in todo /\ Timely(e) /\ e # "lcd" /\ e \in EventSet
    BY <1>5, <1>7 DEF Timely, EventSet
  <2>2. when'[e] >= goal
    BY <1>3, <1>4, <1>7, <2>1 DEF Again
  <2>3. \A f \in EventSet : f # e => when'[f] = when[f]
    BY <1>3, <1>7 DEF Again
  <2>4. "lcd" \in mask' \/ total' => when'["lcd"] = when["lcd"] /\ ("lcd" \in mask \/ total)
    BY <1>7, <2>1, <2>3 DEF EventSet
  <2>5. \A f \in mask' : (f # e /\ f \in mask /\ when'[f] = when[f]) \/ when'[f] >= goal
    BY <1>2, <1>7, <2>2, <2>3
  <2>6. Fires(e)
    BY <1>2, <1>7, <2>4, <2>5 DEF Fires
  <2> QED
    BY <1>0, <2>1, <2>6, FiredKeepsTime
<1>8. CASE FireFIFO
  <2>1. Firing("fifo") /\ "fifo" \in todo /\ UNCHANGED total
    BY <1>5, <1>8 DEF FireFIFO
  <2>2. CASE when' = Again("fifo") /\ UNCHANGED mask
    <3>1. Timely("fifo") => when'["fifo"] >= goal
      BY <1>3, <1>4, <2>1, <2>2 DEF Again, EventSet
    <3>2. \A f \in EventSet : f # "fifo" => when'[f] = when[f]
      BY <1>3, <2>2 DEF Again
    <3>3. "lcd" \in mask' \/ total' => when'["lcd"] = when["lcd"] /\ ("lcd" \in mask \/ total)
      BY <2>1, <2>2, <3>2 DEF EventSet
    <3>4. \A f \in mask' : \/ f # "fifo" /\ f \in mask /\ when'[f] = when[f]
                           \/ Timely(f) => when'[f] >= goal
      BY <1>2, <2>2, <3>1, <3>2
    <3>5. Fires("fifo")
      BY <1>2, <2>1, <2>2, <3>3, <3>4 DEF Fires
    <3> QED
      BY <1>0, <3>5, FiredKeepsTime DEF EventSet
  <2>3. CASE mask' = mask \ {"fifo"} /\ UNCHANGED when
    <3>1. Fires("fifo")
      BY <1>2, <2>1, <2>3 DEF Fires
    <3> QED
      BY <1>0, <3>1, FiredKeepsTime DEF EventSet
  <2> QED
    BY <1>8, <2>2, <2>3 DEF FireFIFO
<1>9. ASSUME NEW e \in {"spi", "div"}, FireOnce(e) PROVE IInv'
  <2>1. Firing(e) /\ mask' = mask \ {e} /\ UNCHANGED <<when, total>>
    BY <1>9 DEF FireOnce
  <2>2. Fires(e)
    BY <1>2, <2>1 DEF Fires
  <2> QED
    BY <1>0, <2>2, FiredKeepsTime DEF EventSet
<1>10. CASE EndSlice
  <2>1. /\ Due = {} /\ arm9' = arm9 - 2 * goal /\ arm7' = arm7 - goal
        /\ when' = [e \in EventSet |-> IF Ahead(e) THEN when[e] - goal ELSE 0]
        /\ todo' = {} /\ pc' = (IF asleep \/ total THEN "bottom" ELSE "slice")
        /\ UNCHANGED <<game, mask, halted9, geometry, total>>
    BY <1>10 DEF EndSlice, cpus, stops, call
  <2>2. arm9' \in {0, 1} /\ arm7' \in 0..Past7
    BY <1>2, <1>3, <2>1, Limits DEF CaughtUp
  <2>3. ASSUME NEW e \in mask, Timely(e) PROVE when'[e] >= 0
    <3>1. e \in EventSet /\ when'[e] = when[e] - goal
      BY <1>2, <2>1, <2>3 DEF Ahead
    <3>2. when[e] >= goal
      <4>1. CASE e \in todo
        BY <1>3, <2>1, <3>1, <4>1 DEF Due
      <4>2. CASE e \notin todo
        BY <1>2, <2>3, <4>2
      <4> QED
        BY <4>1, <4>2
    <3> QED
      BY <1>3, <3>1, <3>2
  <2>4. 2 * when'["lcd"] >= -Past9
    <3>1. when["lcd"] \in Int /\ Past9 \in Nat
      BY <1>3, Limits DEF EventSet
    <3>2. CASE Ahead("lcd")
      <4>1. arm9 - 2 * when["lcd"] <= Past9
        BY <1>2, <3>2 DEF Ran9, Ahead
      <4>2. when'["lcd"] = when["lcd"] - goal
        BY <2>1, <3>2 DEF EventSet
      <4> QED
        BY <1>3, <3>1, <4>1, <4>2
    <3>3. CASE ~Ahead("lcd")
      BY <2>1, <3>1, <3>3 DEF EventSet
    <3> QED
      BY <3>2, <3>3
  <2>5. Rested'
    BY <2>1, <2>2, <2>3, <2>4 DEF Rested, Timely
  <2>6. Needs'
    BY <1>0, <2>1 DEF Needs, InSlice
  <2> QED
    BY <1>0, <2>1, <2>5, <2>6 DEF IInv, InSlice, Caught, Outside
<1> QED
  BY <1>6, <1>7, <1>8, <1>9, <1>10 DEF RunSystem, FireSPU, FireRTC, FireOnce
-----------------------------------------------------------------------------
(* Theorems *)

LEMMA StepIInv == ASSUME FifoKeepsUp PROVE IInv /\ [Next]_vars => IInv'
<1>1. IInv /\ UNCHANGED vars => IInv'
  <2> SUFFICES ASSUME IInv, UNCHANGED vars PROVE IInv'
    OBVIOUS
  <2>1. TypeOK'
    BY TypeStep DEF IInv
  <2>2. UNCHANGED <<game, arm9, arm7, target9, target7, goal, when, mask, todo, halted9,
                    geometry, total, pc>>
    BY DEF vars, times, sched, cpus, stops, call
  <2> QED
    BY <2>1, <2>2 DEF IInv, Needs, Rested, Running9, Ran9, CaughtUp, Passed, Slack, Timely
<1>2. IInv /\ Next => IInv'
  BY StepOutside, StepARM9, StepARM7, StepSystem DEF Next, Loop
<1> QED
  BY <1>1, <1>2

\* The types of the loop's variables, whatever instructions, DMA units and geometry cost.
THEOREM FrameTypes == Spec => []TypeOK
<1>1. Init => TypeOK
  BY InitIInv DEF IInv
<1> QED
  BY <1>1, TypeStep, PTL DEF Spec

\* The inductive invariant: where the CPUs and the events stand at each point of a slice.
THEOREM FrameInv == ASSUME FifoKeepsUp PROVE Spec => []IInv
<1> QED
  BY InitIInv, StepIInv, PTL DEF Spec

\* When RunSystem fires the events, the ARM9 has come exactly as far as the slice, and
\* the ARM7 as far or further by less than its longest step.
THEOREM FrameInStep == ASSUME FifoKeepsUp PROVE Spec => []InStep
<1>1. IInv => InStep
  <2> SUFFICES ASSUME IInv, pc = "system"
               PROVE  arm9 - 2 * goal \in {0, 1} /\ arm7 - goal \in 0..Past7
    BY DEF InStep, Past7
  <2>1. /\ arm9 \in Int /\ arm9 >= 0 /\ goal = arm9 \div 2 /\ arm7 \in Int /\ arm7 >= goal
        /\ arm7 - goal <= Past7 /\ Past7 \in Nat
    BY Limits DEF IInv, TypeOK, Caught, Ran9, CaughtUp
  <2> QED
    BY <2>1
<1> QED
  BY <1>1, FrameInv, PTL

\* No event is fired later than the ARM9's longest step after its time, and one that the
\* ARM7 has scheduled than a slice more.
THEOREM FrameOnTime == ASSUME FifoKeepsUp PROVE Spec => []OnTime
<1>1. IInv => OnTime
  <2> SUFFICES ASSUME IInv, pc = "system", NEW e \in Due \ {"fifo"}
               PROVE  Late(e) <= Step9 + (IF e = "spi" THEN 2 * (MaxIteration + Margin - 1) ELSE 0)
    BY DEF OnTime
  <2>1. /\ TypeOK /\ Needs /\ Ran9 /\ CaughtUp
    BY DEF IInv, Caught
  <2>2. e \in mask /\ e \in EventSet /\ Passed(e) /\ e # "fifo"
    BY <2>1 DEF Due, Needs, TypeOK, Ran9, Timely
  <2>3. when[e] \in Int /\ arm9 \in Int /\ goal \in Int /\ 2 * goal <= arm9
    BY <2>1, <2>2 DEF TypeOK, CaughtUp
  <2>4. Past9 \in Nat /\ Step9 = Past9 + 1 /\ MaxIteration \in Nat /\ Margin \in Nat
    BY Limits, LoopAssumption
  <2>5. CASE e = "spi"
    <3>1. when[e] >= 0 /\ arm9 <= 2 * (MaxIteration + Margin - 1) + Past9
      BY <2>1, <2>2, <2>5 DEF Passed, Ran9
    <3> QED
      BY <2>3, <2>4, <2>5, <3>1 DEF Late
  <2>6. CASE e # "spi"
    <3>1. arm9 - 2 * when[e] <= Past9
      BY <2>2, <2>6 DEF Passed, Slack
    <3> QED
      BY <2>3, <2>4, <2>6, <3>1 DEF Late
  <2> QED
    BY <2>5, <2>6
<1> QED
  BY <1>1, FrameInv, PTL

-----------------------------------------------------------------------------
(* The samples of a call *)

Lasting(n, cycles) == n * cycles

\* What the sound has played for since the call began, what the frame's lines take, and
\* the sleeps of the call.
Played == Lasting(samples, Period["spu"])
Lines  == Lasting(vcount + 1, Line)
Slept  == Lasting(sleeps, SleepFrame)

\* The next sample and the next line keep apart as far as the frame has come, but for
\* what has been slept: sleep mode holds the lines back and lets the sound go on.
Covered == Played - when["spu"] + when["lcd"] - Lines + left <= Slept

Enough == 2 * Played <= 2 * (Lasting(NumLines, Line) + Slept) + Step9 + 2 * Period["spu"]

\* A game sleeps and wakes up at the loop's own pace.
Sleeping ==
    /\ asleep => ie7 = Wakers
    /\ wakeup => ~asleep /\ pc \in {"frontend", "top", "sleep", "bottom"}
    /\ pc \in {"slice", "arm9", "exec9", "gpu"} => ~asleep
    /\ pc = "sleep" => asleep \/ wakeup
    /\ pc # "sleep" => left = 0

\* The frame's next line is scheduled until the frame is over.
Framed ==
    /\ vcount + 1 <= NumLines
    /\ asleep \/ wakeup => "lcd" \in mask
    /\ pc \in InSlice \cup Caught \cup {"slice"} => "lcd" \in mask \/ total
    /\ asleep /\ pc \in {"arm7", "exec7"} => vcount + 1 < NumLines
    /\ asleep /\ pc = "system" /\ "lcd" \in todo => vcount + 1 < NumLines
    /\ pc = "system" /\ total => ~asleep /\ "lcd" \notin mask /\ when["lcd"] <= goal
    /\ pc = "bottom" /\ ~asleep /\ ~wakeup => total /\ when["lcd"] <= 0
    /\ pc \in {"top", "frontend"} /\ ~asleep /\ ~wakeup => when["lcd"] <= 0 /\ samples = 0
    /\ pc = "frontend" => samples = 0
    /\ pc \notin {"arm7", "exec7", "system"} => goal = 0
    /\ when["lcd"] <= goal + Line

\* The inductive invariant of the samples, beside IInv.
SInv == Sleeping /\ Framed /\ Covered /\ Enough

\* A game that enables nothing but its waker sleeps till then, and does not fall asleep in a
\* frame's last line: else its frame would never end, and its samples come to Room.
SleepsInTime == ~EarlyWake /\ NumLines - 1 \notin SleepLines

LEMMA LastingSteps ==
    ASSUME NEW k \in Nat
    PROVE  /\ \A n \in Nat : Lasting(n, k) \in Nat /\ Lasting(n + 1, k) = Lasting(n, k) + k
           /\ \A n, m \in Nat : n <= m => Lasting(n, k) <= Lasting(m, k)
           /\ Lasting(0, k) = 0
<1>1. ASSUME NEW n \in Nat PROVE n * k \in Nat /\ (n + 1) * k = n * k + k
  OBVIOUS
<1>2. ASSUME NEW n \in Nat, NEW m \in Nat, n <= m PROVE n * k <= m * k
  <2>1. PICK d \in Nat : m = n + d
    <3>1. m - n \in Nat /\ m = n + (m - n)
      BY <1>2
    <3> QED BY <3>1
  <2>2. (n + d) * k = n * k + d * k /\ d * k \in Nat /\ n * k \in Nat
    OBVIOUS
  <2> QED BY <2>1, <2>2
<1>3. 0 * k = 0
  OBVIOUS
<1> QED BY <1>1, <1>2, <1>3 DEF Lasting

LEMMA Measures ==
    ASSUME TypeOK
    PROVE  /\ Played \in Nat /\ Lines \in Nat /\ Slept \in Nat /\ Lasting(NumLines, Line) \in Nat
           /\ when["spu"] \in Int /\ when["lcd"] \in Int /\ left \in Nat
           /\ Period["spu"] \in Nat \ {0} /\ SleepFrame \in Nat \ {0} /\ Line \in Nat \ {0}
           /\ NumLines \in Nat \ {0}
<1>1. SleepFrame \in Nat \ {0} /\ NumLines \in Nat \ {0}
  BY LoopAssumption
<1>2. samples \in Nat /\ vcount + 1 \in Nat /\ sleeps \in Nat /\ left \in Nat
  BY DEF TypeOK
<1>3. when["spu"] \in Int /\ when["lcd"] \in Int
  BY DEF TypeOK, EventSet
<1> QED BY <1>1, <1>2, <1>3, Clocks, LastingSteps DEF Played, Lines, Slept

LEMMA EnoughMeans == TypeOK => (Enough <=> SamplesOfACall)
<1> SUFFICES ASSUME TypeOK PROVE Enough <=> SamplesOfACall
  OBVIOUS
<1>1. PICK p \in Nat : p = Period["spu"]
  BY Clocks
<1>2. PICK s \in Nat : s = samples
  BY DEF TypeOK
<1>3. PICK l \in Nat : l = NumLines * Line
  BY Measures DEF Lasting
<1>4. PICK c \in Nat : c = sleeps * SleepFrame
  BY Measures DEF Lasting, Slept
<1>5. Step9 \in Nat
  BY Limits
<1>6. 2 * (s - 1) * p = 2 * (s * p) - 2 * p
  OBVIOUS
<1>7. PICK q \in Nat : q = s * p
  OBVIOUS
<1>8. Enough <=> 2 * q <= 2 * (l + c) + Step9 + 2 * p
  BY <1>1, <1>2, <1>3, <1>4, <1>7 DEF Enough, Played, Slept, Lasting
<1>9. SamplesOfACall <=> 2 * q - 2 * p <= 2 * (l + c) + Step9
  BY <1>1, <1>2, <1>3, <1>4, <1>6, <1>7 DEF SamplesOfACall
<1> QED BY <1>5, <1>8, <1>9

\* Steps that let the clocks alone.
LEMMA QuietStep ==
    ASSUME Covered, Enough, when'["spu"] = when["spu"], when'["lcd"] = when["lcd"],
           UNCHANGED <<samples, sleeps, vcount, left>>
    PROVE  Covered' /\ Enough'
BY DEF Covered, Enough, Played, Lines, Slept

LEMMA InitSInv == Init => SInv
<1> SUFFICES ASSUME Init PROVE SInv
  OBVIOUS
<1>1. TypeOK
  BY InitIInv DEF IInv
<1>2. when["lcd"] = 0 /\ when["spu"] = Period["spu"]
  BY DEF Init, EventSet
<1>3. Played = 0 /\ Slept = 0 /\ left = 0 /\ samples = 0 /\ vcount = 0
  BY Measures, <1>1, LastingSteps DEF Init, Played, Slept
<1>4. Covered
  BY <1>1, <1>2, <1>3, Measures DEF Covered
<1>5. Enough
  BY <1>1, <1>3, Measures, Limits DEF Enough
<1>6. Sleeping /\ Framed
  BY <1>1, <1>2, Measures DEF Init, Sleeping, Framed, InSlice, Caught
<1> QED BY <1>4, <1>5, <1>6 DEF SInv

LEMMA LinesBounds ==
    ASSUME TypeOK
    PROVE  Line <= Lines /\ (vcount + 1 <= NumLines => Lines <= Lasting(NumLines, Line))
<1>1. Line \in Nat /\ NumLines \in Nat /\ vcount \in Nat /\ 1 \in Nat /\ vcount + 1 \in Nat /\ 1 <= vcount + 1
  BY Measures DEF TypeOK
<1>2. Lasting(1, Line) = Line
  BY <1>1 DEF Lasting
<1>3. Lasting(1, Line) <= Lasting(vcount + 1, Line)
  BY <1>1, LastingSteps
<1>4. vcount + 1 <= NumLines => Lasting(vcount + 1, Line) <= Lasting(NumLines, Line)
  BY <1>1, LastingSteps
<1> QED BY <1>2, <1>3, <1>4 DEF Lines

\* Between two slices.
LEMMA CallKeepsSamples == IInv /\ SInv /\ CallRunFrame => SInv'
<1> SUFFICES ASSUME IInv, SInv, CallRunFrame PROVE SInv'
  OBVIOUS
<1>1. /\ pc = "frontend" /\ pc' = "top" /\ total' = FALSE /\ sleeps' = 0
      /\ UNCHANGED <<goal, when, mask, vcount, ie7, asleep, wakeup, left, samples>>
  BY DEF CallRunFrame, times, sched, cpus, stops
<1>2. TypeOK /\ TypeOK' /\ Rested /\ "spu" \in mask
  BY TypeStep, <1>1 DEF IInv, Outside, Needs, Next
<1>3. Sleeping' /\ Framed'
  BY <1>1 DEF SInv, Sleeping, Framed, InSlice, Caught
<1>4. goal = 0 /\ left = 0 /\ samples = 0 /\ when["lcd"] <= Line /\ when["spu"] >= 0
  BY <1>1, <1>2, Measures DEF SInv, Sleeping, Framed, Rested, Timely
<1>5. Played = 0 /\ Played' = 0 /\ Slept' = 0 /\ Lines' = Lines
  BY <1>1, <1>4, Measures, LastingSteps, <1>2 DEF Played, Slept, Lines
<1>6. Covered'
  BY <1>1, <1>2, <1>4, <1>5, Measures, LinesBounds DEF Covered
<1>7. Enough'
  BY <1>2, <1>5, Measures, Limits DEF Enough
<1> QED BY <1>3, <1>6, <1>7 DEF SInv

LEMMA StartKeepsSamples == IInv /\ SInv /\ StartFrame => SInv'
<1> SUFFICES ASSUME IInv, SInv, StartFrame PROVE SInv'
  OBVIOUS
<1>1. /\ pc = "top" /\ pc' = "slice" /\ ~asleep /\ wakeup' = FALSE
      /\ UNCHANGED <<goal, ie7, asleep, left, samples, sleeps>>
  BY DEF StartFrame, times, cpus
<1>2. TypeOK /\ TypeOK' /\ Rested /\ "spu" \in mask
  BY TypeStep, <1>1 DEF IInv, Outside, Needs, Next, Loop
<1>3. Sleeping'
  BY <1>1 DEF SInv, Sleeping
<1>4. goal = 0 /\ left = 0 /\ when["spu"] >= 0
  BY <1>1, <1>2, Measures DEF SInv, Sleeping, Framed, Rested, Timely
<1>5. CASE wakeup
  <2>1. UNCHANGED <<when, mask, vcount, total>>
    BY <1>5 DEF StartFrame
  <2>2. Framed'
    BY <1>1, <1>5, <2>1 DEF SInv, Framed, InSlice, Caught
  <2> QED BY <1>1, <1>3, <2>1, <2>2, QuietStep DEF SInv
<1>6. CASE ~wakeup
  <2>1. /\ total' = FALSE /\ vcount' = 0 /\ "lcd" \in mask'
        /\ when'["lcd"] = when["lcd"] + Line /\ when'["spu"] = when["spu"]
    BY <1>2, <1>6 DEF StartFrame, TypeOK, EventSet
  <2>2. when["lcd"] <= 0 /\ samples = 0
    BY <1>1, <1>6 DEF SInv, Framed
  <2>3. Framed'
    BY <1>1, <1>2, <1>4, <2>1, <2>2, Measures DEF Framed, InSlice, Caught
  <2>4. Lines' = Line
    BY <2>1, Measures, <1>2 DEF Lines, Lasting
  <2>5. Played' = 0 /\ Slept' \in Nat
    BY <1>1, <2>2, Measures, LastingSteps, <1>2 DEF Played, Slept
  <2>6. Covered'
    BY <1>1, <1>2, <1>4, <2>1, <2>2, <2>4, <2>5, Measures DEF Covered
  <2>7. Enough'
    <3>1. Slept' = Slept
      BY <1>1 DEF Slept
    <3> QED BY <1>2, <2>5, <3>1, Measures, Limits DEF Enough
  <2> QED BY <1>3, <2>3, <2>6, <2>7 DEF SInv
<1> QED BY <1>5, <1>6

LEMMA FallKeepsSamples == IInv /\ SInv /\ FallAsleep => SInv'
<1> SUFFICES ASSUME IInv, SInv, FallAsleep PROVE SInv'
  OBVIOUS
<1>1. /\ pc = "top" /\ pc' = "sleep" /\ asleep /\ left' = SleepFrame /\ sleeps' = sleeps + 1
      /\ UNCHANGED <<goal, when, mask, todo, vcount, ie7, asleep, wakeup, total, samples>>
  BY DEF FallAsleep, times, sched, cpus, stops
<1>2. TypeOK /\ TypeOK'
  BY TypeStep DEF IInv, Next, Loop
<1>3. Sleeping' /\ Framed'
  BY <1>1 DEF SInv, Sleeping, Framed, InSlice, Caught
<1>4. left = 0 /\ Played' = Played /\ Lines' = Lines
  BY <1>1 DEF SInv, Sleeping, Played, Lines
<1>5. Slept' = Slept + SleepFrame
  <2>1. sleeps \in Nat /\ SleepFrame \in Nat
    BY <1>2, Measures DEF TypeOK
  <2>2. Lasting(sleeps + 1, SleepFrame) = Lasting(sleeps, SleepFrame) + SleepFrame
    BY <2>1, LastingSteps
  <2> QED BY <1>1, <2>2 DEF Slept
<1>6. Covered'
  BY <1>1, <1>2, <1>4, <1>5, Measures DEF SInv, Covered
<1>7. Enough'
  BY <1>2, <1>4, <1>5, Measures, Limits DEF SInv, Enough
<1> QED BY <1>3, <1>6, <1>7 DEF SInv

LEMMA SleepKeepsSamples == IInv /\ SInv /\ SleepStep => SInv'
<1> SUFFICES ASSUME IInv, SInv, SleepStep PROVE SInv'
  OBVIOUS
<1>1. PICK step : step = Min({when["spu"], when["rtc"], left})
  OBVIOUS
<1>2. TypeOK /\ TypeOK' /\ Rested /\ Needs /\ pc = "sleep"
  BY TypeStep DEF IInv, Outside, Next, Loop, SleepStep
<1>3. /\ when["spu"] >= 0 /\ when["rtc"] >= 0 /\ when["rtc"] \in Int
      /\ 2 * when["lcd"] >= -Past9 /\ "spu" \in mask
  BY <1>2 DEF Rested, Timely, Needs, TypeOK, EventSet
<1>4. step \in Int /\ step >= 0 /\ step <= when["spu"] /\ step <= left
  <2>1. when["spu"] \in Int /\ left \in Int /\ left >= 0
    BY <1>2, Measures
  <2>2. /\ step \in {when["spu"], when["rtc"], left}
        /\ step <= when["spu"] /\ step <= left
    BY <1>1, <1>3, <2>1, MinOfThree
  <2> QED BY <1>3, <2>1, <2>2
<1>5. /\ asleep /\ left' = left - step /\ pc' = pc
      /\ when' = [e \in EventSet |->
             IF e \in {"spu", "rtc"} /\ when[e] <= step THEN when[e] + Period[e] - step
             ELSE IF e \in mask /\ when[e] > step THEN when[e] - step ELSE when[e]]
      /\ samples' = IF when["spu"] <= step THEN Min({samples + 1, Room}) ELSE samples
      /\ UNCHANGED <<goal, mask, todo, vcount, ie7, total, sleeps>>
  BY <1>1 DEF SleepStep
<1>6. UNCHANGED <<asleep, wakeup>> \/ SetIRQ7("wake")
  BY DEF SleepStep
<1>7. when'["lcd"] \in {when["lcd"], when["lcd"] - step}
  BY <1>5 DEF EventSet
<1>8. Sleeping'
  BY <1>2, <1>5, <1>6 DEF SInv, Sleeping, SetIRQ7
<1>9. Framed'
  <2>1. when'["lcd"] <= when["lcd"]
    BY <1>2, <1>4, <1>7, Measures
  <2>2. when'["lcd"] \in Int /\ when["lcd"] \in Int /\ goal = 0 /\ goal' = 0 /\ Line \in Nat
    <3>1. goal = 0 /\ goal' = 0
      BY <1>2, <1>5 DEF SInv, Framed
    <3> QED BY <1>2, <1>4, <1>7, <3>1, Measures
  <2>3. when'["lcd"] <= goal' + Line
    BY <2>1, <2>2 DEF SInv, Framed
  <2> QED BY <1>2, <1>5, <2>2, <2>3 DEF SInv, Framed, InSlice, Caught
<1>10. /\ Slept' = Slept /\ Lines' = Lines
  BY <1>5 DEF Slept, Lines
<1>11. CASE when["spu"] <= step
  <2>1. when'["spu"] = Period["spu"] /\ when["spu"] = step
    BY <1>2, <1>4, <1>5, <1>11, Measures DEF EventSet
  <2>2. samples' <= samples + 1 /\ samples' \in Nat /\ samples + 1 \in Nat
    <3>1. samples + 1 \in Nat /\ Room \in Nat
      BY <1>2, LoopAssumption DEF TypeOK
    <3>2. PICK m : m = Min({samples + 1, Room})
      OBVIOUS
    <3>3. PICK n \in Nat : n = samples + 1
      BY <3>1
    <3>4. m \in {n, Room} /\ m <= n
      <4>1. m = Min({n, Room})
        BY <3>2, <3>3
      <4>2. n \in Int /\ Room \in Int
        BY <3>1, <3>3
      <4> QED BY <4>1, <4>2, MinOfTwo
    <3>5. samples' = m
      BY <1>5, <1>11, <3>2
    <3> QED BY <3>1, <3>3, <3>4, <3>5
  <2>3. Played' <= Played + Period["spu"] /\ Played' \in Nat
    <3>1. samples \in Nat /\ Period["spu"] \in Nat
      BY <1>2, Measures DEF TypeOK
    <3>2. Lasting(samples + 1, Period["spu"]) = Lasting(samples, Period["spu"]) + Period["spu"]
      BY <3>1, LastingSteps
    <3>3. Lasting(samples', Period["spu"]) <= Lasting(samples + 1, Period["spu"])
      BY <2>2, <3>1, LastingSteps
    <3>4. Lasting(samples', Period["spu"]) \in Nat
      BY <2>2, <3>1, LastingSteps
    <3> QED BY <3>2, <3>3, <3>4 DEF Played
  <2>4. Covered'
    BY <1>2, <1>4, <1>5, <1>7, <1>10, <2>1, <2>3, Measures DEF SInv, Covered
  <2>5. Lines <= Lasting(NumLines, Line)
    BY <1>2, LinesBounds DEF SInv, Framed
  <2>6. Enough'
    BY <1>2, <1>3, <1>4, <1>10, <2>1, <2>3, <2>5, Measures, Limits DEF SInv, Covered, Enough
  <2> QED BY <1>8, <1>9, <2>4, <2>6 DEF SInv
<1>12. CASE ~(when["spu"] <= step)
  <2>1. when'["spu"] = when["spu"] - step /\ samples' = samples
    BY <1>2, <1>3, <1>4, <1>5, <1>12, Measures DEF EventSet
  <2>2. Played' = Played
    BY <2>1 DEF Played
  <2>3. Covered'
    BY <1>2, <1>4, <1>5, <1>7, <1>10, <2>1, <2>2, Measures DEF SInv, Covered
  <2>4. Enough'
    BY <1>10, <2>2 DEF SInv, Enough
  <2> QED BY <1>8, <1>9, <2>3, <2>4 DEF SInv
<1> QED BY <1>11, <1>12

LEMMA OutsideKeepsSamples ==
    IInv /\ SInv /\ (CallRunFrame \/ OpenLid \/ StartFrame \/ FallAsleep \/ BeginSlice \/ SleepStep
                     \/ EndSleep \/ Return) => SInv'
<1>1. ASSUME SInv, OpenLid PROVE SInv'
  <2>1. /\ pc = "frontend" /\ pc' = pc /\ SetIRQ7("wake")
        /\ UNCHANGED <<goal, when, mask, todo, vcount, ie7, left, total, samples, sleeps>>
    BY <1>1 DEF OpenLid, times, sched, call
  <2>2. Sleeping' /\ Framed'
    BY <1>1, <2>1 DEF SInv, Sleeping, Framed, SetIRQ7, InSlice, Caught
  <2> QED BY <1>1, <2>1, <2>2, QuietStep DEF SInv
<1>2. ASSUME SInv, BeginSlice PROVE SInv'
  <2>1. /\ pc = "slice" /\ pc' = "arm9"
        /\ UNCHANGED <<goal, when, mask, todo, vcount, ie7, asleep, wakeup, left, total, samples, sleeps>>
    BY <1>2 DEF BeginSlice, sched, cpus, stops, call
  <2>2. Sleeping' /\ Framed'
    BY <1>2, <2>1 DEF SInv, Sleeping, Framed, InSlice, Caught
  <2> QED BY <1>2, <2>1, <2>2, QuietStep DEF SInv
<1>3. ASSUME IInv, SInv, EndSleep PROVE SInv'
  <2>1. /\ pc = "sleep" /\ pc' = "bottom" /\ left' = 0
        /\ UNCHANGED <<goal, when, mask, todo, vcount, ie7, asleep, wakeup, samples, sleeps>>
    BY <1>3 DEF EndSleep, times, sched, cpus, stops
  <2>2. Sleeping' /\ Framed'
    BY <1>3, <2>1 DEF SInv, Sleeping, Framed, InSlice, Caught
  <2>3. Played' = Played /\ Lines' = Lines /\ Slept' = Slept /\ TypeOK
    BY <1>3, <2>1 DEF Played, Lines, Slept, IInv
  <2>4. Covered' /\ Enough'
    BY <1>3, <2>1, <2>3, Measures DEF SInv, Covered, Enough
  <2> QED BY <2>2, <2>4 DEF SInv
<1>4. ASSUME IInv, SInv, Return PROVE SInv'
  <2>1. /\ pc = "bottom"
        /\ IF total THEN pc' = "frontend" /\ samples' = 0 ELSE pc' = "top" /\ UNCHANGED samples
        /\ UNCHANGED <<goal, when, mask, todo, vcount, ie7, asleep, wakeup, left, total, sleeps>>
    BY <1>4 DEF Return, times, sched, cpus, stops
  <2>2. Sleeping' /\ Framed'
    BY <1>4, <2>1 DEF SInv, Sleeping, Framed, InSlice, Caught
  <2>3. Lines' = Lines /\ Slept' = Slept /\ TypeOK
    BY <1>4, <2>1 DEF Lines, Slept, IInv
  <2>4. Played' <= Played /\ Played' \in Nat
    <3>1. CASE total
      <4>1. Played' = 0
        BY <2>1, <3>1, Measures, LastingSteps, <2>3 DEF Played
      <4> QED BY <2>3, <4>1, Measures
    <3>2. CASE ~total
      <4>1. Played' = Played
        BY <2>1, <3>2 DEF Played
      <4> QED BY <2>3, <4>1, Measures
    <3> QED BY <3>1, <3>2
  <2>5. Covered' /\ Enough'
    BY <1>4, <2>1, <2>3, <2>4, Measures, Limits DEF SInv, Covered, Enough
  <2> QED BY <2>2, <2>5 DEF SInv
<1> QED
  BY <1>1, <1>2, <1>3, <1>4, CallKeepsSamples, StartKeepsSamples, FallKeepsSamples, SleepKeepsSamples

\* The CPUs let the clocks of sound and lines alone.
LEMMA ARM9KeepsSamples == IInv /\ SInv /\ (ARM9 \/ RunGeometry) => SInv'
<1> SUFFICES ASSUME IInv, SInv, ARM9 \/ RunGeometry PROVE SInv'
  OBVIOUS
<1>1. TypeOK /\ TypeOK'
  BY TypeStep DEF IInv, Next, Loop
<1> DEFINE Quiet == /\ when'["spu"] = when["spu"] /\ when'["lcd"] = when["lcd"]
                    /\ mask \subseteq mask'
                    /\ UNCHANGED <<vcount, ie7, asleep, wakeup, left, total, samples, sleeps>>
<1> USE DEF times, sched, cpus, stops, call
<1>2. CASE RunGeometry
  <2>1. Quiet /\ pc = "gpu" /\ pc' = "arm7" /\ goal' = arm9 \div 2
    BY <1>2 DEF RunGeometry
  <2>2. goal = 0 /\ goal' >= 0 /\ goal' \in Int
    <3>1. arm9 \in Int /\ arm9 >= 0
      BY <1>1, <2>1 DEF IInv, Caught, Ran9, TypeOK
    <3> QED BY <2>1, <3>1 DEF SInv, Framed
  <2>3. Sleeping'
    BY <2>1 DEF SInv, Sleeping
  <2>4. Framed'
    <3>1. when'["lcd"] <= goal' + Line
      BY <1>1, <2>1, <2>2, Measures DEF SInv, Framed
    <3> QED BY <2>1, <3>1 DEF SInv, Framed, Sleeping, InSlice, Caught
  <2> QED BY <2>1, <2>3, <2>4, QuietStep DEF SInv
<1>3. CASE ARM9
  <2>1. pc \in InSlice /\ ~asleep /\ ~wakeup
    BY <1>3 DEF ARM9, WaitForGeometry, RunDMA, Enter9, Exec9, Work9, StartDiv, Halt9, StartDMA,
                FillGeometry, Call7, InSlice, SInv, Sleeping
  <2>2. pc' \in InSlice \cup {"gpu"} /\ goal' = goal
    BY <1>3 DEF ARM9, WaitForGeometry, RunDMA, Enter9, Work9, StartDiv, Halt9, StartDMA,
                FillGeometry, Call7, InSlice, Spend9, Stop9
  <2>3. Quiet
    <3>1. CASE StartDiv
      BY <1>1, <3>1 DEF StartDiv, TypeOK, EventSet
    <3>2. CASE Call7
      BY <2>1, <3>2 DEF Call7, SetIRQ7
    <3> QED
      BY <1>3, <3>1, <3>2 DEF ARM9, WaitForGeometry, RunDMA, Enter9, Work9, Halt9, StartDMA, FillGeometry
  <2>4. Sleeping'
    BY <2>1, <2>2, <2>3 DEF SInv, Sleeping, InSlice
  <2>5. Framed'
    BY <2>1, <2>2, <2>3 DEF SInv, Framed, InSlice, Caught
  <2> QED BY <2>3, <2>4, <2>5, QuietStep DEF SInv
<1> QED BY <1>2, <1>3

\* The ARM7 may put the system to sleep, but not in a frame's last line.
LEMMA ARM7KeepsSamples == ASSUME SleepsInTime PROVE IInv /\ SInv /\ ARM7 => SInv'
<1> SUFFICES ASSUME IInv, SInv, ARM7 PROVE SInv'
  OBVIOUS
<1>1. TypeOK /\ TypeOK' /\ Needs
  BY TypeStep DEF IInv, Next, Loop
<1> USE DEF times, sched, cpus, stops, call
<1>2. pc \in {"arm7", "exec7"} /\ pc' \in {"arm7", "exec7", "system"}
  BY DEF ARM7, Enter7, Work7, StartSPI, Halt7, EnterSleepMode, Call9, Exec7, Spend7, Stop7
<1>3. ~total /\ ~wakeup /\ left = 0 /\ "lcd" \in mask
  BY <1>1, <1>2 DEF Needs, SInv, Sleeping, Framed, Caught
<1>4. /\ when'["spu"] = when["spu"] /\ when'["lcd"] = when["lcd"]
      /\ mask \subseteq mask' /\ goal' = goal
      /\ UNCHANGED <<vcount, wakeup, left, total, samples, sleeps>>
  <2>1. CASE StartSPI
    BY <1>1, <2>1 DEF StartSPI, TypeOK, EventSet
  <2> QED BY <2>1 DEF ARM7, Enter7, Work7, Halt7, EnterSleepMode, Call9
<1>5. /\ asleep' => ie7' = Wakers
      /\ asleep' /\ pc' # "system" => vcount + 1 < NumLines
      /\ pc' = "system" => asleep' = asleep /\ todo' = mask
  <2>1. CASE Enter7
    BY <1>2, <2>1 DEF Enter7, SInv, Sleeping, Framed
  <2>2. CASE Work7
    BY <1>2, <2>2 DEF Work7, Exec7, Spend7, SInv, Sleeping, Framed, SleepsInTime
  <2>3. CASE EnterSleepMode
    <3>1. /\ ie7' = Wakers /\ pc' = "arm7" /\ vcount \in SleepLines
      BY <2>3 DEF EnterSleepMode, Stop7
    <3>2. vcount + 1 < NumLines
      BY <1>1, <3>1, Measures DEF SleepsInTime, SInv, Framed, TypeOK
    <3> QED BY <3>1, <3>2
  <2>4. CASE StartSPI \/ Halt7 \/ Call9
    BY <1>2, <2>4 DEF StartSPI, Halt7, Call9, Exec7, Spend7, Stop7, SInv, Sleeping, Framed
  <2> QED BY <2>1, <2>2, <2>3, <2>4 DEF ARM7
<1>6. Sleeping'
  BY <1>2, <1>3, <1>4, <1>5 DEF Sleeping
<1>7. asleep /\ pc' = "system" => vcount + 1 < NumLines
  BY <1>2, <1>5 DEF SInv, Framed
<1>8. Framed'
  BY <1>2, <1>3, <1>4, <1>5, <1>7 DEF SInv, Framed, InSlice, Caught
<1> QED BY <1>4, <1>6, <1>8, QuietStep DEF SInv

\* Of the events, only a line and a sample move the clocks.
LEMMA QuietEvent ==
    ASSUME SInv, pc = "system", pc' = pc, goal' = goal, todo' \subseteq todo,
           when'["spu"] = when["spu"], when'["lcd"] = when["lcd"],
           "lcd" \in mask' <=> "lcd" \in mask,
           UNCHANGED <<vcount, ie7, asleep, wakeup, left, total, samples, sleeps>>
    PROVE  SInv'
<1>1. Sleeping' /\ Framed'
  BY DEF SInv, Sleeping, Framed, InSlice, Caught
<1> QED BY <1>1, QuietStep DEF SInv

LEMMA LineKeepsSamples == IInv /\ SInv /\ FireLCD => SInv'
<1> SUFFICES ASSUME IInv, SInv, FireLCD PROVE SInv'
  OBVIOUS
<1>1. /\ pc = "system" /\ pc' = pc /\ Due # {} /\ First = "lcd"
      /\ todo' = {f \in todo : Number(f) > Number("lcd")}
      /\ UNCHANGED <<goal, ie7, left, samples, sleeps>>
  BY DEF FireLCD, Firing, times
<1>2. TypeOK /\ TypeOK' /\ Needs
  BY TypeStep DEF IInv, Next, Loop, RunSystem
<1>3. "lcd" \in todo /\ when["lcd"] <= goal /\ "lcd" \in mask /\ ~total /\ ~wakeup
  BY <1>1, <1>2, FirstIsLeast DEF Due, Needs, SInv, Framed, Sleeping
<1>4. "lcd" \notin todo'
  BY <1>1, <1>2, Numbers DEF EventSet
<1>5. CASE /\ vcount + 1 < NumLines /\ vcount' = vcount + 1
           /\ LET fifo == "fifo" \in game /\ "fifo" \notin mask IN
                /\ when' = [when EXCEPT !["lcd"] = @ + Line,
                                        !["fifo"] = IF fifo THEN arm7 + Delay["fifo"] ELSE @]
                /\ mask' = IF fifo THEN mask \cup {"fifo"} ELSE mask
           /\ SetIRQ7("line")
           /\ UNCHANGED total
  <2>1. when'["lcd"] = when["lcd"] + Line /\ when'["spu"] = when["spu"] /\ "lcd" \in mask'
    BY <1>2, <1>3, <1>5 DEF TypeOK, EventSet
  <2>2. UNCHANGED <<asleep, wakeup>>
    BY <1>5 DEF SetIRQ7, SInv, Sleeping, Wakers
  <2>3. Sleeping'
    BY <1>1, <2>2 DEF SInv, Sleeping
  <2>4. Framed'
    <3>1. vcount' + 1 <= NumLines /\ when'["lcd"] <= goal' + Line
      BY <1>1, <1>2, <1>3, <1>5, <2>1, Measures DEF TypeOK
    <3> QED BY <1>1, <1>3, <1>4, <1>5, <2>1, <2>2, <3>1 DEF SInv, Framed, InSlice, Caught
  <2>5. Lines' = Lines + Line /\ Played' = Played /\ Slept' = Slept
    <3>1. vcount + 1 \in Nat /\ Line \in Nat
      BY <1>2, Measures DEF TypeOK
    <3>2. PICK n \in Nat : n = vcount + 1
      BY <3>1
    <3>3. Lasting(n + 1, Line) = Lasting(n, Line) + Line
      BY <3>1, LastingSteps
    <3>4. vcount' + 1 = n + 1
      BY <1>5, <3>2
    <3> QED BY <1>1, <3>2, <3>3, <3>4 DEF Lines, Played, Slept
  <2>6. Covered' /\ Enough'
    BY <1>1, <1>2, <2>1, <2>5, Measures DEF SInv, Covered, Enough
  <2> QED BY <2>3, <2>4, <2>6 DEF SInv
<1>6. CASE /\ vcount + 1 = NumLines /\ mask' = mask \ {"lcd"} /\ total' = TRUE
           /\ NoIRQ /\ UNCHANGED <<when, vcount>>
  <2>1. ~asleep /\ UNCHANGED <<asleep, wakeup>>
    BY <1>1, <1>2, <1>3, <1>6, Measures DEF NoIRQ, SInv, Framed, TypeOK
  <2>2. Sleeping'
    BY <1>1, <2>1 DEF SInv, Sleeping
  <2>3. Framed'
    BY <1>1, <1>3, <1>4, <1>6, <2>1 DEF SInv, Framed, InSlice, Caught
  <2>4. Covered' /\ Enough'
    BY <1>1, <1>6, QuietStep DEF SInv
  <2> QED BY <2>2, <2>3, <2>4 DEF SInv
<1> QED BY <1>5, <1>6 DEF FireLCD

LEMMA SampleKeepsSamples == IInv /\ SInv /\ FireSPU => SInv'
<1> SUFFICES ASSUME IInv, SInv, FireSPU PROVE SInv'
  OBVIOUS
<1>1. /\ pc = "system" /\ pc' = pc /\ Due # {} /\ First = "spu" /\ todo' \subseteq todo
      /\ when' = Again("spu") /\ samples' = Min({samples + 1, Room})
      /\ UNCHANGED <<goal, mask, vcount, ie7, asleep, wakeup, left, total, sleeps>>
  BY DEF FireSPU, Firing, NoIRQ, times
<1>2. TypeOK /\ TypeOK' /\ Needs /\ Ran9 /\ CaughtUp
  BY <1>1, TypeStep DEF IInv, Caught, Next, Loop, RunSystem
<1>3. when["spu"] <= goal
  BY <1>1, <1>2, FirstIsLeast DEF Due
<1>4. when'["spu"] = when["spu"] + Period["spu"] /\ when'["lcd"] = when["lcd"]
  BY <1>1, <1>2 DEF Again, TypeOK, EventSet
<1>5. Sleeping' /\ Framed'
  BY <1>1, <1>4 DEF SInv, Sleeping, Framed, InSlice, Caught
<1>6. Played' <= Played + Period["spu"] /\ Played' \in Nat
  <2>1. PICK n \in Nat : n = samples + 1
    BY <1>2 DEF TypeOK
  <2>2. samples \in Nat /\ samples' \in Nat /\ Period["spu"] \in Nat /\ Room \in Nat /\ n \in Int
    BY <1>2, Measures, LoopAssumption DEF TypeOK
  <2>3. samples' = Min({n, Room})
    BY <1>1, <2>1
  <2>4. samples' <= n
    <3>1. n \in Int /\ Room \in Int
      BY <2>2
    <3>2. Min({n, Room}) <= n
      BY <3>1, MinOfTwo
    <3> QED BY <2>3, <3>2
  <2>5. Lasting(samples', Period["spu"]) <= Lasting(n, Period["spu"])
    BY <2>2, <2>4, LastingSteps
  <2>6. Lasting(n, Period["spu"]) = Lasting(samples, Period["spu"]) + Period["spu"]
    BY <2>1, <2>2, LastingSteps
  <2>7. Lasting(samples', Period["spu"]) \in Nat
    BY <2>2, LastingSteps
  <2> QED BY <2>5, <2>6, <2>7 DEF Played
<1>7. Lines' = Lines /\ Slept' = Slept /\ left' = left
  BY <1>1 DEF Lines, Slept
<1>8. Covered'
  BY <1>2, <1>4, <1>6, <1>7, Measures DEF SInv, Covered
<1>9. Lines <= Lasting(NumLines, Line)
  BY <1>2, LinesBounds DEF SInv, Framed
<1>10. 2 * (when["spu"] - when["lcd"]) <= Past9
  <2>1. arm9 \in Int /\ goal \in Int /\ 2 * goal <= arm9
    BY <1>2 DEF TypeOK, CaughtUp
  <2>2. arm9 - 2 * when["lcd"] <= Past9
    BY <1>1, <1>2 DEF SInv, Framed, Ran9, Caught
  <2> QED BY <1>2, <1>3, <2>1, <2>2, Measures, Limits
<1>11. Enough'
  BY <1>2, <1>6, <1>7, <1>9, <1>10, Measures, Limits DEF SInv, Covered, Enough
<1> QED BY <1>5, <1>8, <1>11 DEF SInv

LEMMA EndKeepsSamples == IInv /\ SInv /\ EndSlice => SInv'
<1> SUFFICES ASSUME IInv, SInv, EndSlice PROVE SInv'
  OBVIOUS
<1>1. /\ pc = "system" /\ pc' = (IF asleep \/ total THEN "bottom" ELSE "slice") /\ goal' = 0
      /\ when' = [e \in EventSet |-> IF Ahead(e) THEN when[e] - goal ELSE 0]
      /\ UNCHANGED <<mask, vcount, ie7, asleep, wakeup, left, total, samples, sleeps>>
  BY DEF EndSlice, cpus, stops, call
<1>2. TypeOK /\ TypeOK' /\ Needs /\ goal \in Int
  BY <1>1, TypeStep DEF IInv, Next, Loop, RunSystem, TypeOK
<1>3. Ahead("spu") /\ Ahead("lcd")
  BY <1>1, <1>2 DEF Ahead, Needs, SInv, Framed, Caught
<1>4. when'["spu"] = when["spu"] - goal /\ when'["lcd"] = when["lcd"] - goal
  BY <1>1, <1>3 DEF EventSet
<1>5. Sleeping'
  BY <1>1 DEF SInv, Sleeping
<1>6. Framed'
  <2>1. when'["lcd"] <= goal' + Line /\ (when["lcd"] <= goal => when'["lcd"] <= 0)
    BY <1>1, <1>2, <1>4, Measures DEF SInv, Framed
  <2> QED BY <1>1, <2>1 DEF SInv, Framed, Sleeping, InSlice, Caught
<1>7. Played' = Played /\ Lines' = Lines /\ Slept' = Slept /\ left' = left
  BY <1>1 DEF Played, Lines, Slept
<1>8. Covered' /\ Enough'
  BY <1>2, <1>4, <1>7, Measures DEF SInv, Covered, Enough
<1> QED BY <1>5, <1>6, <1>8 DEF SInv

LEMMA SystemKeepsSamples == ASSUME SleepsInTime PROVE IInv /\ SInv /\ RunSystem => SInv'
<1> SUFFICES ASSUME IInv, SInv, RunSystem PROVE SInv'
  OBVIOUS
<1>1. TypeOK
  BY DEF IInv
<1>2. CASE FireRTC
  <2>1. /\ pc = "system" /\ pc' = pc /\ goal' = goal /\ todo' \subseteq todo
        /\ when' = Again("rtc")
        /\ UNCHANGED <<mask, vcount, ie7, left, total, samples, sleeps>>
    BY <1>2 DEF FireRTC, Firing, times
  <2>2. UNCHANGED <<asleep, wakeup>>
    BY <1>2 DEF FireRTC, SetIRQ7, SleepsInTime
  <2>3. when'["spu"] = when["spu"] /\ when'["lcd"] = when["lcd"]
    BY <1>1, <2>1 DEF Again, TypeOK, EventSet
  <2> QED BY <2>1, <2>2, <2>3, QuietEvent
<1>3. CASE FireFIFO
  <2>1. /\ pc = "system" /\ pc' = pc /\ goal' = goal /\ todo' \subseteq todo
        /\ when' = Again("fifo") \/ when' = when
        /\ mask' = mask \/ mask' = mask \ {"fifo"}
        /\ UNCHANGED <<vcount, ie7, asleep, wakeup, left, total, samples, sleeps>>
    BY <1>3 DEF FireFIFO, Firing, times, NoIRQ
  <2>2. when'["spu"] = when["spu"] /\ when'["lcd"] = when["lcd"] /\ ("lcd" \in mask' <=> "lcd" \in mask)
    BY <1>1, <2>1 DEF Again, TypeOK, EventSet
  <2> QED BY <2>1, <2>2, QuietEvent
<1>4. ASSUME NEW e \in {"spi", "div"}, FireOnce(e) PROVE SInv'
  <2>1. /\ pc = "system" /\ pc' = pc /\ goal' = goal /\ todo' \subseteq todo
        /\ UNCHANGED <<when, vcount, ie7, left, total, samples, sleeps>>
        /\ ("lcd" \in mask' <=> "lcd" \in mask)
    BY <1>4 DEF FireOnce, Firing, times
  <2>2. UNCHANGED <<asleep, wakeup>>
    BY <1>4 DEF FireOnce, SetIRQ7, SInv, Sleeping, Wakers
  <2> QED BY <2>1, <2>2, QuietEvent
<1> QED
  BY <1>2, <1>3, <1>4, LineKeepsSamples, SampleKeepsSamples, EndKeepsSamples DEF RunSystem

LEMMA StepSInv == ASSUME SleepsInTime PROVE IInv /\ SInv /\ [Next]_vars => SInv'
<1>1. SInv /\ UNCHANGED vars => SInv'
  <2> SUFFICES ASSUME SInv, UNCHANGED vars PROVE SInv'
    OBVIOUS
  <2>1. UNCHANGED <<goal, when, mask, todo, vcount, ie7, asleep, wakeup, left, total, samples,
                    sleeps, pc>>
    BY DEF vars, times, sched, cpus, stops, call
  <2> QED BY <2>1, QuietStep DEF SInv, Sleeping, Framed
<1>2. IInv /\ SInv /\ Next => SInv'
  BY OutsideKeepsSamples, ARM9KeepsSamples, ARM7KeepsSamples, SystemKeepsSamples DEF Next, Loop
<1> QED BY <1>1, <1>2

\* A call of RunFrame leaves no more samples in the back buffer than its frame has, and a
\* frame's worth for each of its sleeps: of games that sleep at the loop's pace, and not
\* in the last line.
THEOREM FrameSamples ==
    ASSUME FifoKeepsUp, SleepsInTime PROVE Spec => []SamplesOfACall
<1>1. IInv /\ SInv => SamplesOfACall
  BY EnoughMeans DEF IInv, SInv
<1> QED
  BY <1>1, InitSInv, StepSInv, FrameInv, PTL DEF Spec
=============================================================================
