----------------------------- MODULE SoundQueue -----------------------------
(***************************************************************************)
(* What the buffers of sound promise (the worklet's ring and the fallback  *)
(* queue of webmelon-sdk/webmelon.js): a queue of at most Cap samples.     *)
(* When it is full, the worklet lets go of all but the newest Target, once *)
(* it has taken what fitted; the fallback of no more than the oldest.      *)
(***************************************************************************)
EXTENDS Naturals, Sequences

CONSTANTS
    Cap, Target, Batch, Quantum,
    MaxSamples   \* as in AudioPath

VARIABLE queue

Frames == {[i \in 1..n |-> m + i] : n \in 1..Batch, m \in 0..MaxSamples}

Newest(s, n) == SubSeq(s, Len(s) - n + 1, Len(s))

Init == queue = << >>

\* The newest are those that came before the ring was full.
AddAndTrim(batch) ==
    LET all == queue \o batch
    IN  queue' = IF Len(all) < Cap THEN all ELSE Newest(SubSeq(all, 1, Cap), Target)

AddMakingRoom(batch) ==
    LET all == queue \o batch
    IN  queue' = IF Len(all) <= Cap THEN all ELSE Newest(all, Cap)

\* The speaker takes a quantum, or what there is.
Take ==
    \E n \in 0..Quantum :
        /\ n = Quantum \/ n = Len(queue)
        /\ n <= Len(queue)
        /\ queue' = SubSeq(queue, n + 1, Len(queue))

\* The game is over: nothing is left, or silence of the same length.
Clear   == queue' = << >>
Silence == queue' = [i \in DOMAIN queue |-> 0]

Next ==
    \/ \E batch \in Frames : AddAndTrim(batch) \/ AddMakingRoom(batch)
    \/ Take \/ Clear \/ Silence

Spec == Init /\ [][Next]_queue
=============================================================================
