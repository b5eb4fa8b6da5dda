------------------------------ MODULE GxQueue ------------------------------
(***************************************************************************)
(* What the geometry engine's command FIFO promises a game: a queue.  The  *)
(* entries come out in the order in which they went in, every one once;    *)
(* the game is held up while more than Most of them wait, never while no   *)
(* more than Least do, and as long as there are any the engine goes on.    *)
(***************************************************************************)
EXTENDS Naturals, Sequences

CONSTANTS Entry, Least, Most

VARIABLES queue, waiting
vars == <<queue, waiting>>

Fits(q, w) ==
    /\ w => Len(q) > Least
    /\ Len(q) > Most => w

Init == queue = <<>> /\ waiting = FALSE

Put(e) ==
    /\ queue' = Append(queue, e)
    /\ waiting' \in BOOLEAN /\ Fits(queue', waiting')

Take ==
    /\ queue # <<>>
    /\ queue' = Tail(queue)
    /\ waiting' \in BOOLEAN /\ Fits(queue', waiting')

Next == (\E e \in Entry : Put(e)) \/ Take

Spec == Init /\ [][Next]_vars /\ WF_vars(Take)
=============================================================================
