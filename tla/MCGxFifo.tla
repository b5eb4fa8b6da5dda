------------------------------ MODULE MCGxFifo ------------------------------
(***************************************************************************)
(* A small FIFO for GxFifo: words of two commands, one without parameters, *)
(* one with one and one with two, and buffers of three, two and four.      *)
(***************************************************************************)
EXTENDS GxFifo

MCCommand == {"nop", "push", "test", "swap"}
MCParams  == [c \in MCCommand |-> CASE c = "test" -> 2 [] c = "swap" -> 1 [] OTHER -> 0]
MCWords   == {<<"push", "push">>, <<"test", "nop">>}
=============================================================================
