---------------------------- MODULE MCFrameLoop ----------------------------
(***************************************************************************)
(* Small clocks for FrameLoop.  The proportions are the source's: a slice  *)
(* is shorter than a line, a DisplayFIFO piece shorter than the longest    *)
(* instruction, and a line longer than both.                               *)
(***************************************************************************)
EXTENDS FrameLoop

MCPeriod == [spu |-> 3, rtc |-> 6, fifo |-> 1]
MCDelay  == [fifo |-> 1, spi |-> 2, div |-> 1]
MCGames  == {{"fifo", "dma"}, {"div", "spi"}, {"geometry", "dma"}, {"sleep"}}
MCSleepers == {{"sleep"}}
=============================================================================
