------------------------------ MODULE MCCanTp ------------------------------
(* CanTp with sequence numbers modulo 2 and messages of up to three frames.  *)
EXTENDS CanTp

\* No block size; blocks of one frame with a minimum gap; wait; overflow.
MCGrants == {[fs |-> "CTS", bs |-> 0, stmin |-> 0],
             [fs |-> "CTS", bs |-> 1, stmin |-> 1],
             [fs |-> "WT", bs |-> 1, stmin |-> 0],
             [fs |-> "OVFLW", bs |-> 0, stmin |-> 0]}

\* A tester that grants blocks of one frame and never waits.
MCBlocks == {[fs |-> "CTS", bs |-> 1, stmin |-> 1]}

\* A tester that grants the response whole or in blocks, and never waits.
MCWholeOrBlocks == MCBlocks \cup {[fs |-> "CTS", bs |-> 0, stmin |-> 0]}
=============================================================================
