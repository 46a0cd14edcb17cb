------------------------------ MODULE MCLedSeq ------------------------------
(* A thread and the timer thread, which may preempt it anywhere, with two  *)
(* sequences.                                                              *)
EXTENDS LedSeq, LedShapes

CONSTANT c

OneCaller == <<c>>
UsesAll   == [x \in App |-> Seqs]
=============================================================================
