----------------------------- MODULE LedShapes -----------------------------
(* Sequences in the shapes of ledseq.c (30-69): seq_power_on, seq_error    *)
(* and seq_alwayson.                                                       *)
On     == [action |-> "wait", value |-> TRUE]
Off    == [action |-> "wait", value |-> FALSE]
End(v) == [action |-> "stop", value |-> v]
Again  == [action |-> "loop", value |-> FALSE]

ThreeShapes == << <<On, End(TRUE)>>, <<On, Off, Again>>, <<On, Again>> >>
TwoShapes   == << <<On, End(TRUE)>>, <<On, Again>> >>
=============================================================================
