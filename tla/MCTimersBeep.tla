---------------------------- MODULE MCTimersBeep ----------------------------
(* The soft timers of beep.c: tone is periodic and toggles the pin every    *)
(* tick; after off has expired, once, its timeout function stops tone.      *)
EXTENDS Timers

CONSTANTS tone, off, sleep

MCInitTicks == [x \in Timer |-> IF x = off THEN {2} ELSE {1}]
MCAppOp == {"start"} \X {tone, off}
MCCallbackOp == {<<off, "stop", tone>>}
=============================================================================
