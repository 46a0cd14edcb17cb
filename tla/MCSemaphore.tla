----------------------------- MODULE MCSemaphore -----------------------------
(***************************************************************************)
(* Semaphore: three users of one semaphore, c more urgent than a and b.    *)
(***************************************************************************)
EXTENDS Semaphore, TLC

CONSTANTS a, b, c

MCInitPrio == (a :> 1) @@ (b :> 1) @@ (c :> 0) @@ (Idle :> 2)
MCBoot == (0 :> <<c>>) @@ (1 :> <<a, b>>) @@ (2 :> <<Idle>>)

MCWaitQueue == {Sem}
=============================================================================
