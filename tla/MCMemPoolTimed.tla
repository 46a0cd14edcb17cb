--------------------------- MODULE MCMemPoolTimed ---------------------------
(* A pool whose allocations have time-outs, used by three threads. *)
EXTENDS MemPool, TLC

CONSTANTS th1, th2, th3, idle, blk1, blk2, in, out

MCBoot ==
  [ prio  |-> (th1 :> 0) @@ (th2 :> 1) @@ (th3 :> 1) @@ (idle :> 2),
    lists |-> (0 :> <<th1>>) @@ (1 :> <<th2, th3>>) @@ (2 :> <<idle>>) ]

MCWaitQueue == {in, out}
MCUses == {{th1, th2, th3} \X BOOLEAN}

(* The variables of Calls that a pool does not have *)
MCUnused == <<mail, entry, last>>
MCInit == MpInit /\ mail = Null /\ entry = Null /\ last = Null
MCNext == MpNext /\ UNCHANGED MCUnused
MCSpec == MCInit /\ [][MCNext]_<<mpVars, MCUnused>>
=============================================================================
