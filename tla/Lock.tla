-------------------------------- MODULE Lock --------------------------------
(***************************************************************************)
(* What a mutex promises: a thread that has it may take it again, everyone *)
(* else waits, and a mutex given up while threads wait goes to one of them *)
(* at once, never to a thread that comes later.                            *)
(***************************************************************************)
EXTENDS Naturals

CONSTANTS User, Lockable, Nobody

VARIABLES holder, depth, waiting

lockVars == <<holder, depth, waiting>>

LockInit ==
  /\ holder = [m \in Lockable |-> Nobody]
  /\ depth = [m \in Lockable |-> 0]
  /\ waiting = [m \in Lockable |-> {}]

Acquire(t, m) ==
  /\ holder[m] \in {Nobody, t}
  /\ holder' = [holder EXCEPT ![m] = t]
  /\ depth' = [depth EXCEPT ![m] = @ + 1]
  /\ UNCHANGED waiting

Queue(t, m) ==
  /\ holder[m] \notin {Nobody, t}
  /\ waiting' = [waiting EXCEPT ![m] = @ \cup {t}]
  /\ UNCHANGED <<holder, depth>>

GiveUp(t, m) ==
  /\ t \in waiting[m]
  /\ waiting' = [waiting EXCEPT ![m] = @ \ {t}]
  /\ UNCHANGED <<holder, depth>>

Leave(t, m) ==
  /\ holder[m] = t /\ depth[m] > 1
  /\ depth' = [depth EXCEPT ![m] = @ - 1]
  /\ UNCHANGED <<holder, waiting>>

Free(t, m) ==
  /\ holder[m] = t /\ depth[m] = 1 /\ waiting[m] = {}
  /\ holder' = [holder EXCEPT ![m] = Nobody]
  /\ depth' = [depth EXCEPT ![m] = 0]
  /\ UNCHANGED waiting

Pass(t, m, u) ==
  /\ holder[m] = t /\ depth[m] = 1 /\ u \in waiting[m]
  /\ holder' = [holder EXCEPT ![m] = u]
  /\ waiting' = [waiting EXCEPT ![m] = @ \ {u}]
  /\ UNCHANGED depth

LockNext ==
  \E t \in User, m \in Lockable :
    \/ Acquire(t, m) \/ Queue(t, m) \/ GiveUp(t, m) \/ Leave(t, m) \/ Free(t, m)
    \/ \E u \in User : Pass(t, m, u)

LockSpec == LockInit /\ [][LockNext]_lockVars
=============================================================================
