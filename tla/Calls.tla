-------------------------------- MODULE Calls --------------------------------
(***************************************************************************)
(* What the calls of the objects threads exchange things through have in   *)
(* common: the thread that executes, where each thread is in its call, the *)
(* wake-ups that end a transfer, and the timer interrupts.  An object is a *)
(* module that extends this one; it has one or two wait lists.             *)
(***************************************************************************)
EXTENDS KernelOps

CONSTANTS
  Receivers, Senders,   \* the wait lists; an object with one list has Receivers
  Null                  \* RT_NULL

CallsAssumption ==
  /\ WaitQueue = {Receivers, Senders} /\ Receivers # Senders
  /\ Idle \in Thread

VARIABLES
  k, pc,
  timed,      \* the threads whose wait has a time-out
  mail,       \* what a thread is sending
  entry,      \* mb->entry, mq->entry
  last        \* history: what was received last, see BoundedFifo

-----------------------------------------------------------------------------
(* How the threads were started: b.prio their priorities, b.lists the      *)
(* ready lists.  The idle thread is in one; a thread in none is created    *)
(* and not started.                                                        *)
StartOK(b) == BootLists(b.prio, b.lists) /\ IsIn(b.lists[b.prio[Idle]], Idle)

Started(b) ==
  /\ k = [Booted(b.prio, b.lists) EXCEPT
            !.stat = [t \in Thread |->
                        IF IsIn(b.lists[b.prio[t]], t) THEN "READY" ELSE "INIT"]]
  /\ pc = [t \in Thread |-> "app"]

Me == k.cur
At(a) == pc[Me] = a
Go(b) == pc' = [pc EXCEPT ![Me] = b]

(* The local timeout of a call: negative without a time-out *)
Patience(isTimed) == timed' = IF isTimed THEN timed \cup {Me} ELSE timed \ {Me}

(* A transfer is done: the first thread waiting for it on the other side   *)
(* is woken, and then the scheduler runs.                                  *)
Wake(q) ==
  IF Waiters(k, q) # <<>>
  THEN k' = ListResume(k, q) /\ Go("call_sched")
  ELSE UNCHANGED k /\ Go("app")

(* The same in an interrupt handler, or with interrupts still disabled *)
ResumeOne(q) == IF Waiters(k, q) # <<>> THEN Schedule(ListResume(k, q)) ELSE k

(* The rt_schedule() of a return *)
CallSchedule == At("call_sched") /\ Go("app") /\ k' = Schedule(k)

(* The tick interrupt: a time slice ends, the timer of a thread expires *)
TickYield == k' = Yield(k) /\ UNCHANGED pc

TickTimeout(t) == t \in k.armed /\ k' = Timeout(k, t) /\ UNCHANGED pc

Tick == TickYield \/ \E t \in Thread : TickTimeout(t)

(* Threads a transfer has woken and that have not tested the object again. *)
Woken(calls, q) ==
  {t \in Thread : pc[t] \in calls /\ ~IsIn(Waiters(k, q), t) /\ k.err[t] = "EOK"}

-----------------------------------------------------------------------------
(* The nodes of S from pointer p on, following nx, and the pointer at the  *)
(* end: a path of at most Cardinality(S) nodes                             *)
ChainOf(S, nx, p) ==
  LET path[n \in 0 .. Cardinality(S)] ==
        IF n = 0 THEN <<p>>
        ELSE LET s == path[n - 1]
                 b == s[Len(s)]
             IN  IF b \in S THEN Append(s, nx[b]) ELSE s
  IN  path[Cardinality(S)]

(* All nodes of S are linked through nx, in some order, from first on.     *)
LinkedAll(S, first, nx) ==
  \E s \in [1 .. Cardinality(S) -> S] :
    /\ \A i, j \in DOMAIN s : s[i] = s[j] => i = j
    /\ first = s[1]
    /\ \A i \in DOMAIN s : nx[s[i]] = IF i = Cardinality(S) THEN Null ELSE s[i + 1]
=============================================================================
