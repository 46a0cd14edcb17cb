------------------------------ MODULE KernelOps ------------------------------
(***************************************************************************)
(* The thread and scheduler layer of the RT-Thread kernel (thread.c,       *)
(* scheduler.c and the wait-list helpers of ipc.c) as operators on a       *)
(* record k, the part of the kernel's memory these functions share:        *)
(*                                                                         *)
(*   stat    thread->stat                                                  *)
(*   prio    thread->current_priority (a smaller number is more urgent)    *)
(*   lists   every list a thread's tlist node can be linked in: one ready  *)
(*           list for each priority, the wait list of each IPC object, and *)
(*           the list of defunct threads                                   *)
(*   group   rt_thread_ready_priority_group, the set of its bits           *)
(*   cur     rt_current_thread                                             *)
(*   nest    rt_scheduler_lock_nest                                        *)
(*   err     thread->error                                                 *)
(*   armed   the threads whose thread_timer is in the hard timer list      *)
(*                                                                         *)
(* An operator stands for one function called with interrupts disabled, so *)
(* that calls compose as they do in C.  The modules that have a behaviour  *)
(* keep such a record in a variable and decide where interrupts are        *)
(* enabled between two calls.                                              *)
(*                                                                         *)
(* The tick at which a thread's timer expires is abstracted: an armed      *)
(* timer may expire at any tick.                                           *)
(***************************************************************************)
EXTENDS Naturals, Sequences, FiniteSets, Lists

CONSTANTS
  Thread,      \* the threads
  Prio,        \* the priorities in use, a subset of 0 .. 31
  WaitQueue,   \* the suspend_thread lists of the IPC objects
  Idle         \* the idle thread, which never blocks

ASSUME PrioAssumption == Prio \subseteq Nat

Stat  == {"INIT", "READY", "SUSPEND", "CLOSE"}
Error == {"EOK", "ERROR", "ETIMEOUT"}

(* The heads of the lists a tlist node can be in. *)
Ready(p) == <<"ready", p>>
Wait(q)  == <<"wait", q>>
Defunct  == <<"defunct", "threads">>

ReadyLists == {Ready(p) : p \in Prio}
ListHeads  == ReadyLists \cup {Wait(q) : q \in WaitQueue} \cup {Defunct}

Kernel ==
  [ stat  : [Thread -> Stat],
    prio  : [Thread -> Prio],
    lists : [ListHeads -> Seq(Thread)],
    group : SUBSET Prio,
    cur   : Thread,
    nest  : Nat,
    err   : [Thread -> Error],
    armed : SUBSET Thread ]

-----------------------------------------------------------------------------
(* rt_list_remove(&t->tlist): the node leaves the list it is in, if any. *)
ListRemove(k, t) ==
  [k EXCEPT !.lists = [h \in ListHeads |-> Drop(k.lists[h], t)]]

(* rt_list_insert_before(head, &t->tlist) and rt_list_insert_after *)
InsertLast(k, h, t)  == [k EXCEPT !.lists[h] = Append(@, t)]
InsertFirst(k, h, t) == [k EXCEPT !.lists[h] = <<t>> \o @]

-----------------------------------------------------------------------------
(* scheduler.c *)

(* The thread rt_schedule picks: the head of the ready list of the lowest  *)
(* bit set (__rt_ffs).                                                     *)
Highest(k) == k.lists[Ready(LeastOf(k.group))][1]

Schedule(k) == IF k.nest = 0 THEN [k EXCEPT !.cur = Highest(k)] ELSE k

InsertReady(k, t) ==
  [InsertLast(k, Ready(k.prio[t]), t) EXCEPT
     !.stat[t] = "READY",
     !.group   = @ \cup {k.prio[t]}]

RemoveReady(k, t) ==
  LET u == ListRemove(k, t)
  IN  [u EXCEPT !.group = IF u.lists[Ready(k.prio[t])] = <<>>
                          THEN @ \ {k.prio[t]} ELSE @]

-----------------------------------------------------------------------------
(* thread.c *)

(* rt_timer_stop and rt_timer_detach on the thread's own timer *)
TimerStop(k, t)  == [k EXCEPT !.armed = @ \ {t}]
TimerStart(k, t) == [k EXCEPT !.armed = @ \cup {t}]

(* thread->error = e *)
WithError(k, t, e) == [k EXCEPT !.err[t] = e]

(* rt_thread_suspend from the check on; a thread that is not READY is left *)
(* as it is.                                                               *)
Suspend(k, t) ==
  IF k.stat[t] = "READY"
  THEN TimerStop(RemoveReady([k EXCEPT !.stat[t] = "SUSPEND"], t), t)
  ELSE k

(* The two interrupt-disabled regions of rt_thread_resume, and the whole   *)
(* call when the caller has interrupts disabled.                           *)
ResumeUnlinkArmed(k, t)  == ListRemove(k, t)    \* mutant: the timer keeps running
ResumeUnlink(k, t) == TimerStop(ListRemove(k, t), t)

Resume(k, t) ==
  IF k.stat[t] = "SUSPEND" THEN InsertReady(ResumeUnlink(k, t), t) ELSE k

(* rt_timer_check expiring the timer of t: the timer leaves the list, then *)
(* rt_thread_timeout runs in the tick interrupt.                           *)
TimeoutLinked(k, t) ==     \* mutant: the thread stays in the wait list
  Schedule(InsertReady(TimerStop(WithError(k, t, "ETIMEOUT"), t), t))
TimeoutArmed(k, t) ==      \* mutant: the timer stays in its list
  Schedule(InsertReady(ListRemove(WithError(k, t, "ETIMEOUT"), t), t))
TimeoutUnready(k, t) ==    \* mutant: the thread is not made READY
  Schedule(ListRemove(TimerStop(WithError(k, t, "ETIMEOUT"), t), t))
Timeout(k, t) ==
  Schedule(InsertReady(
    ListRemove(TimerStop(WithError(k, t, "ETIMEOUT"), t), t), t))

(* rt_thread_yield: a thread alone in its ready list keeps the processor. *)
YieldStay(k) == Schedule(k)      \* mutant: not put at the end of its list
Yield(k) ==
  LET t == k.cur
      h == Ready(k.prio[t])
  IN  IF k.stat[t] = "READY" /\ Len(k.lists[h]) > 1
      THEN Schedule(InsertLast(ListRemove(k, t), h, t))
      ELSE k

(* rt_thread_control with RT_THREAD_CTRL_CHANGE_PRIORITY *)
ChangePriority(k, t, p) ==
  IF k.stat[t] = "READY"
  THEN InsertReady([RemoveReady(k, t) EXCEPT !.prio[t] = p], t)
  ELSE [k EXCEPT !.prio[t] = p]

-----------------------------------------------------------------------------
(* The wait lists of ipc.c *)

(* Where rt_ipc_list_suspend links a thread of priority p in list s:       *)
(* before the first thread that is less urgent, or last.                   *)
PrioPosition(k, s, p) ==
  LeastOf({i \in 1 .. Len(s) + 1 : i = Len(s) + 1 \/ p < k.prio[s[i]]})

(* rt_ipc_list_suspend *)
ListSuspend(k, q, t, flag) ==
  LET u == Suspend(k, t)
      s == u.lists[Wait(q)]
  IN  IF flag = "PRIO"
      THEN [u EXCEPT !.lists[Wait(q)] = LinkIn(s, PrioPosition(u, s, u.prio[t]), t)]
      ELSE InsertLast(u, Wait(q), t)

Waiters(k, q) == k.lists[Wait(q)]

(* rt_ipc_list_resume: wakes the first waiter *)
ListResume(k, q) == Resume(k, Waiters(k, q)[1])

(* The suspend path every blocking call of ipc.c and mempool.c shares: the *)
(* error code is reset, the thread is queued and, for a finite wait, its   *)
(* timer is started.                                                       *)
Block(k, q, t, flag, timed) ==
  LET u == ListSuspend(WithError(k, t, "EOK"), q, t, flag)
  IN  IF timed THEN TimerStart(u, t) ELSE u

(* One turn of the loop of rt_ipc_list_resume_all *)
ResumeFirstWithError(k, q) ==
  LET t == Waiters(k, q)[1]
  IN  Resume(WithError(k, t, "ERROR"), t)

(* rt_ipc_list_resume_all with interrupts disabled by its caller *)
ResumeAllWithError(k, q) ==
  LET n == Len(Waiters(k, q))
      after[i \in 0 .. n] == IF i = 0 THEN k ELSE ResumeFirstWithError(after[i - 1], q)
  IN  after[n]

-----------------------------------------------------------------------------
(* The kernel once the threads of application.c have been started and      *)
(* rt_system_scheduler_start has picked the first one: boot[p] is the      *)
(* order in which the threads of priority p were started.                  *)
Booted(prio, boot) ==
  LET group == {p \in Prio : boot[p] # <<>>}
  IN  [ stat  |-> [t \in Thread |-> "READY"],
        prio  |-> prio,
        lists |-> [h \in ListHeads |-> IF h[1] = "ready" THEN boot[h[2]] ELSE <<>>],
        group |-> group,
        cur   |-> boot[LeastOf(group)][1],
        nest  |-> 0,
        err   |-> [t \in Thread |-> "EOK"],
        armed |-> {} ]

(* A boot list has threads of its priority, each one once, ...             *)
BootLists(prio, boot) ==
  /\ prio \in [Thread -> Prio]
  /\ DOMAIN boot = Prio
  /\ \A p \in Prio :
       /\ boot[p] \in Seq({t \in Thread : prio[t] = p})
       /\ \A i, j \in DOMAIN boot[p] : boot[p][i] = boot[p][j] => i = j

(* ... and every thread is in one. *)
BootOK(prio, boot) ==
  BootLists(prio, boot) /\ \A t \in Thread : IsIn(boot[prio[t]], t)

-----------------------------------------------------------------------------
(* What the fields of k promise each other whenever interrupts are enabled.*)

(* rt_list_insert_* on a node that is still linked elsewhere corrupts both *)
(* lists, so a tlist node is in at most one list, at one place.            *)
OneList(k) ==
  \A h \in ListHeads :
    /\ \A i, j \in DOMAIN k.lists[h] : k.lists[h][i] = k.lists[h][j] => i = j
    /\ \A g \in ListHeads, t \in Thread :
         IsIn(k.lists[g], t) /\ IsIn(k.lists[h], t) => g = h

(* stat and the ready lists agree: the READY threads are exactly those in  *)
(* the ready list of their own current priority, and in no other one.      *)
ReadyListed(k) ==
  \A t \in Thread, p \in Prio :
    IsIn(k.lists[Ready(p)], t) <=> k.stat[t] = "READY" /\ k.prio[t] = p

(* A bit of the ready group is set iff its list has a thread: a stale bit  *)
(* makes rt_schedule take the list head for a thread.                      *)
GroupExact(k) == k.group = {p \in Prio : k.lists[Ready(p)] # <<>>}

(* Only a suspended thread has a running timer: rt_thread_timeout asserts  *)
(* it in the tick interrupt (thread.c:644).                                *)
TimersOfSuspended(k) == \A t \in k.armed : k.stat[t] = "SUSPEND"

KernelOK(k) ==
  k \in Kernel /\ OneList(k) /\ ReadyListed(k) /\ GroupExact(k) /\ TimersOfSuspended(k)

=============================================================================
