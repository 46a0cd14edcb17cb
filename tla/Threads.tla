------------------------------- MODULE Threads -------------------------------
(***************************************************************************)
(* The life of a thread: the calls of thread.c and scheduler.c cut at the  *)
(* points where they enable interrupts, the tick interrupt, and the idle   *)
(* thread that frees what has been deleted.                                *)
(*                                                                         *)
(* rt_thread_resume and rt_thread_suspend test thread->stat before they    *)
(* disable interrupts, rt_thread_delete has four regions, so a caller can  *)
(* be preempted between a test and what it decided.  pc[t] is where t is   *)
(* in its call and tgt[t] the thread that call is about:                   *)
(*   app             outside the kernel                                    *)
(*   resume_unlink, resume_insert       rt_thread_resume                   *)
(*   suspend_commit                     rt_thread_suspend                  *)
(*   delete_timer, delete_close, delete_list     rt_thread_delete          *)
(*   sleep_sched, sleep_return          rt_thread_sleep                    *)
(*   exit_sched                         rt_thread_exit                     *)
(*   call_sched      any call before its final rt_schedule()               *)
(*   free            rt_thread_idle_excute, the thread is off the list     *)
(*                                                                         *)
(* The kernel leaves it to its callers who may call what on whom; the      *)
(* constant May says it, as triples <<operation, caller, target>>.         *)
(***************************************************************************)
EXTENDS KernelOps

CONSTANTS
  Static,     \* threads made by rt_thread_init, without a cleanup function
  InitPrio,   \* thread->init_priority
  Boot,       \* the ready lists at start: a thread in none is not started yet
  May,        \* which calls happen
  MaxNest     \* bound on rt_scheduler_lock_nest

Operation == {"startup", "resume", "suspend", "delete", "sleep", "exit",
              "lock", "priority", "create"}

Started == {t \in Thread : IsIn(Boot[InitPrio[t]], t)}

ThreadsAssumption ==
  /\ Static \subseteq Thread
  /\ BootLists(InitPrio, Boot) /\ Idle \in Started
  /\ May \subseteq Operation \X Thread \X Thread
  /\ MaxNest \in Nat

(* What the callers of the kernel have to keep to, because thread.c tests  *)
(* a thread's state outside the region that acts on it: at most one other  *)
(* thread manages a thread, the idle thread goes on, nobody manages others *)
(* that may be deleted, and the manager's next call on a thread does not   *)
(* race what the thread does on its own.                                   *)
Manages(m, x) ==
  /\ m # x
  /\ \E op \in {"create", "startup", "resume", "suspend", "delete", "priority"} :
       <<op, m, x>> \in May

Disciplined ==
  /\ \A m, n, x \in Thread : Manages(m, x) /\ Manages(n, x) => m = n
  /\ \A op \in Operation, m \in Thread :
       <<op, m, Idle>> \in May => op \in {"lock", "priority"}
  /\ \A x \in Thread : <<"resume", x, x>> \notin May
  /\ \A m, x \in Thread : m # x =>
       /\ <<"delete", m, x>> \in May => \A y \in Thread : ~Manages(x, y)
       /\ {<<"resume", m, x>>, <<"delete", m, x>>} \cap May # {} => <<"sleep", x, x>> \notin May
       /\ <<"suspend", m, x>> \in May => <<"exit", x, x>> \notin May

VARIABLES k, pc, tgt,
  freed       \* threads whose memory rt_thread_idle_excute has given back

vars == <<k, pc, tgt, freed>>

PC == {"app", "resume_unlink", "resume_insert", "suspend_commit",
       "delete_timer", "delete_close", "delete_list",
       "sleep_sched", "sleep_return", "exit_sched", "call_sched", "free"}

TypeOK ==
  /\ k \in Kernel
  /\ pc \in [Thread -> PC]
  /\ tgt \in [Thread -> Thread]
  /\ freed \subseteq Thread

Init ==
  /\ k = [Booted(InitPrio, Boot) EXCEPT
            !.stat = [t \in Thread |-> IF t \in Started THEN "READY" ELSE "INIT"]]
  /\ pc = [t \in Thread |-> "app"]
  /\ tgt = [t \in Thread |-> t]
  /\ freed = {}

-----------------------------------------------------------------------------
Step(a, b) == pc[k.cur] = a /\ pc' = [pc EXCEPT ![k.cur] = b]

(* The current thread begins operation op on x and goes to b. *)
Call(op, x, b) ==
  /\ <<op, k.cur, x>> \in May
  /\ pc[k.cur] = "app" /\ pc' = [pc EXCEPT ![k.cur] = b]
  /\ tgt' = [tgt EXCEPT ![k.cur] = x]
  /\ UNCHANGED freed

X == tgt[k.cur]

(* rt_thread_create: the object and the stack of x are allocated again. *)
Create(x) ==
  /\ <<"create", k.cur, x>> \in May /\ pc[k.cur] = "app" /\ x \in freed
  /\ k' = [k EXCEPT !.stat[x] = "INIT", !.err[x] = "EOK", !.prio[x] = InitPrio[x]]
  /\ pc' = [pc EXCEPT ![x] = "app"]
  /\ freed' = freed \ {x}
  /\ UNCHANGED tgt

(* rt_thread_startup: its assertion is that x has not been started. *)
StartupAgain(x) ==     \* mutant: without the assertion
  /\ Call("startup", x, "resume_unlink")
  /\ k' = [k EXCEPT !.prio[x] = InitPrio[x], !.stat[x] = "SUSPEND"]

Startup(x) ==
  /\ Call("startup", x, "resume_unlink")
  /\ k.stat[x] = "INIT" /\ x \notin freed
  /\ k' = [k EXCEPT !.prio[x] = InitPrio[x], !.stat[x] = "SUSPEND"]

(* rt_thread_resume, followed by the rt_schedule() of its caller *)
ResumeCheck(x) ==
  /\ Call("resume", x, "resume_unlink")
  /\ k.stat[x] = "SUSPEND"
  /\ UNCHANGED k

ResumeUnlinkStep ==
  /\ Step("resume_unlink", "resume_insert")
  /\ k' = ResumeUnlink(k, X)
  /\ UNCHANGED <<tgt, freed>>

ResumeInsert ==
  /\ Step("resume_insert", "call_sched")
  /\ k' = InsertReady(k, X)
  /\ UNCHANGED <<tgt, freed>>

CallSchedule ==
  /\ Step("call_sched", "app")
  /\ k' = Schedule(k)
  /\ UNCHANGED <<tgt, freed>>

(* rt_thread_suspend, followed by rt_schedule() as its note asks when a    *)
(* thread suspends itself.                                                 *)
SuspendCheck(x) ==
  /\ Call("suspend", x, "suspend_commit")
  /\ k.stat[x] = "READY"
  /\ UNCHANGED k

SuspendTailListed(j, x) ==   \* mutant: x stays in its ready list
  TimerStop([j EXCEPT !.stat[x] = "SUSPEND"], x)

SuspendTail(j, x) == TimerStop(RemoveReady([j EXCEPT !.stat[x] = "SUSPEND"], x), x)

SuspendCommit ==
  /\ Step("suspend_commit", "call_sched")
  /\ k' = SuspendTail(k, X)
  /\ UNCHANGED <<tgt, freed>>

(* rt_thread_delete, and rt_thread_detach of a static thread, which goes   *)
(* to no list because it has no cleanup function.                          *)
DeleteInPlace(x) ==    \* mutant: x stays in the list it is in
  /\ Call("delete", x, "delete_timer")
  /\ x # k.cur /\ x \notin freed /\ k.stat[x] # "CLOSE"
  /\ UNCHANGED k

DeleteRemove(x) ==
  /\ Call("delete", x, "delete_timer")
  /\ x # k.cur /\ x \notin freed
  /\ k.stat[x] # "CLOSE"
  /\ k' = RemoveReady(k, x)

DeleteTimer ==
  /\ Step("delete_timer", "delete_close")
  /\ k' = TimerStop(k, X)
  /\ UNCHANGED <<tgt, freed>>

DeleteClose ==
  /\ Step("delete_close", IF X \in Static THEN "app" ELSE "delete_list")
  /\ k' = [k EXCEPT !.stat[X] = "CLOSE"]
  /\ UNCHANGED <<tgt, freed>>

DeleteList ==
  /\ Step("delete_list", "app")
  /\ k' = InsertFirst(k, Defunct, X)
  /\ UNCHANGED <<tgt, freed>>

(* rt_thread_sleep: suspended and timer started in one region *)
Sleep ==
  /\ Call("sleep", k.cur, "sleep_sched") /\ k.nest = 0
  /\ k' = TimerStart(Suspend(k, k.cur), k.cur)

SleepSchedule ==
  /\ Step("sleep_sched", "sleep_return")
  /\ k' = Schedule(k)
  /\ UNCHANGED <<tgt, freed>>

SleepReturn ==
  /\ Step("sleep_return", "app")
  /\ k' = IF k.err[k.cur] = "ETIMEOUT" THEN WithError(k, k.cur, "EOK") ELSE k
  /\ UNCHANGED <<tgt, freed>>

(* rt_thread_exit, where the entry function of a thread returns *)
Closed(j, t) ==
  LET u == TimerStop([RemoveReady(j, t) EXCEPT !.stat[t] = "CLOSE"], t)
  IN  IF t \in Static THEN u ELSE InsertFirst(u, Defunct, t)

Exit ==
  /\ Call("exit", k.cur, "exit_sched") /\ k.nest = 0
  /\ k' = Closed(k, k.cur)

ExitSchedule ==
  /\ Step("exit_sched", "exit_sched")
  /\ k' = Schedule(k)
  /\ UNCHANGED <<tgt, freed>>

(* rt_enter_critical and rt_exit_critical *)
EnterCritical ==
  /\ Call("lock", k.cur, "app") /\ k.nest < MaxNest
  /\ k' = [k EXCEPT !.nest = @ + 1]

ExitCriticalSilent ==    \* mutant: no rt_schedule() after the last unlock
  /\ Call("lock", k.cur, "app")
  /\ k' = [k EXCEPT !.nest = IF @ > 1 THEN @ - 1 ELSE 0]

ExitCritical ==
  /\ Call("lock", k.cur, IF k.nest <= 1 THEN "call_sched" ELSE "app")
  /\ k' = [k EXCEPT !.nest = IF @ > 1 THEN @ - 1 ELSE 0]

(* rt_thread_control(RT_THREAD_CTRL_CHANGE_PRIORITY), followed by the      *)
(* rt_schedule() of its caller                                             *)
SetPriority(x, p) ==
  /\ Call("priority", x, "call_sched")
  /\ k.stat[x] # "CLOSE" /\ x \notin freed
  /\ k' = ChangePriority(k, x, p)

(* rt_thread_idle_excute, run by the idle thread over and over: the list   *)
(* is tested again in the region that takes its first thread.              *)
IdleTakeLinked ==      \* mutant: the thread stays in the defunct list
  /\ k.cur = Idle /\ Step("app", "free")
  /\ k.lists[Defunct] # <<>>
  /\ tgt' = [tgt EXCEPT ![Idle] = k.lists[Defunct][1]]
  /\ UNCHANGED <<k, freed>>

IdleTake ==
  /\ k.cur = Idle /\ Step("app", "free")
  /\ k.lists[Defunct] # <<>>
  /\ LET x == k.lists[Defunct][1]
     IN  /\ k' = ListRemove(k, x)
         /\ tgt' = [tgt EXCEPT ![Idle] = x]
  /\ UNCHANGED freed

IdleFree ==
  /\ k.cur = Idle /\ Step("free", "app")
  /\ freed' = freed \cup {X}
  /\ UNCHANGED <<k, tgt>>

(* The tick interrupt: rt_tick_increase ends a time slice, rt_timer_check  *)
(* expires the timer of a thread.                                          *)
TickYield ==
  /\ k' = Yield(k)
  /\ UNCHANGED <<pc, tgt, freed>>

TickTimeout(t) ==
  /\ t \in k.armed
  /\ k' = Timeout(k, t)
  /\ UNCHANGED <<pc, tgt, freed>>

ThreadStep ==
  \/ \E x \in Thread : \/ Create(x) \/ Startup(x) \/ ResumeCheck(x)
                       \/ SuspendCheck(x) \/ DeleteRemove(x)
                       \/ \E p \in Prio : SetPriority(x, p)
  \/ ResumeUnlinkStep \/ ResumeInsert \/ CallSchedule \/ SuspendCommit
  \/ DeleteTimer \/ DeleteClose \/ DeleteList
  \/ Sleep \/ SleepSchedule \/ SleepReturn \/ Exit \/ ExitSchedule
  \/ EnterCritical \/ ExitCritical \/ IdleTake \/ IdleFree

Next == ThreadStep \/ TickYield \/ \E t \in Thread : TickTimeout(t)

Spec == Init /\ [][Next]_vars

-----------------------------------------------------------------------------
(* A caller between rt_schedule_remove_thread(x) and thread->stat = CLOSE  *)
Dying == {tgt[t] : t \in {u \in Thread : pc[u] \in {"delete_timer", "delete_close"}}}

(* The lists, the ready group and the thread states agree whenever an      *)
(* interrupt can look at them, but for the thread rt_thread_delete is      *)
(* about to close, which is off the lists a region earlier.                *)
ListsExact ==
  /\ OneList(k) /\ GroupExact(k)
  /\ \A t \in Thread, p \in Prio :
       IsIn(k.lists[Ready(p)], t)
         <=> k.stat[t] = "READY" /\ k.prio[t] = p /\ t \notin Dying

(* The assertion of rt_thread_timeout (thread.c:644): when a thread's      *)
(* timer expires, in the tick interrupt, the thread is suspended.          *)
TimeoutAssertHolds == TimersOfSuspended(k)

(* "select one thread with the highest priority level" (scheduler.c:187):  *)
(* no ready thread is more urgent than a thread that executes outside the  *)
(* kernel, unless the scheduler is locked.                                 *)
UrgentRuns ==
  k.nest = 0 /\ pc[k.cur] = "app" =>
    \A t \in Thread \ Dying : k.stat[t] = "READY" => k.prio[k.cur] <= k.prio[t]

(* A thread whose memory was freed is in no list of the kernel, has no     *)
(* timer, and does not execute on its freed stack.                         *)
FreedIsGone ==
  \A t \in freed :
    /\ t # k.cur /\ t \notin k.armed
    /\ \A h \in ListHeads : ~IsIn(k.lists[h], t)

(* A thread that has exited or was deleted is in no ready list: it is      *)
(* "removed from thread queue" (thread.c:333), never to execute again      *)
(* unless it is its own way to rt_schedule in rt_thread_exit.              *)
ClosedIsOff ==
  \A t \in Thread : k.stat[t] = "CLOSE" =>
    /\ \A p \in Prio : ~IsIn(k.lists[Ready(p)], t)
    /\ t = k.cur => pc[t] = "exit_sched"

(* Only rt_thread_create brings a closed thread back.                      *)
ClosedStaysClosed ==
  [][\A t \in Thread \ freed : k.stat[t] = "CLOSE" => k'.stat[t] = "CLOSE"]_vars
=============================================================================
