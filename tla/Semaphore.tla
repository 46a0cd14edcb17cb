------------------------------ MODULE Semaphore ------------------------------
(***************************************************************************)
(* A counting semaphore of ipc.c together with the threads that use it.    *)
(*                                                                         *)
(* The processor is single: only kern.cur executes thread code, an         *)
(* interrupt handler runs to its end between two interrupt-disabled        *)
(* regions of the current thread.  An action is one such region, or one    *)
(* whole handler.  place[t] says where t is in its call:                   *)
(*   app          outside the kernel                                       *)
(*   take_sched   rt_sem_take, queued, before its rt_schedule()            *)
(*   take_return  rt_sem_take, after rt_schedule(), about to read error    *)
(*   call_sched   another call, before its final rt_schedule()             *)
(*   reset        the loop of rt_sem_control, interrupts disabled          *)
(*   detach       the test of the loop of rt_sem_detach                    *)
(*   pop          the body of that loop, interrupts still enabled          *)
(***************************************************************************)
EXTENDS KernelOps

CONSTANTS
  Sem,          \* the semaphore's suspend_thread list
  Flag,         \* sem->parent.parent.flag, "FIFO" or "PRIO"
  InitPrio,     \* the priority of each thread
  Boot,         \* the ready lists at start (see Booted)
  InitValue,    \* the value given to rt_sem_init
  ValueRange    \* 2^16 in the code: the values of the field

ASSUME SemaphoreAssumption ==
  /\ Sem \in WaitQueue
  /\ Flag \in {"FIFO", "PRIO"}
  /\ Idle \in Thread
  /\ BootOK(InitPrio, Boot)
  /\ ValueRange \in Nat \ {0}
  /\ InitValue \in 0 .. ValueRange - 1

VARIABLES
  kern,     \* the kernel, see KernelOps
  value,    \* sem->value
  place,    \* where each thread is
  live,     \* the semaphore has not been detached
  strayed,  \* history: a list head was taken for a thread
  given,    \* history: units released, modulo ValueRange
  obtained  \* history: successful takes, modulo ValueRange

vars == <<kern, value, place, live, strayed, given, obtained>>
history == <<strayed, given, obtained>>

PC == {"app", "take_sched", "take_return", "call_sched", "reset", "detach", "pop"}

TypeOK ==
  /\ kern \in Kernel
  /\ value \in 0 .. ValueRange - 1
  /\ place \in [Thread -> PC]
  /\ live \in BOOLEAN /\ strayed \in BOOLEAN
  /\ given \in 0 .. ValueRange - 1
  /\ obtained \in 0 .. ValueRange - 1

Init ==
  /\ kern = Booted(InitPrio, Boot)
  /\ value = InitValue
  /\ place = [t \in Thread |-> "app"]
  /\ live = TRUE
  /\ strayed = FALSE
  /\ given = 0
  /\ obtained = 0

-----------------------------------------------------------------------------
IncWide(n) == n + 1    \* mutant: the field does not wrap
Inc(n) == (n + 1) % ValueRange

(* The current thread is at a and goes to b. *)
Step(a, b) ==
  ~strayed /\ place[kern.cur] = a /\ place' = [place EXCEPT ![kern.cur] = b]

(* Interrupt handlers run unless the current thread disabled interrupts.   *)
Interruptible == ~strayed /\ place[kern.cur] # "reset"

(* rt_sem_take with a unit available (also rt_sem_trytake).  Without one   *)
(* and with time 0 the call returns -RT_ETIMEOUT and changes nothing.      *)
TakeNow ==
  /\ live /\ Step("app", "app")
  /\ value > 0
  /\ value' = value - 1
  /\ obtained' = Inc(obtained)
  /\ UNCHANGED <<kern, live, strayed, given>>

TakeWait ==
  /\ live /\ kern.cur # Idle /\ Step("app", "take_sched")
  /\ value = 0
  /\ \E timed \in BOOLEAN : kern' = Block(kern, Sem, kern.cur, Flag, timed)
  /\ UNCHANGED <<value, live, history>>

TakeSchedule ==
  /\ Step("take_sched", "take_return")
  /\ kern' = Schedule(kern)
  /\ UNCHANGED <<value, live, history>>

TakeReturnBlind ==     \* mutant: thread->error is not read
  /\ Step("take_return", "app")
  /\ obtained' = Inc(obtained)
  /\ UNCHANGED <<kern, value, live, strayed, given>>

TakeReturn ==
  /\ Step("take_return", "app")
  /\ obtained' = IF kern.err[kern.cur] = "EOK" THEN Inc(obtained) ELSE obtained
  /\ UNCHANGED <<kern, value, live, strayed, given>>

(* The interrupt-disabled region of rt_sem_release. *)
Hand ==
  /\ given' = Inc(given)
  /\ IF Waiters(kern, Sem) # <<>>
     THEN value' = value
     ELSE value' = Inc(value)
  /\ UNCHANGED <<live, strayed, obtained>>

Release ==
  /\ live /\ place[kern.cur] = "app"
  /\ Hand
  /\ IF Waiters(kern, Sem) # <<>>
     THEN kern' = ListResume(kern, Sem) /\ Step("app", "call_sched")
     ELSE UNCHANGED <<kern, place>>

SemSchedule ==
  /\ Step("call_sched", "app")
  /\ kern' = Schedule(kern)
  /\ UNCHANGED <<value, live, history>>

(* rt_sem_control(RT_IPC_CMD_RESET): the loop of rt_ipc_list_resume_all    *)
(* and the new value in one interrupt-disabled region.                     *)
ResetBegin ==
  /\ live /\ Step("app", "reset")
  /\ UNCHANGED <<kern, value, live, history>>

ResetTurn ==
  /\ place[kern.cur] = "reset" /\ Waiters(kern, Sem) # <<>>
  /\ kern' = ResumeFirstWithError(kern, Sem)
  /\ UNCHANGED <<value, place, live, history>>

(* The new value starts the account of units afresh: units that were       *)
(* handed over before stay handed over.                                    *)
ResetEnd(v) ==
  /\ Step("reset", "call_sched") /\ Waiters(kern, Sem) = <<>>
  /\ value' = v
  /\ given' = (given + ValueRange + v - value) % ValueRange
  /\ UNCHANGED <<kern, live, strayed, obtained>>

(* rt_sem_detach: the list is tested with interrupts enabled, its first    *)
(* thread is taken in a region of its own.  Nobody calls into a semaphore  *)
(* that is being detached.  A list head taken for a thread (strayed)       *)
(* leaves kernel memory in a state outside this model, which stops there.  *)
DetachBegin ==
  /\ live /\ kern.cur # Idle /\ Step("app", "detach")
  /\ live' = FALSE
  /\ UNCHANGED <<kern, value, history>>

DetachTest ==
  /\ IF Waiters(kern, Sem) # <<>> THEN Step("detach", "pop") ELSE Step("detach", "app")
  /\ UNCHANGED <<kern, value, live, history>>

DetachPop ==
  /\ Step("pop", "detach")
  /\ IF Waiters(kern, Sem) # <<>>
     THEN kern' = ResumeFirstWithError(kern, Sem) /\ UNCHANGED strayed
     ELSE strayed' = TRUE /\ UNCHANGED kern
  /\ UNCHANGED <<value, live, given, obtained>>

(* Interrupt handlers: a driver releases or tries to take a unit, the tick *)
(* ends a time slice or a wait.                                            *)
IsrRelease ==
  /\ live /\ Interruptible
  /\ Hand
  /\ kern' = IF Waiters(kern, Sem) # <<>> THEN Schedule(ListResume(kern, Sem)) ELSE kern
  /\ UNCHANGED place

IsrTake ==
  /\ live /\ Interruptible /\ value > 0
  /\ value' = value - 1
  /\ obtained' = Inc(obtained)
  /\ UNCHANGED <<kern, place, live, strayed, given>>

WaitTimeout(t) ==
  /\ Interruptible /\ t \in kern.armed
  /\ kern' = Timeout(kern, t)
  /\ UNCHANGED <<value, place, live, history>>

SliceEnd ==
  /\ Interruptible
  /\ kern' = Yield(kern)
  /\ UNCHANGED <<value, place, live, history>>

ThreadStep ==
  \/ TakeNow \/ TakeWait \/ TakeSchedule \/ TakeReturn
  \/ Release \/ SemSchedule
  \/ ResetBegin \/ ResetTurn \/ \E v \in 0 .. ValueRange - 1 : ResetEnd(v)
  \/ DetachBegin \/ DetachTest \/ DetachPop

Interrupt ==
  IsrRelease \/ IsrTake \/ SliceEnd \/ \E t \in Thread : WaitTimeout(t)

Next == ThreadStep \/ Interrupt

Spec == Init /\ [][Next]_vars

-----------------------------------------------------------------------------
Waiting(t) == IsIn(Waiters(kern, Sem), t)

(* Threads that a release has woken and that have not returned yet. *)
Handed ==
  {t \in Thread : /\ place[t] \in {"take_sched", "take_return"}
                  /\ ~Waiting(t)
                  /\ kern.err[t] = "EOK"}

(* The lists, the ready group and the thread states agree whenever         *)
(* interrupts are enabled, whatever calls and handlers ran before.         *)
KernelConsistent == KernelOK(kern)

(* A unit released is in the value, on its way to one woken thread, or     *)
(* taken: rt_sem_release, a time-out and rt_sem_control racing each other  *)
(* neither lose a unit nor hand one out twice.                             *)
UnitsConserved ==
  (InitValue + given) % ValueRange
    = (value + obtained + Cardinality(Handed)) % ValueRange

(* No lost wake-up: a suspended thread is in the wait list, where the next *)
(* release finds it, and nobody waits while the value is positive.         *)
NoLostWakeup ==
  /\ \A t \in Thread : kern.stat[t] = "SUSPEND" <=> Waiting(t)
  /\ value > 0 => Waiters(kern, Sem) = <<>>

(* Only rt_sem_take suspends a thread, the processor executes a suspended  *)
(* thread only on its way to rt_schedule, and the idle thread is always    *)
(* there to be switched to.                                                *)
SuspendedOnlyInTake ==
  /\ kern.nest = 0
  /\ kern.stat[Idle] = "READY"
  /\ \A t \in Thread :
       /\ kern.stat[t] \in {"READY", "SUSPEND"}
       /\ kern.stat[t] = "SUSPEND" => place[t] \in {"take_sched", "take_return"}
  /\ kern.stat[kern.cur] = "SUSPEND" => place[kern.cur] = "take_sched"

(* "get next suspend thread" (ipc.c:180): what rt_ipc_list_resume_all      *)
(* takes from the list is a thread.  Its loop tests the list and takes the *)
(* first thread in two regions, and the last waiter may time out between   *)
(* them.                                                                   *)
DetachPopsAThread == ~strayed
=============================================================================
