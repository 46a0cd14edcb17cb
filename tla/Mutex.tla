-------------------------------- MODULE Mutex --------------------------------
(***************************************************************************)
(* The mutexes of ipc.c with the threads that use them: recursion, the     *)
(* hand-over to a waiter, waiting with a time-out, and the priority        *)
(* inheritance between a waiter and the owner.                             *)
(*                                                                         *)
(* A mutex has no interrupt interface.  pc[t] says where t is in its call: *)
(*   app           outside the kernel                                      *)
(*   take_sched    rt_mutex_take, queued, before its rt_schedule()         *)
(*   take_return   rt_mutex_take, after rt_schedule(), error not read yet  *)
(*   release_sched rt_mutex_release, a waiter resumed, before rt_schedule()*)
(*   sleep_sched, sleep_return     rt_thread_delay, as in Threads          *)
(***************************************************************************)
EXTENDS KernelOps

CONSTANTS
  Flag,         \* mutex->parent.parent.flag, "FIFO" or "PRIO"
  InitPrio, Boot,
  Uses,         \* the pairs <<thread, mutex>> of the application
  Sleeper,      \* the threads that call rt_thread_delay
  TimedWaits,   \* TRUE iff some caller waits with a time-out
  Nesting,      \* how calls nest: "none", "lifo" or "any"
  MaxHold,      \* bound on the depth of recursion
  HoldRange,    \* 2^8 in the code: the values of mutex->hold
  None          \* RT_NULL as an owner, 0xFF as an original priority

MutexAssumption ==
  /\ Flag \in {"FIFO", "PRIO"} /\ Nesting \in {"none", "lifo", "any"}
  /\ Idle \in Thread /\ WaitQueue # {}
  /\ BootOK(InitPrio, Boot)
  /\ Uses \subseteq (Thread \ {Idle}) \X WaitQueue
  /\ Sleeper \subseteq Thread \ {Idle}
  /\ TimedWaits \in BOOLEAN
  /\ MaxHold \in Nat /\ HoldRange \in Nat /\ MaxHold < HoldRange
  /\ None \notin Thread /\ None \notin Nat

M == WaitQueue

VARIABLES
  k, value, owner, hold,
  original,     \* mutex->original_priority
  pc,
  want,         \* the mutex a thread is taking
  mine          \* the takes of a thread that returned RT_EOK and that it
                \* has not released yet, in the order it made them

vars == <<k, value, owner, hold, original, pc, want, mine>>
fields == <<value, owner, hold, original>>

PC == {"app", "take_sched", "take_return", "release_sched",
       "sleep_sched", "sleep_return"}

TypeOK ==
  /\ k \in Kernel
  /\ value \in [M -> {0, 1}]
  /\ owner \in [M -> Thread \cup {None}]
  /\ hold \in [M -> 0 .. HoldRange - 1]
  /\ original \in [M -> Prio \cup {None}]
  /\ pc \in [Thread -> PC]
  /\ want \in [Thread -> M]
  /\ mine \in [Thread -> Seq(M)]

Init ==
  /\ k = Booted(InitPrio, Boot)
  /\ value = [m \in M |-> 1]
  /\ owner = [m \in M |-> None]
  /\ hold = [m \in M |-> 0]
  /\ original = [m \in M |-> None]
  /\ pc = [t \in Thread |-> "app"]
  /\ want = [t \in Thread |-> CHOOSE m \in M : TRUE]
  /\ mine = [t \in Thread |-> <<>>]

-----------------------------------------------------------------------------
Me == k.cur
Step(a, b) == pc[Me] = a /\ pc' = [pc EXCEPT ![Me] = b]

(* The application's discipline: whether a thread may now take m, and the  *)
(* mutexes it may now release.                                             *)
MayTake(m) ==
  /\ <<Me, m>> \in Uses
  /\ Len(mine[Me]) < MaxHold
  /\ Nesting = "none" => \A i \in DOMAIN mine[Me] : mine[Me][i] = m

Releasable ==
  IF mine[Me] = <<>> THEN {}
  ELSE IF Nesting = "any" THEN {mine[Me][i] : i \in DOMAIN mine[Me]}
       ELSE {mine[Me][Len(mine[Me])]}

Held(s, m) == Append(s, m)

(* One release of m: its last take is off the sequence. *)
Without(s, m) ==
  LET last == CHOOSE i \in DOMAIN s :
                s[i] = m /\ \A j \in DOMAIN s : s[j] = m => j <= i
  IN  [i \in 1 .. Len(s) - 1 |-> s[IF i < last THEN i ELSE i + 1]]

More(n) == (n + 1) % HoldRange
Less(n) == (n + HoldRange - 1) % HoldRange

(* rt_mutex_take by the owner, and of a free mutex *)
TakeOwned(m) ==
  /\ MayTake(m) /\ Step("app", "app")
  /\ owner[m] = Me
  /\ k' = WithError(k, Me, "EOK")
  /\ hold' = [hold EXCEPT ![m] = More(@)]
  /\ mine' = [mine EXCEPT ![Me] = Held(@, m)]
  /\ UNCHANGED <<value, owner, original, want>>

TakeFree(m) ==
  /\ MayTake(m) /\ Step("app", "app")
  /\ owner[m] # Me /\ value[m] > 0
  /\ k' = WithError(k, Me, "EOK")
  /\ value' = [value EXCEPT ![m] = @ - 1]
  /\ owner' = [owner EXCEPT ![m] = Me]
  /\ original' = [original EXCEPT ![m] = k.prio[Me]]
  /\ hold' = [hold EXCEPT ![m] = More(@)]
  /\ mine' = [mine EXCEPT ![Me] = Held(@, m)]
  /\ UNCHANGED want

(* rt_mutex_take(m, 0) of a mutex another thread owns *)
TakeFails(m) ==
  /\ MayTake(m) /\ Step("app", "app")
  /\ owner[m] # Me /\ value[m] = 0
  /\ k' = WithError(k, Me, "ETIMEOUT")
  /\ UNCHANGED <<fields, want, mine>>

(* The owner inherits the priority of a more urgent waiter. *)
InheritNothing(j, m) == j     \* mutant: no inheritance
Inherit(j, m) ==
  IF j.prio[Me] < j.prio[owner[m]] THEN ChangePriority(j, owner[m], j.prio[Me]) ELSE j

TakeWait(m) ==
  /\ MayTake(m) /\ Step("app", "take_sched")
  /\ owner[m] # Me /\ value[m] = 0
  /\ \E timed \in {FALSE, TimedWaits} : k' = Block(Inherit(k, m), m, Me, Flag, timed)
  /\ want' = [want EXCEPT ![Me] = m]
  /\ UNCHANGED <<fields, mine>>

TakeSchedule ==
  /\ Step("take_sched", "take_return")
  /\ k' = Schedule(k)
  /\ UNCHANGED <<fields, want, mine>>

TakeReturnBlind ==            \* mutant: thread->error is not read
  /\ Step("take_return", "app")
  /\ mine' = [mine EXCEPT ![Me] = Held(@, want[Me])]
  /\ UNCHANGED <<k, fields, want>>

TakeReturn ==
  /\ Step("take_return", "app")
  /\ mine' = [mine EXCEPT ![Me] = IF k.err[Me] = "EOK" THEN Held(@, want[Me]) ELSE @]
  /\ UNCHANGED <<k, fields, want>>

(* rt_mutex_release: by a thread that is not the owner, by an owner that   *)
(* took it several times, and the last release with and without a waiter.  *)
(* Without one the call returns without rt_schedule().                     *)
ReleaseNotOwner(m) ==
  /\ Step("app", "app") /\ <<Me, m>> \in Uses
  /\ owner[m] # Me
  /\ k' = WithError(k, Me, "ERROR")
  /\ UNCHANGED <<fields, want, mine>>

ReleaseInner(m) ==
  /\ m \in Releasable /\ owner[m] = Me /\ Step("app", "app")
  /\ Less(hold[m]) # 0
  /\ hold' = [hold EXCEPT ![m] = Less(@)]
  /\ mine' = [mine EXCEPT ![Me] = Without(@, m)]
  /\ UNCHANGED <<k, value, owner, original, want>>

(* The owner gets back the priority it had when it took the mutex. *)
RestoreNothing(m) == k        \* mutant: the inherited priority stays
Restore(m) ==
  IF original[m] # k.prio[Me] THEN ChangePriority(k, Me, original[m]) ELSE k

ReleaseFree(m) ==
  /\ m \in Releasable /\ owner[m] = Me /\ Step("app", "app")
  /\ Less(hold[m]) = 0 /\ Waiters(k, m) = <<>>
  /\ k' = Restore(m)
  /\ value' = [value EXCEPT ![m] = @ + 1]
  /\ owner' = [owner EXCEPT ![m] = None]
  /\ original' = [original EXCEPT ![m] = None]
  /\ hold' = [hold EXCEPT ![m] = 0]
  /\ mine' = [mine EXCEPT ![Me] = Without(@, m)]
  /\ UNCHANGED want

ReleasePassFree(m) ==         \* mutant: the waiter is woken to compete for it
  /\ m \in Releasable /\ owner[m] = Me /\ Step("app", "release_sched")
  /\ Less(hold[m]) = 0 /\ Waiters(k, m) # <<>>
  /\ k' = ListResume(Restore(m), m)
  /\ value' = [value EXCEPT ![m] = @ + 1]
  /\ owner' = [owner EXCEPT ![m] = None]
  /\ original' = [original EXCEPT ![m] = None]
  /\ hold' = [hold EXCEPT ![m] = 0]
  /\ mine' = [mine EXCEPT ![Me] = Without(@, m)]
  /\ UNCHANGED want

ReleasePass(m) ==
  LET u == Waiters(k, m)[1]
  IN  /\ m \in Releasable /\ owner[m] = Me /\ Step("app", "release_sched")
      /\ Less(hold[m]) = 0 /\ Waiters(k, m) # <<>>
      /\ owner' = [owner EXCEPT ![m] = u]
      /\ original' = [original EXCEPT ![m] = k.prio[u]]
      /\ hold' = [hold EXCEPT ![m] = 1]
      /\ k' = ListResume(Restore(m), m)
      /\ mine' = [mine EXCEPT ![Me] = Without(@, m)]
      /\ UNCHANGED <<value, want>>

ReleaseSchedule ==
  /\ Step("release_sched", "app")
  /\ k' = Schedule(k)
  /\ UNCHANGED <<fields, want, mine>>

(* rt_thread_delay, possibly with mutexes held *)
Sleep ==
  /\ Me \in Sleeper /\ Step("app", "sleep_sched")
  /\ k' = TimerStart(Suspend(k, Me), Me)
  /\ UNCHANGED <<fields, want, mine>>

SleepSchedule ==
  /\ Step("sleep_sched", "sleep_return")
  /\ k' = Schedule(k)
  /\ UNCHANGED <<fields, want, mine>>

SleepReturn ==
  /\ Step("sleep_return", "app")
  /\ k' = IF k.err[Me] = "ETIMEOUT" THEN WithError(k, Me, "EOK") ELSE k
  /\ UNCHANGED <<fields, want, mine>>

TickTimeout(t) ==
  /\ t \in k.armed
  /\ k' = Timeout(k, t)
  /\ UNCHANGED <<fields, pc, want, mine>>

TickYield ==
  /\ k' = Yield(k)
  /\ UNCHANGED <<fields, pc, want, mine>>

Release(m) == ReleaseInner(m) \/ ReleaseFree(m) \/ ReleasePass(m)

Take(m) == TakeOwned(m) \/ TakeFree(m) \/ TakeFails(m) \/ TakeWait(m)

InKernel == TakeSchedule \/ TakeReturn \/ ReleaseSchedule \/ SleepSchedule \/ SleepReturn

ThreadStep ==
  \/ \E m \in M : Take(m) \/ Release(m) \/ ReleaseNotOwner(m)
  \/ InKernel \/ Sleep

Next == ThreadStep \/ TickYield \/ \E t \in Thread : TickTimeout(t)

Spec == Init /\ [][Next]_vars

-----------------------------------------------------------------------------
Waiting(t, m) == IsIn(Waiters(k, m), t)

(* A thread that was made the owner while it waited and has not returned   *)
(* from rt_mutex_take yet.                                                 *)
Handed(t, m) ==
  /\ pc[t] \in {"take_sched", "take_return"} /\ want[t] = m
  /\ ~Waiting(t, m) /\ k.err[t] = "EOK"

Depth(t, m) == Cardinality({i \in DOMAIN mine[t] : mine[t][i] = m})

(* Mutual exclusion as the callers see it: the takes of m that returned    *)
(* RT_EOK and were not released, with the hand-over under way, belong to   *)
(* one thread, the owner, and are counted by mutex->hold.  A time-out that *)
(* races the hand-over neither makes two owners nor loses the mutex.       *)
MutualExclusion ==
  \A m \in M, t \in Thread :
    IF owner[m] = t
    THEN Depth(t, m) + (IF Handed(t, m) THEN 1 ELSE 0) = hold[m] /\ hold[m] > 0
    ELSE Depth(t, m) = 0 /\ ~Handed(t, m)

(* Priority inheritance: while a thread waits for a mutex, its owner is at *)
(* least as urgent, so that no thread of a priority in between keeps the   *)
(* owner from running.                                                     *)
OwnerInherits ==
  \A m \in M, t \in Thread : Waiting(t, m) => k.prio[owner[m]] <= k.prio[t]

(* A mutex is the Lock: nobody but the owner takes it, and a release hands *)
(* it to a waiter at once (ipc.c:656-741, 806-843).                        *)
Abstract == INSTANCE Lock WITH
  User <- Thread, Lockable <- M, Nobody <- None,
  holder <- owner, depth <- hold,
  waiting <- [m \in M |-> {t \in Thread : Waiting(t, m)}]

ImplementsLock == Abstract!LockSpec

(* "change the owner thread to original priority" (ipc.c:811): a thread    *)
(* that holds no mutex is back at the priority it was created with.        *)
PriorityRestored ==
  \A t \in Thread :
    (\A m \in M : owner[m] # t) => k.prio[t] = InitPrio[t]
=============================================================================
