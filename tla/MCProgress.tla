----------------------------- MODULE MCProgress -----------------------------
(***************************************************************************)
(* What must happen in the end, in two small systems; the variable object  *)
(* says which:                                                             *)
(*                                                                         *)
(*   sleepers   Threads: th1 and th2, of one urgent priority, sleep and    *)
(*              lock the scheduler; th3 exits                              *)
(*   inversion  Mutex: th1 and th3 share a mutex; th2, in between, uses    *)
(*              none: it only keeps the processor busy                     *)
(*                                                                         *)
(* The variables of the other system keep the value None.                  *)
(***************************************************************************)
EXTENDS Naturals, Sequences, TLC

CONSTANTS th1, th2, th3, idle, A, None

VARIABLES
  object,
  k, pc,                                           \* of both
  tgt, freed,                                      \* of Threads
  value, owner, hold, original, want, mine         \* of Mutex

ofThreads == <<tgt, freed>>
ofMutex   == <<value, owner, hold, original, want, mine>>
mcvars    == <<object, k, pc, ofThreads, ofMutex>>

Thread == {th1, th2, th3, idle}

EqualPrio == (th1 :> 0) @@ (th2 :> 0) @@ (th3 :> 1) @@ (idle :> 2)
StepPrio  == (th1 :> 0) @@ (th2 :> 1) @@ (th3 :> 2) @@ (idle :> 3)

L == INSTANCE Threads WITH
  Prio <- {0, 1, 2}, WaitQueue <- {}, Idle <- idle, Static <- {},
  InitPrio <- EqualPrio,
  Boot <- (0 :> <<th1, th2>>) @@ (1 :> <<th3>>) @@ (2 :> <<idle>>),
  May <- {<<op, t, t>> : op \in {"sleep", "lock"}, t \in {th1, th2}} \cup {<<"exit", th3, th3>>},
  MaxNest <- 1

X == INSTANCE Mutex WITH
  Prio <- {0, 1, 2, 3}, WaitQueue <- {A}, Idle <- idle, Flag <- "PRIO",
  InitPrio <- StepPrio,
  Boot <- (0 :> <<th1>>) @@ (1 :> <<th2>>) @@ (2 :> <<th3>>) @@ (3 :> <<idle>>),
  Uses <- {th1, th3} \X {A}, Sleeper <- {th1, th2}, TimedWaits <- FALSE,
  Nesting <- "none", MaxHold <- 2, HoldRange <- 4

ASSUME L!ThreadsAssumption /\ X!MutexAssumption

OnThreads == object = "sleepers" /\ UNCHANGED <<object, ofMutex>>
OnMutex   == object = "inversion" /\ UNCHANGED <<object, ofThreads>>

MCInit ==
  \/ /\ object = "sleepers" /\ L!Init
     /\ value = None /\ owner = None /\ hold = None /\ original = None
     /\ want = None /\ mine = None
  \/ /\ object = "inversion" /\ X!Init
     /\ tgt = None /\ freed = None

MCNext == \/ OnThreads /\ L!Next
          \/ OnMutex /\ X!Next

(* A thread keeps executing: a time slice is many ticks long, so a thread  *)
(* that gets the processor over and over makes progress.  Among the        *)
(* sleepers the tick interrupt keeps coming: a timer that is armed over    *)
(* and over expires, a thread that runs over and over uses up its time     *)
(* slice.  In the inversion a thread that gets to execute with the mutex   *)
(* over and over gives it back, and nothing else is fair: a busy thread    *)
(* that never sleeps, and a clock that never ends a time slice, are the    *)
(* worst case for the others.  A behaviour stays in one of the systems, so *)
(* they can share a condition: fairness of the disjunction is fairness of  *)
(* the disjunct of that system.                                            *)
Fairness ==
  /\ \A t \in Thread :
       /\ SF_mcvars(OnThreads /\ k.cur = t /\ L!ThreadStep)
       /\ SF_mcvars(\/ OnThreads /\ L!TickTimeout(t)
                    \/ OnMutex /\ t \in {th1, th3} /\ k.cur = t /\ X!ReleaseInner(A))
       /\ SF_mcvars(\/ OnThreads /\ k.cur = t /\ L!TickYield
                    \/ /\ OnMutex /\ t \in {th1, th3} /\ k.cur = t
                       /\ (X!ReleaseFree(A) \/ X!ReleasePass(A)))
  /\ WF_mcvars(OnMutex /\ X!InKernel)

MCSpec == MCInit /\ [][MCNext]_mcvars /\ Fairness

-----------------------------------------------------------------------------
(* The properties of Threads and Mutex. *)

(* A sleeping thread of the highest priority returns from rt_thread_sleep  *)
(* (thread.c:421-449).                                                     *)
SleepReturns ==
  \A t \in {th1, th2} :
    (object = "sleepers" /\ pc[t] = "sleep_sched") ~> pc[t] = "app"

(* A ready thread of the highest priority executes in its turn, whatever   *)
(* its equals do (thread.c:377-411, clock.c:83-105).                       *)
EqualsTakeTurns ==
  \A t \in {th1, th2} :
    (object = "sleepers" /\ k.stat[t] = "READY") ~> (k.cur = t \/ k.stat[t] # "READY")

(* No unbounded priority inversion: the most urgent thread gets the mutex  *)
(* it waits for, although a thread more urgent than the owner may keep the *)
(* processor busy for ever (ipc.c:706-715).                                *)
InversionBounded ==
  (object = "inversion" /\ pc[th1] = "take_sched") ~> pc[th1] = "app"
=============================================================================
