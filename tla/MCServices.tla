----------------------------- MODULE MCServices -----------------------------
(***************************************************************************)
(* The services of the kernel beside the ones of MCIpc; the variable       *)
(* object says which one:                                                  *)
(*                                                                         *)
(*   plain    three threads, hi more urgent than mid and mid than lo, take *)
(*            the mutex A, recursively, and sleep with it; the wait list   *)
(*            is ordered by priority                                       *)
(*   nested   lo takes A, which hi uses, and B, which mid uses, and        *)
(*            releases them in the reverse order; the wait lists are FIFO  *)
(*            and no two threads can wait for each other                   *)
(*   hard     hard timers: tm1 is periodic and expires after 1 or 2 ticks, *)
(*            tm2 after 2.  A thread starts, stops and detaches tm1, an    *)
(*            interrupt handler starts tm2, the timeout functions stop     *)
(*            timers.  The tick wraps                                      *)
(*   soft     the same timers, soft.  A thread starts and stops tm2, whose *)
(*            timeout function starts tm1, whose timeout function stops it *)
(*   heap     Heap, with the constants of the configuration              *)
(*                                                                         *)
(* The others keep their initial state while one is checked.               *)
(***************************************************************************)
EXTENDS Mutexes, Heap, Timers, TLC

CONSTANTS hi, mid, lo, idle, A, B, tm1, tm2, sleep

mcvars == <<object, vars, heapVars, timersVars>>

(* The mutex of the configuration is the plain one. *)
MCInitPrio == (hi :> 0) @@ (mid :> 1) @@ (lo :> 2) @@ (idle :> 3)
MCBoot     == (0 :> <<hi>>) @@ (1 :> <<mid>>) @@ (2 :> <<lo>>) @@ (3 :> <<idle>>)
PlainUses  == {hi, mid, lo} \X {A}
MCNested   == {<<hi, A>>, <<mid, B>>, <<lo, A>>, <<lo, B>>}

(* The timers of the configuration are the soft ones. *)
MCInitTicks ==
  [x \in Timer |-> IF x = sleep THEN {1} ELSE IF x = tm1 THEN {1, 2} ELSE {2}]
MCAppOp      == {"start", "stop"} \X {tm2}
MCCallbackOp == {<<tm2, "start", tm1>>, <<tm1, "stop", tm1>>}

Hard == INSTANCE Timers WITH
  SoftTimer <- {}, LastTick <- TickMod, MaxLag <- 1,
  AppOp <- {"start", "stop", "detach"} \X {tm1}, IsrStart <- {tm2},
  CallbackOp <- {<<tm2, "stop", tm1>>, <<tm1, "stop", tm1>>, <<tm2, "stop", tm2>>}

(* Both meet the hypotheses of the theorems about the timers. *)
ASSUME
  /\ MutexAssumption /\ Nested!MutexAssumption
  /\ Hard!TimersAssumption /\ Hard!InReach /\ Hard!OneStarter
  /\ Hard!SoftInThreads /\ Hard!StopsOnlyOwn
  /\ TimersAssumption /\ InReach /\ OneStarter /\ SoftInThreads /\ StopsOnlyOwn
  /\ HeapAssumption

OnMutex  == UNCHANGED <<heapVars, timersVars>>
OnHard   == object = "hard" /\ UNCHANGED <<object, vars, heapVars>>
OnSoft   == object = "soft" /\ UNCHANGED <<object, vars, heapVars>>
OnHeap   == object = "heap" /\ UNCHANGED <<object, vars, timersVars>>

MCInit ==
  /\ Init /\ HeapInit
  /\ \/ object = "hard" /\ Hard!TimersInit
     \/ object = "soft" /\ TimersInit
     \/ object \in {"plain", "nested", "heap"} /\ TimersInit /\ tm.init[tm1] = 1

(* Without soft timers the timer thread suspends itself for good; nobody   *)
(* detaches a soft timer, changes its time or starts it in an interrupt.   *)
MCNext ==
  \/ OnMutex /\ MutexesNext
  \/ \E c \in Hard!Context :
       \/ OnHard /\ Hard!StartRemove(c)
       \/ OnHard /\ Hard!StartStamp(c)
       \/ OnHard /\ Hard!StartInsert(c)
       \/ OnHard /\ Hard!StopTest(c)
       \/ OnHard /\ Hard!StopUnlink(c)
       \/ OnHard /\ Hard!StopClear(c)
       \/ OnHard /\ Hard!Detach(c)
  \/ OnHard /\ Hard!AppCall
  \/ OnHard /\ Hard!SetTime
  \/ OnHard /\ Hard!TickIncrease
  \/ OnHard /\ Hard!ExpireHard
  \/ OnHard /\ Hard!CheckEnd
  \/ OnHard /\ Hard!IsrStarts
  \/ OnHard /\ Hard!NextTimeout
  \/ OnHard /\ Hard!SuspendSelf
  \/ \E c \in Hard!Context :
       \/ OnSoft /\ StartRemove(c)
       \/ OnSoft /\ StartStamp(c)
       \/ OnSoft /\ StartInsert(c)
       \/ OnSoft /\ StartWake(c)
       \/ OnSoft /\ StopTest(c)
       \/ OnSoft /\ StopUnlink(c)
       \/ OnSoft /\ StopClear(c)
  \/ OnSoft /\ AppCall
  \/ OnSoft /\ TickIncrease
  \/ OnSoft /\ ExpireSleep
  \/ OnSoft /\ CheckEnd
  \/ OnSoft /\ NextTimeout
  \/ OnSoft /\ SuspendSelf
  \/ OnSoft /\ ReadTick
  \/ OnSoft /\ DelaySelf
  \/ OnSoft /\ CheckBegin
  \/ OnSoft /\ CallSoft
  \/ OnSoft /\ CheckDone
  \/ OnSoft /\ Callback
  \/ OnSoft /\ CallbackReturn
  \/ \E c \in Caller :
       \/ OnHeap /\ \E n \in Request : Malloc(c, n)
       \/ OnHeap /\ \E a \in DOMAIN live, n \in Request : Shrink(c, a, n)
       \/ OnHeap /\ \E a \in DOMAIN live, n \in Request : Grow(c, a, n)
       \/ OnHeap /\ \E a \in DOMAIN live : Same(c, a)
       \/ OnHeap /\ \E a \in DOMAIN live : Free(c, a)
       \/ OnHeap /\ GrowAlloc(c)
       \/ OnHeap /\ GrowFails(c)
       \/ OnHeap /\ GrowFree(c)

MCSpec == MCInit /\ [][MCNext]_mcvars

-----------------------------------------------------------------------------
(* MutualExclusion, PriorityRestored and ImplementsLock are those of       *)
(* Mutex, HeapTiled and UsedExact those of Heap.  SortedLists,             *)
(* CheckLeavesNothingDue, SoftWatched and OnlyStartedExpire are those of   *)
(* Timers: the first two speak of both lists, the other two of the soft    *)
(* timers, of which there are none in "hard".                              *)
=============================================================================
