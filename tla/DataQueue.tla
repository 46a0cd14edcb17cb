------------------------------ MODULE DataQueue ------------------------------
(***************************************************************************)
(* The data queue of the driver framework (dataqueue.c): a ring of Size    *)
(* items between threads that push and threads that pop, with a low water  *)
(* mark: a pusher that found the queue full is woken when a pop leaves at  *)
(* most Lwm items.                                                         *)
(*                                                                         *)
(*   push_sched, pop_sched    queued, before rt_schedule()                 *)
(*   push_error, pop_error    after rt_schedule(), thread->error not read  *)
(*   push_again, pop_again    no error: before the loop tests again        *)
(*   call_sched               before the rt_schedule() of the return       *)
(*   reset_pop, reset_push    before the reset tests the list of poppers   *)
(*                            (pushers) with interrupts enabled            *)
(*   wake_pop, wake_push      the list was not empty: before its first     *)
(*                            thread is taken                              *)
(*                                                                         *)
(* The indices run from 0 to IndexRange - 1 and wrap, but the tests for a  *)
(* full queue and for the low water mark subtract them as ints: between    *)
(* the wrap of put_index and that of get_index the difference is negative, *)
(* the queue is never full, and a push may store over an item that was not *)
(* popped.  The history overrun remembers that; nothing is promised then.  *)
(*                                                                         *)
(* Two faults end the model, because the code has no defined behaviour     *)
(* after them: a list head taken for a thread (stray), and a return with   *)
(* interrupts left disabled (masked), after which the processor neither    *)
(* takes an interrupt nor switches threads.                                *)
(*                                                                         *)
(* Receivers is queue->suspended_pop_list, Senders suspended_push_list.    *)
(***************************************************************************)
EXTENDS Calls

CONSTANTS
  DqBoot,               \* how the threads were started
  DqSize, Lwm,          \* queue->size, queue->lwm
  Item,                 \* the values pushed
  DqMayPush, DqMayPop,  \* the threads that call rt_data_queue_push, _pop
  IndexRange            \* the values of an index, 2^16 in the code

DataQueueAssumption ==
  /\ CallsAssumption /\ StartOK(DqBoot)
  /\ DqSize \in Nat \ {0} /\ Lwm \in 0 .. DqSize
  /\ IndexRange \in Nat /\ DqSize < IndexRange
  /\ Item # {} /\ DqMayPush \cup DqMayPop \subseteq Thread \ {Idle}

(* i & (size - 1): the number with the binary digits that both have        *)
Digit(a, j) == (a \div 2^j) % 2
DqSlot(i) ==
  CHOOSE c \in 0 .. i : \A j \in 0 .. 15 : Digit(c, j) = Digit(i, j) * Digit(DqSize - 1, j)

(* What the mask needs and rt_data_queue_init does not test: a size that   *)
(* is a power of two.                                                      *)
SizeFits ==
  /\ IndexRange % DqSize = 0
  /\ \A i \in 0 .. IndexRange - 1 : DqSlot(i) = i % DqSize

VARIABLES
  slots, getIndex, putIndex,   \* queue->queue and its indices
  overrun,    \* history: an item was stored over another
  waiting,    \* queue->waiting_lwm
  fault       \* "none", "stray" or "masked"

dqRing == <<slots, getIndex, putIndex, overrun>>
dqVars == <<k, pc, dqRing, waiting, mail, timed, last, fault>>

DqPC == {"app", "push_sched", "push_error", "push_again",
         "pop_sched", "pop_error", "pop_again", "call_sched",
         "reset_pop", "wake_pop", "reset_push", "wake_push"}

DqTypeOK ==
  /\ k \in Kernel
  /\ pc \in [Thread -> DqPC]
  /\ slots \in [0 .. DqSize - 1 -> Item]
  /\ {getIndex, putIndex} \subseteq 0 .. IndexRange - 1
  /\ {overrun, waiting} \subseteq BOOLEAN
  /\ mail \in [Thread -> Item] /\ timed \subseteq Thread
  /\ last \in {<<>>} \cup {<<x>> : x \in Item}
  /\ fault \in {"none", "stray", "masked"}

(* rt_data_queue_init *)
DqInit ==
  /\ Started(DqBoot)
  /\ slots = [i \in 0 .. DqSize - 1 |-> CHOOSE x \in Item : TRUE]
  /\ getIndex = 0 /\ putIndex = 0 /\ overrun = FALSE /\ waiting = FALSE
  /\ mail = [t \in Thread |-> CHOOSE x \in Item : TRUE]
  /\ timed = {} /\ last = <<>> /\ fault = "none"

-----------------------------------------------------------------------------
DqFull  == putIndex - getIndex = DqSize
DqEmpty == getIndex = putIndex
DqIndex(i) == i % IndexRange

(* The items that were pushed and not popped *)
DqCount == DqIndex(putIndex - getIndex)

DqStore(x) ==
  /\ slots' = [slots EXCEPT ![DqSlot(putIndex)] = x]
  /\ putIndex' = DqIndex(putIndex + 1)
  /\ overrun' = (overrun \/ DqCount = DqSize)
  /\ UNCHANGED <<getIndex, last>>

DqFetch ==
  /\ last' = <<slots[DqSlot(getIndex)]>>
  /\ getIndex' = DqIndex(getIndex + 1)
  /\ UNCHANGED <<slots, putIndex, overrun>>

(* put_index - get_index after a pop *)
DqLeft == putIndex - DqIndex(getIndex + 1)

(* The end of a pop, n the difference of the indices it leaves.  At the    *)
(* low water mark the flag is taken for a waiting pusher; if there is      *)
(* none, nothing enables the interrupts again.                             *)
DqAtMark(n) == waiting /\ n <= Lwm
DqMasks(n) == DqAtMark(n) /\ Waiters(k, Senders) = <<>>

DqWakePusherAbove(n) ==        \* mutant: the low water mark is missed by one
  /\ waiting' = (waiting /\ ~(n < Lwm))
  /\ fault' = IF waiting /\ n < Lwm /\ Waiters(k, Senders) = <<>> THEN "masked" ELSE fault
  /\ IF waiting /\ n < Lwm /\ Waiters(k, Senders) # <<>>
     THEN k' = ListResume(k, Senders) /\ Go("call_sched")
     ELSE UNCHANGED k /\ Go("app")

DqWakePusher(n) ==
  /\ waiting' = (waiting /\ ~DqAtMark(n))
  /\ fault' = IF DqMasks(n) THEN "masked" ELSE fault
  /\ IF DqAtMark(n) /\ ~DqMasks(n)
     THEN k' = ListResume(k, Senders) /\ Go("call_sched")
     ELSE UNCHANGED k /\ Go("app")

DqPushItem(x) == ~DqFull /\ DqStore(x) /\ Wake(Receivers) /\ UNCHANGED <<waiting, fault>>

DqPopItem == ~DqEmpty /\ DqFetch /\ DqWakePusher(DqLeft)

(* A call that waits is queued FIFO; a woken thread that has to wait again *)
(* waits for the whole time-out again.                                     *)
DqPushQueue(isTimed) ==
  /\ DqFull
  /\ waiting' = TRUE
  /\ k' = Block(k, Senders, Me, "FIFO", isTimed)
  /\ Go("push_sched")
  /\ UNCHANGED <<dqRing, last, fault>>

DqPopQueue(isTimed) ==
  /\ DqEmpty
  /\ k' = Block(k, Receivers, Me, "FIFO", isTimed)
  /\ Go("pop_sched")
  /\ UNCHANGED <<dqRing, waiting, last, fault>>

(* rt_data_queue_push; without time to wait a full queue only leaves the   *)
(* flag set.                                                               *)
DqPush(x) == At("app") /\ Me \in DqMayPush /\ DqPushItem(x) /\ UNCHANGED <<mail, timed>>

DqPushFails ==
  /\ At("app") /\ Me \in DqMayPush /\ DqFull
  /\ waiting' = TRUE
  /\ UNCHANGED <<k, pc, dqRing, mail, timed, last, fault>>

DqPushWait(x) ==
  /\ At("app") /\ Me \in DqMayPush
  /\ \E isTimed \in BOOLEAN : DqPushQueue(isTimed) /\ Patience(isTimed)
  /\ mail' = [mail EXCEPT ![Me] = x]

DqPushAgain ==
  /\ At("push_again")
  /\ DqPushItem(mail[Me]) \/ DqPushQueue(Me \in timed)
  /\ UNCHANGED <<mail, timed>>

(* rt_data_queue_pop *)
DqPop == At("app") /\ Me \in DqMayPop /\ DqPopItem /\ UNCHANGED <<mail, timed>>

DqPopWait ==
  /\ At("app") /\ Me \in DqMayPop
  /\ \E isTimed \in BOOLEAN : DqPopQueue(isTimed) /\ Patience(isTimed)
  /\ UNCHANGED mail

DqPopAgainOnce ==              \* mutant: "if" for "while": it pops nothing
  /\ At("pop_again")
  /\ DqFetch /\ DqWakePusher(0)
  /\ UNCHANGED <<mail, timed>>

DqPopAgain ==
  /\ At("pop_again")
  /\ DqPopItem \/ DqPopQueue(Me \in timed)
  /\ UNCHANGED <<mail, timed>>

DqWaitSchedule ==
  /\ \/ At("push_sched") /\ Go("push_error")
     \/ At("pop_sched") /\ Go("pop_error")
  /\ k' = Schedule(k)
  /\ UNCHANGED <<dqRing, waiting, mail, timed, last, fault>>

DqReadError ==
  /\ \/ At("push_error") /\ Go(IF k.err[Me] = "EOK" THEN "push_again" ELSE "app")
     \/ At("pop_error") /\ Go(IF k.err[Me] = "EOK" THEN "pop_again" ELSE "app")
  /\ UNCHANGED <<k, dqRing, waiting, mail, timed, last, fault>>

(* rt_data_queue_reset: under the scheduler lock each list is emptied, one *)
(* thread at a time.  The items stay.                                      *)
DqResetBegin ==
  /\ At("app") /\ Me # Idle
  /\ k' = [k EXCEPT !.nest = @ + 1]
  /\ Go("reset_pop")
  /\ UNCHANGED <<dqRing, waiting, mail, timed, last, fault>>

DqResetTest ==
  /\ \/ At("reset_pop") /\ Go(IF Waiters(k, Receivers) # <<>> THEN "wake_pop" ELSE "reset_push")
     \/ At("reset_push") /\ Waiters(k, Senders) # <<>> /\ Go("wake_push")
  /\ UNCHANGED <<k, dqRing, waiting, mail, timed, last, fault>>

DqWakeFirst(q, to) ==
  /\ IF Waiters(k, q) # <<>>
     THEN k' = ResumeFirstWithError(k, q) /\ UNCHANGED fault
     ELSE fault' = "stray" /\ UNCHANGED k
  /\ Go(to)

DqResetWake ==
  /\ \/ At("wake_pop") /\ DqWakeFirst(Receivers, "reset_pop")
     \/ At("wake_push") /\ DqWakeFirst(Senders, "reset_push")
  /\ UNCHANGED <<dqRing, waiting, mail, timed, last>>

(* rt_exit_critical and the rt_schedule() after it *)
DqResetEnd ==
  /\ At("reset_push") /\ Waiters(k, Senders) = <<>>
  /\ k' = Schedule([k EXCEPT !.nest = @ - 1])
  /\ Go("app")
  /\ UNCHANGED <<dqRing, waiting, mail, timed, last, fault>>

(* A driver's interrupt handler pushes or pops without waiting. *)
DqIsrPush(x) ==
  /\ \/ /\ ~DqFull /\ DqStore(x)
        /\ k' = ResumeOne(Receivers)
        /\ UNCHANGED waiting
     \/ /\ DqFull /\ waiting' = TRUE
        /\ UNCHANGED <<k, dqRing, last>>
  /\ UNCHANGED <<pc, mail, timed, fault>>

DqIsrPop ==
  LET n == DqLeft
  IN  /\ ~DqEmpty
      /\ DqFetch
      /\ waiting' = (waiting /\ ~DqAtMark(n))
      /\ fault' = IF DqMasks(n) THEN "masked" ELSE fault
      /\ k' = IF DqAtMark(n) /\ ~DqMasks(n) THEN Schedule(ListResume(k, Senders)) ELSE k
      /\ UNCHANGED <<pc, mail, timed>>

(* The steps of Calls leave the queue alone. *)
DqReturn == CallSchedule /\ UNCHANGED <<dqRing, waiting, mail, timed, last, fault>>
DqTick == Tick /\ UNCHANGED <<dqRing, waiting, mail, timed, last, fault>>

DqSteps ==
  \/ \E x \in Item : DqPush(x) \/ DqPushWait(x) \/ DqIsrPush(x)
  \/ DqPushFails \/ DqPushAgain \/ DqPop \/ DqPopWait \/ DqPopAgain \/ DqIsrPop
  \/ DqWaitSchedule \/ DqReadError \/ DqReturn
  \/ DqResetBegin \/ DqResetTest \/ DqResetWake \/ DqResetEnd
  \/ DqTick

DqNext == fault = "none" /\ DqSteps

DqSpec == DqInit /\ [][DqNext]_dqVars

-----------------------------------------------------------------------------
(* No lost wake-up: items that lie in the queue while poppers wait are     *)
(* matched by poppers woken for them; and, while no item is overrun, a     *)
(* pusher that waits (one only, see README) is counted on by the flag and  *)
(* waits above the mark.                                                   *)
DqNobodyStranded ==
  /\ Waiters(k, Receivers) # <<>> =>
       DqCount <= Cardinality(Woken({"pop_sched", "pop_error", "pop_again"}, Receivers))
  /\ ~overrun /\ Waiters(k, Senders) # <<>> =>
       waiting /\ (DqCount > Lwm \/ DqFull \/ fault # "none")

(* Items are popped once, in the order they were pushed; a reset of the    *)
(* waiting threads drops none.                                             *)
DqContents == [i \in 1 .. DqCount |-> slots[DqSlot(DqIndex(getIndex + i - 1))]]

(* "there is at least one thread in suspended list" (dataqueue.c:217): a   *)
(* pop that takes the flag finds a waiting pusher, so that it returns with *)
(* interrupts enabled.                                                     *)
MarkHasPusher == fault # "masked"
=============================================================================
