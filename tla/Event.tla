-------------------------------- MODULE Event --------------------------------
(***************************************************************************)
(* An event object of ipc.c: a set of bits, threads that wait for all      *)
(* (AND) or any (OR) of some bits and may CLEAR what they receive.         *)
(*                                                                         *)
(* A send wakes every waiter whose condition holds, in the order of the    *)
(* wait list, and a waiter that clears takes its bits from the waiters     *)
(* behind it.  asked[t] is thread->event_set and event_info while t is in  *)
(* rt_event_recv; outside it nothing reads them, and asked[t] is           *)
(* NoRequest.  pc[t]:                                                      *)
(*   app                      outside the kernel                           *)
(*   recv_sched, recv_error   queued; after rt_schedule(), error not read  *)
(*   recv_copy                before *recved = thread->event_set           *)
(*   call_sched               before the final rt_schedule()               *)
(*                                                                         *)
(* Receivers is event->parent.suspend_thread.                              *)
(***************************************************************************)
EXTENDS Calls

CONSTANTS
  EventBoot,      \* how the threads were started
  EventFlag,      \* the order of the wait list
  Bit,            \* the 32 bits in the code
  EventMayRecv    \* the threads that call rt_event_recv

EventAssumption ==
  /\ CallsAssumption /\ StartOK(EventBoot)
  /\ EventFlag \in {"FIFO", "PRIO"} /\ Bit # {}
  /\ EventMayRecv \subseteq Thread \ {Idle}

EventBitSet == (SUBSET Bit) \ {{}}

(* What a receiver asks for: a set of bits and the option flags *)
EventRequest == [bits : EventBitSet, all : BOOLEAN, clear : BOOLEAN]

VARIABLES
  set,        \* event->set
  asked,      \* thread->event_set (bits) and thread->event_info
  wish        \* history: the request as rt_event_recv got it

eventVars == <<k, pc, set, asked, wish>>

EventPC == {"app", "recv_sched", "recv_error", "recv_copy", "call_sched"}

EventTypeOK ==
  /\ k \in Kernel
  /\ pc \in [Thread -> EventPC]
  /\ set \subseteq Bit
  /\ asked \in [Thread -> EventRequest]
  /\ wish \in [Thread -> EventRequest]

EventNoRequest == [bits |-> Bit, all |-> TRUE, clear |-> FALSE]

EventInit ==
  /\ Started(EventBoot)
  /\ set = {}
  /\ asked = [t \in Thread |-> EventNoRequest]
  /\ wish = asked

-----------------------------------------------------------------------------
EventSatisfied(r, s) == IF r.all THEN r.bits \subseteq s ELSE r.bits \cap s # {}

(* The loop of rt_event_send over the wait list.  Its state: the kernel j, *)
(* the bits s still set, and the requests q.                               *)
EventVisitKeep(st, t) ==          \* mutant: the bits are not cleared
  IF ~EventSatisfied(st.q[t], st.s) THEN st
  ELSE [ j |-> Resume(st.j, t), s |-> st.s,
         q |-> [st.q EXCEPT ![t].bits = @ \cap st.s] ]

EventVisit(st, t) ==
  IF ~EventSatisfied(st.q[t], st.s) THEN st
  ELSE LET r == [st.q[t] EXCEPT !.bits = @ \cap st.s]
       IN  [ j |-> Resume(st.j, t),
             s |-> IF r.clear THEN st.s \ r.bits ELSE st.s,
             q |-> [st.q EXCEPT ![t] = r] ]

EventAfterSendFirst(bits) ==      \* mutant: only the first waiter is looked at
  LET st == [j |-> k, s |-> set \cup bits, q |-> asked]
  IN  IF Waiters(k, Receivers) = <<>> THEN st ELSE EventVisit(st, Waiters(k, Receivers)[1])

EventAfterSend(bits) ==
  LET n == Len(Waiters(k, Receivers))
      after[i \in 0 .. n] ==
        IF i = 0 THEN [j |-> k, s |-> set \cup bits, q |-> asked]
        ELSE EventVisit(after[i - 1], Waiters(k, Receivers)[i])
  IN  after[n]

EventSend(bits) ==
  LET st == EventAfterSend(bits)
  IN  /\ At("app")
      /\ k' = st.j /\ set' = st.s /\ asked' = st.q
      /\ Go(IF st.j # k THEN "call_sched" ELSE "app")
      /\ UNCHANGED wish

EventIsrSend(bits) ==
  LET st == EventAfterSend(bits)
  IN  /\ k' = IF st.j # k THEN Schedule(st.j) ELSE k
      /\ set' = st.s /\ asked' = st.q
      /\ UNCHANGED <<pc, wish>>

(* rt_event_recv with the condition true, with timeout 0, and waiting *)
EventRecvNow(r) ==
  /\ At("app") /\ Me \in EventMayRecv
  /\ EventSatisfied(r, set)
  /\ k' = WithError(k, Me, "EOK")
  /\ set' = IF r.clear THEN set \ r.bits ELSE set
  /\ UNCHANGED <<pc, asked, wish>>

EventRecvFails(r) ==
  /\ At("app") /\ Me \in EventMayRecv
  /\ ~EventSatisfied(r, set)
  /\ k' = WithError(k, Me, "ETIMEOUT")
  /\ UNCHANGED <<pc, set, asked, wish>>

EventRecvWait(r) ==
  /\ At("app") /\ Me \in EventMayRecv
  /\ ~EventSatisfied(r, set)
  /\ \E isTimed \in BOOLEAN : k' = Block(k, Receivers, Me, EventFlag, isTimed)
  /\ asked' = [asked EXCEPT ![Me] = r]
  /\ wish' = [wish EXCEPT ![Me] = r]
  /\ Go("recv_sched")
  /\ UNCHANGED set

EventRecvSchedule ==
  /\ At("recv_sched") /\ Go("recv_error")
  /\ k' = Schedule(k)
  /\ UNCHANGED <<set, asked, wish>>

EventRecvErrorBlind ==            \* mutant: thread->error is not read
  /\ At("recv_error") /\ Go("recv_copy")
  /\ UNCHANGED <<k, set, asked, wish>>

EventReturn ==
  /\ Go("app")
  /\ asked' = [asked EXCEPT ![Me] = EventNoRequest]
  /\ wish' = [wish EXCEPT ![Me] = EventNoRequest]

EventRecvError ==
  /\ At("recv_error")
  /\ IF k.err[Me] = "EOK" THEN Go("recv_copy") /\ UNCHANGED <<asked, wish>>
     ELSE EventReturn
  /\ UNCHANGED <<k, set>>

(* *recved = thread->event_set *)
EventRecvCopy ==
  /\ At("recv_copy") /\ EventReturn
  /\ UNCHANGED <<k, set>>

(* rt_event_control(RT_IPC_CMD_RESET) *)
EventReset ==
  /\ At("app") /\ Me # Idle
  /\ k' = ResumeAllWithError(k, Receivers)
  /\ set' = {}
  /\ Go("call_sched")
  /\ UNCHANGED <<asked, wish>>

(* The steps of Calls leave the event alone. *)
EventCallEnd == CallSchedule /\ UNCHANGED <<set, asked, wish>>
EventTick == Tick /\ UNCHANGED <<set, asked, wish>>

EventNext ==
  \/ \E bits \in EventBitSet : EventSend(bits) \/ EventIsrSend(bits)
  \/ \E r \in EventRequest : EventRecvNow(r) \/ EventRecvFails(r) \/ EventRecvWait(r)
  \/ EventRecvSchedule \/ EventRecvError \/ EventRecvCopy \/ EventCallEnd \/ EventReset
  \/ EventTick

EventSpec == EventInit /\ [][EventNext]_eventVars

-----------------------------------------------------------------------------
EventWaiting(t) == IsIn(Waiters(k, Receivers), t)

(* No lost wake-up: no thread waits for a condition that holds.            *)
EventNoSatisfiedWaiter == \A t \in Thread : EventWaiting(t) => ~EventSatisfied(asked[t], set)

(* What rt_event_recv returns after a wait is an answer to what was asked: *)
(* all of the bits for AND, some of them for OR, never after a time-out or *)
(* a reset.                                                                *)
EventAnswersRequest ==
  \A t \in Thread :
    pc[t] = "recv_copy" =>
      /\ asked[t].bits # {} /\ asked[t].bits \subseteq wish[t].bits
      /\ wish[t].all => asked[t].bits = wish[t].bits
      /\ k.err[t] = "EOK"

(* One send never gives a bit to two receivers that clear it, nor leaves a *)
(* bit set that a receiver cleared.                                        *)
EventClearsOnce ==
  LET woken == {t \in Thread : /\ EventWaiting(t) /\ ~EventWaiting(t)'
                               /\ k'.err[t] = "EOK" /\ asked[t].clear}
  IN  /\ \A t \in woken : asked'[t].bits \cap set' = {}
      /\ \A t, u \in woken : t # u => asked'[t].bits \cap asked'[u].bits = {}
=============================================================================
