------------------------------- MODULE Mailbox -------------------------------
(***************************************************************************)
(* A mailbox of ipc.c: a ring of MbSize mails, senders that wait while it  *)
(* is full and receivers that wait while it is empty.                      *)
(*                                                                         *)
(* A woken thread tests the ring again: another sender or receiver may     *)
(* have come first.  When it has to wait again its time-out is what is     *)
(* left of it, possibly nothing.  pc[t] is where t is in its call:         *)
(*   app                       outside the kernel                          *)
(*   send_sched, recv_sched    queued, before rt_schedule()                *)
(*   send_error, recv_error    after rt_schedule(), thread->error not read *)
(*   send_again, recv_again    no error: before it tests the ring again    *)
(*   call_sched                before the final rt_schedule()              *)
(*                                                                         *)
(* Receivers is mb->parent.suspend_thread, Senders                         *)
(* mb->suspend_sender_thread.                                              *)
(***************************************************************************)
EXTENDS Calls

CONSTANTS
  MbBoot,               \* how the threads were started
  MbFlag,               \* the order of the wait lists
  MbSize,               \* mb->size
  Mail,                 \* the values sent
  MbMaySend, MbMayRecv  \* the threads that call rt_mb_send_wait, rt_mb_recv

MailboxAssumption ==
  /\ CallsAssumption /\ StartOK(MbBoot)
  /\ MbFlag \in {"FIFO", "PRIO"}
  /\ MbSize \in Nat \ {0} /\ Mail # {}
  /\ MbMaySend \cup MbMayRecv \subseteq Thread \ {Idle}

VARIABLES pool, inOffset, outOffset   \* mb->msg_pool and its indices

mbRing == <<pool, entry, inOffset, outOffset>>
mbVars == <<k, pc, mbRing, mail, timed, last>>

MbPC == {"app", "send_sched", "send_error", "send_again",
         "recv_sched", "recv_error", "recv_again", "call_sched"}

MbTypeOK ==
  /\ k \in Kernel
  /\ pc \in [Thread -> MbPC]
  /\ pool \in [0 .. MbSize - 1 -> Mail]
  /\ entry \in 0 .. MbSize
  /\ inOffset \in 0 .. MbSize - 1 /\ outOffset \in 0 .. MbSize - 1
  /\ mail \in [Thread -> Mail]
  /\ timed \subseteq Thread
  /\ last \in {<<>>} \cup {<<x>> : x \in Mail}

MbInit ==
  /\ Started(MbBoot)
  /\ pool = [i \in 0 .. MbSize - 1 |-> CHOOSE x \in Mail : TRUE]
  /\ entry = 0 /\ inOffset = 0 /\ outOffset = 0
  /\ mail = [t \in Thread |-> CHOOSE x \in Mail : TRUE]
  /\ timed = {}
  /\ last = <<>>

-----------------------------------------------------------------------------
MbNextOffset(i) == IF i + 1 >= MbSize THEN 0 ELSE i + 1

(* The mail goes into the ring, or comes out of it. *)
MbStore(x) ==
  /\ pool' = [pool EXCEPT ![inOffset] = x]
  /\ inOffset' = MbNextOffset(inOffset)
  /\ entry' = entry + 1
  /\ UNCHANGED <<outOffset, last>>

MbFetch ==
  /\ last' = <<pool[outOffset]>>
  /\ outOffset' = MbNextOffset(outOffset)
  /\ entry' = entry - 1
  /\ UNCHANGED <<pool, inOffset>>

(* The thread waits in list q, for the time it has left if it has a        *)
(* time-out.                                                               *)
MbWaitIn(q, isTimed) == k' = Block(k, q, Me, MbFlag, isTimed)

(* rt_mb_send_wait; with timeout 0 a full mailbox changes nothing. *)
MbSend(x) ==
  /\ At("app") /\ Me \in MbMaySend
  /\ entry < MbSize
  /\ MbStore(x)
  /\ Wake(Receivers)
  /\ UNCHANGED <<mail, timed>>

MbSendWait(x) ==
  /\ At("app") /\ Me \in MbMaySend
  /\ entry = MbSize
  /\ \E isTimed \in BOOLEAN : MbWaitIn(Senders, isTimed) /\ Patience(isTimed)
  /\ mail' = [mail EXCEPT ![Me] = x]
  /\ Go("send_sched")
  /\ UNCHANGED <<mbRing, last>>

(* rt_mb_recv *)
MbRecv ==
  /\ At("app") /\ Me \in MbMayRecv
  /\ entry > 0
  /\ MbFetch
  /\ Wake(Senders)
  /\ UNCHANGED <<mail, timed>>

MbRecvWait ==
  /\ At("app") /\ Me \in MbMayRecv
  /\ entry = 0
  /\ \E isTimed \in BOOLEAN : MbWaitIn(Receivers, isTimed) /\ Patience(isTimed)
  /\ Go("recv_sched")
  /\ UNCHANGED <<mbRing, mail, last>>

(* rt_schedule() after queueing *)
MbWaitSchedule ==
  /\ \/ At("send_sched") /\ Go("send_error")
     \/ At("recv_sched") /\ Go("recv_error")
  /\ k' = Schedule(k)
  /\ UNCHANGED <<mbRing, mail, timed, last>>

(* "if (thread->error != RT_EOK) return thread->error", with interrupts    *)
(* enabled                                                                 *)
MbReadError ==
  /\ \/ At("send_error") /\ Go(IF k.err[Me] = "EOK" THEN "send_again" ELSE "app")
     \/ At("recv_error") /\ Go(IF k.err[Me] = "EOK" THEN "recv_again" ELSE "app")
  /\ UNCHANGED <<k, mbRing, mail, timed, last>>

(* The woken sender: it sends, waits again, or has no time left and        *)
(* returns -RT_EFULL.                                                      *)
MbSendAgainBlind ==             \* mutant: "if" for "while": it overwrites
  /\ At("send_again")
  /\ MbStore(mail[Me])
  /\ Wake(Receivers)
  /\ UNCHANGED <<mail, timed>>

MbSendAgain ==
  /\ At("send_again")
  /\ entry < MbSize
  /\ MbStore(mail[Me])
  /\ Wake(Receivers)
  /\ UNCHANGED <<mail, timed>>

MbSendWaitAgain ==
  /\ At("send_again")
  /\ entry = MbSize
  /\ MbWaitIn(Senders, Me \in timed)
  /\ Go("send_sched")
  /\ UNCHANGED <<mbRing, mail, timed, last>>

MbSendTimeUp ==
  /\ At("send_again")
  /\ entry = MbSize /\ Me \in timed
  /\ k' = WithError(k, Me, "EOK")
  /\ Go("app")
  /\ UNCHANGED <<mbRing, mail, timed, last>>

(* The woken receiver: likewise, and it sets the error it returns. *)
MbRecvAgainSilent ==            \* mutant: no sender is woken
  /\ At("recv_again")
  /\ entry > 0
  /\ MbFetch
  /\ UNCHANGED k /\ Go("app")
  /\ UNCHANGED <<mail, timed>>

MbRecvAgain ==
  /\ At("recv_again")
  /\ entry > 0
  /\ MbFetch
  /\ Wake(Senders)
  /\ UNCHANGED <<mail, timed>>

MbRecvWaitAgain ==
  /\ At("recv_again")
  /\ entry = 0
  /\ MbWaitIn(Receivers, Me \in timed)
  /\ Go("recv_sched")
  /\ UNCHANGED <<mbRing, mail, timed, last>>

MbRecvTimeUp ==
  /\ At("recv_again")
  /\ entry = 0 /\ Me \in timed
  /\ k' = WithError(k, Me, "ETIMEOUT")
  /\ Go("app")
  /\ UNCHANGED <<mbRing, mail, timed, last>>

(* rt_mb_control(RT_IPC_CMD_RESET) *)
MbReset ==
  /\ At("app") /\ Me # Idle
  /\ k' = ResumeAllWithError(ResumeAllWithError(k, Receivers), Senders)
  /\ entry' = 0 /\ inOffset' = 0 /\ outOffset' = 0
  /\ Go("call_sched")
  /\ UNCHANGED <<pool, mail, timed, last>>

(* A driver's interrupt handler sends or receives with timeout 0. *)
MbIsrSend(x) ==
  /\ entry < MbSize
  /\ MbStore(x)
  /\ k' = ResumeOne(Receivers)
  /\ UNCHANGED <<pc, mail, timed>>

MbIsrRecv ==
  /\ entry > 0
  /\ MbFetch
  /\ k' = ResumeOne(Senders)
  /\ UNCHANGED <<pc, mail, timed>>

(* The steps of Calls leave the mailbox alone. *)
MbReturn == CallSchedule /\ UNCHANGED <<mbRing, mail, timed, last>>
MbTick   == Tick /\ UNCHANGED <<mbRing, mail, timed, last>>

MbNext ==
  \/ \E x \in Mail : MbSend(x) \/ MbSendWait(x) \/ MbIsrSend(x)
  \/ MbRecv \/ MbRecvWait \/ MbIsrRecv \/ MbReset
  \/ MbWaitSchedule \/ MbReadError \/ MbReturn
  \/ MbSendAgain \/ MbSendWaitAgain \/ MbSendTimeUp
  \/ MbRecvAgain \/ MbRecvWaitAgain \/ MbRecvTimeUp
  \/ MbTick

MbSpec == MbInit /\ [][MbNext]_mbVars

-----------------------------------------------------------------------------
MbRecvCalls == {"recv_sched", "recv_error", "recv_again"}
MbSendCalls == {"send_sched", "send_error", "send_again"}

(* No lost wake-up: mails that lie in the box while receivers wait are     *)
(* matched by receivers already woken for them, whoever comes first; and   *)
(* the same for free slots and senders.                                    *)
MbNobodyStranded ==
  /\ Waiters(k, Receivers) # <<>> => entry <= Cardinality(Woken(MbRecvCalls, Receivers))
  /\ Waiters(k, Senders) # <<>> => MbSize - entry <= Cardinality(Woken(MbSendCalls, Senders))

(* Mails are delivered once, in the order of the sends, whatever waits,    *)
(* time-outs and interrupt handlers interleave.                            *)
MbContents == [i \in 1 .. entry |-> pool[(outOffset + i - 1) % MbSize]]
=============================================================================
