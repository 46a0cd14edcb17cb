---------------------------- MODULE MessageQueue ----------------------------
(***************************************************************************)
(* A message queue of ipc.c.  Its messages are nodes of a pool, linked by  *)
(* msg->next into a free list and into the queue.  A message is copied     *)
(* with interrupts enabled: a sender first takes a node off the free list  *)
(* and links it into the queue in a later region, a receiver first takes   *)
(* it off the queue and frees it later.  node[t] is the node of the call   *)
(* of t; pc[t] is where t is:                                              *)
(*   app                     outside the kernel                            *)
(*   send_copy, urgent_copy  has a free node, before rt_memcpy             *)
(*   send_link, urgent_link  copied, before the second region              *)
(*   recv_sched, recv_error, recv_again      as in Mailbox                 *)
(*   recv_copy, recv_free    took a node off the queue, copied it          *)
(*   call_sched              before the final rt_schedule()                *)
(*                                                                         *)
(* Receivers is mq->parent.suspend_thread.                                 *)
(***************************************************************************)
EXTENDS Calls

CONSTANTS
  MqBoot,               \* how the threads were started
  MqFlag,               \* the order of the wait list
  Node,                 \* the messages of mq->msg_pool, mq->max_msgs of them
  Payload,              \* what is copied
  MqMaySend, MqMayRecv  \* the threads that send, that receive

MessageQueueAssumption ==
  /\ CallsAssumption /\ StartOK(MqBoot)
  /\ MqFlag \in {"FIFO", "PRIO"}
  /\ IsFiniteSet(Node) /\ Node # {} /\ Null \notin Node /\ Payload # {}
  /\ MqMaySend \cup MqMayRecv \subseteq Thread \ {Idle}

VARIABLES
  head, tail, free, next,   \* mq->msg_queue_*, msg->next
  data,       \* the bytes behind each message header
  node,       \* the node of a thread's call
  item,       \* what a thread sends; history: what it is to receive
  got         \* what a receiver has copied (these three only during a call)

mqLinks == <<head, tail, free, next, entry>>
mqLocals == <<node, item, got, timed>>
mqVars == <<k, pc, mqLinks, data, mqLocals, last>>

MqPC == {"app", "send_copy", "send_link", "urgent_copy", "urgent_link",
         "recv_sched", "recv_error", "recv_again", "recv_copy", "recv_free", "call_sched"}

MqPointer == Node \cup {Null}

(* The values of node, item and got outside a call, where nobody reads them *)
MqNoNode == CHOOSE n \in Node : TRUE
MqNoItem == CHOOSE x \in Payload : TRUE

MqTypeOK ==
  /\ k \in Kernel
  /\ pc \in [Thread -> MqPC]
  /\ {head, tail, free} \subseteq MqPointer
  /\ next \in [Node -> MqPointer]
  /\ entry \in 0 .. Cardinality(Node)
  /\ data \in [Node -> Payload]
  /\ node \in [Thread -> Node]
  /\ item \in [Thread -> Payload]
  /\ got \in [Thread -> Payload]
  /\ timed \subseteq Thread
  /\ last \in {<<>>} \cup {<<x>> : x \in Payload}

(* The nodes from pointer p on, and the pointer at the end *)
MqChain(p) == ChainOf(Node, next, p)

(* The messages of the queue, without the final RT_NULL *)
MqMessages == SubSeq(MqChain(head), 1, Len(MqChain(head)) - 1)

MqInit ==
  /\ Started(MqBoot)
  /\ head = Null /\ tail = Null /\ entry = 0
  /\ free \in Node /\ next \in [Node -> MqPointer] /\ LinkedAll(Node, free, next)
  /\ data = [n \in Node |-> MqNoItem]
  /\ node = [t \in Thread |-> MqNoNode]
  /\ item = [t \in Thread |-> MqNoItem]
  /\ got = item
  /\ timed = {} /\ last = <<>>

-----------------------------------------------------------------------------
MqCallOver ==
  /\ node' = [node EXCEPT ![Me] = MqNoNode]
  /\ item' = [item EXCEPT ![Me] = MqNoItem]
  /\ got' = [got EXCEPT ![Me] = MqNoItem]

MqSendTakeShared(x, to) ==      \* mutant: the free pointer is moved later
  /\ At("app") /\ Me \in MqMaySend
  /\ free # Null
  /\ node' = [node EXCEPT ![Me] = free]
  /\ item' = [item EXCEPT ![Me] = x]
  /\ Go(to)
  /\ UNCHANGED <<k, mqLinks, data, got, timed, last>>

(* rt_mq_send and rt_mq_urgent, first region: -RT_EFULL, which changes     *)
(* nothing, or a node off the free list                                    *)
MqSendTake(x, to) ==
  /\ At("app") /\ Me \in MqMaySend
  /\ free # Null
  /\ node' = [node EXCEPT ![Me] = free]
  /\ item' = [item EXCEPT ![Me] = x]
  /\ free' = next[free]
  /\ Go(to)
  /\ UNCHANGED <<k, head, tail, next, entry, data, got, timed, last>>

MqSendCopy ==
  /\ At("send_copy") /\ Go("send_link")
  /\ next' = [next EXCEPT ![node[Me]] = Null]
  /\ data' = [data EXCEPT ![node[Me]] = item[Me]]
  /\ UNCHANGED <<k, head, tail, free, entry, mqLocals, last>>

MqUrgentCopy ==
  /\ At("urgent_copy") /\ Go("urgent_link")
  /\ data' = [data EXCEPT ![node[Me]] = item[Me]]
  /\ UNCHANGED <<k, mqLinks, mqLocals, last>>

MqLinkLast(n, nx) ==
  /\ next' = IF tail = Null THEN nx ELSE [nx EXCEPT ![tail] = n]
  /\ tail' = n
  /\ head' = IF head = Null THEN n ELSE head
  /\ entry' = entry + 1

MqLinkFirst(n) ==
  /\ next' = [next EXCEPT ![n] = head]
  /\ head' = n
  /\ tail' = IF tail = Null THEN n ELSE tail
  /\ entry' = entry + 1

MqSendLink ==
  /\ At("send_link")
  /\ MqLinkLast(node[Me], next)
  /\ Wake(Receivers)
  /\ MqCallOver
  /\ UNCHANGED <<free, data, timed, last>>

MqUrgentLink ==
  /\ At("urgent_link")
  /\ MqLinkFirst(node[Me])
  /\ Wake(Receivers)
  /\ MqCallOver
  /\ UNCHANGED <<free, data, timed, last>>

(* rt_mq_recv: a wait, and the region that takes the first node *)
MqRecvWait ==
  /\ At("app") /\ Me \in MqMayRecv
  /\ entry = 0
  /\ \E isTimed \in BOOLEAN :
       k' = Block(k, Receivers, Me, MqFlag, isTimed) /\ Patience(isTimed)
  /\ Go("recv_sched")
  /\ UNCHANGED <<mqLinks, data, node, item, got, last>>

MqUnlinkFreed ==                \* mutant: freed before it is copied
  /\ node' = [node EXCEPT ![Me] = head]
  /\ item' = [item EXCEPT ![Me] = data[head]]
  /\ last' = <<data[head]>>
  /\ head' = next[head]
  /\ tail' = IF tail = head THEN Null ELSE tail
  /\ next' = [next EXCEPT ![head] = free]
  /\ free' = head
  /\ entry' = entry - 1
  /\ Go("recv_copy")
  /\ UNCHANGED <<k, data, got, timed>>

MqUnlinkKeepTail ==             \* mutant: the tail of the empty queue stays
  /\ node' = [node EXCEPT ![Me] = head]
  /\ item' = [item EXCEPT ![Me] = data[head]]
  /\ last' = <<data[head]>>
  /\ head' = next[head]
  /\ tail' = tail
  /\ entry' = entry - 1
  /\ Go("recv_copy")
  /\ UNCHANGED <<k, free, next, data, got, timed>>

MqUnlink ==
  /\ node' = [node EXCEPT ![Me] = head]
  /\ item' = [item EXCEPT ![Me] = data[head]]
  /\ last' = <<data[head]>>
  /\ head' = next[head]
  /\ tail' = IF tail = head THEN Null ELSE tail
  /\ entry' = entry - 1
  /\ Go("recv_copy")
  /\ UNCHANGED <<k, free, next, data, got, timed>>

MqRecvNow == At("app") /\ Me \in MqMayRecv /\ entry > 0 /\ MqUnlink

MqRecvSchedule ==
  /\ At("recv_sched") /\ Go("recv_error")
  /\ k' = Schedule(k)
  /\ UNCHANGED <<mqLinks, data, mqLocals, last>>

MqRecvError ==
  /\ At("recv_error") /\ Go(IF k.err[Me] = "EOK" THEN "recv_again" ELSE "app")
  /\ UNCHANGED <<k, mqLinks, data, mqLocals, last>>

MqRecvAgain == At("recv_again") /\ entry > 0 /\ MqUnlink

MqRecvWaitAgain ==
  /\ At("recv_again") /\ entry = 0
  /\ k' = Block(k, Receivers, Me, MqFlag, Me \in timed)
  /\ Go("recv_sched")
  /\ UNCHANGED <<mqLinks, data, mqLocals, last>>

MqRecvTimeUp ==
  /\ At("recv_again") /\ entry = 0 /\ Me \in timed
  /\ k' = WithError(k, Me, "ETIMEOUT")
  /\ Go("app")
  /\ UNCHANGED <<mqLinks, data, mqLocals, last>>

(* The copy, with interrupts enabled, and the region that frees the node   *)
MqFreeNode(n) ==
  /\ next' = [next EXCEPT ![n] = free]
  /\ free' = n
  /\ UNCHANGED <<head, tail, entry>>

MqRecvCopy ==
  /\ At("recv_copy") /\ Go("recv_free")
  /\ got' = [got EXCEPT ![Me] = data[node[Me]]]
  /\ UNCHANGED <<k, mqLinks, data, node, item, timed, last>>

MqRecvFree ==
  /\ At("recv_free") /\ Go("app")
  /\ MqFreeNode(node[Me])
  /\ MqCallOver
  /\ UNCHANGED <<k, data, timed, last>>

(* rt_mq_control(RT_IPC_CMD_RESET): each message goes to the free list in  *)
(* turn, so that the last of the queue comes first there.                  *)
MqReset ==
  LET s == MqMessages
  IN  /\ At("app") /\ Me # Idle
      /\ k' = ResumeAllWithError(k, Receivers)
      /\ next' = [n \in Node |->
                    IF IsIn(s, n)
                    THEN LET i == CHOOSE i \in DOMAIN s : s[i] = n
                         IN  IF i = 1 THEN free ELSE s[i - 1]
                    ELSE next[n]]
      /\ free' = IF s = <<>> THEN free ELSE s[Len(s)]
      /\ head' = Null /\ tail' = Null /\ entry' = 0
      /\ Go("call_sched")
      /\ UNCHANGED <<data, mqLocals, last>>

(* A driver's interrupt handler sends, from the first region to the last. *)
MqIsrSend(x) ==
  /\ free # Null
  /\ MqLinkLast(free, [next EXCEPT ![free] = Null])
  /\ data' = [data EXCEPT ![free] = x]
  /\ free' = next[free]
  /\ k' = ResumeOne(Receivers)
  /\ UNCHANGED <<pc, mqLocals, last>>

(* The steps of Calls leave the queue alone. *)
MqReturn == CallSchedule /\ UNCHANGED <<mqLinks, data, mqLocals, last>>
MqTick   == Tick /\ UNCHANGED <<mqLinks, data, mqLocals, last>>

MqNext ==
  \/ \E x \in Payload : MqSendTake(x, "send_copy") \/ MqSendTake(x, "urgent_copy") \/ MqIsrSend(x)
  \/ MqSendCopy \/ MqUrgentCopy \/ MqSendLink \/ MqUrgentLink
  \/ MqRecvNow \/ MqRecvWait \/ MqRecvSchedule \/ MqRecvError
  \/ MqRecvAgain \/ MqRecvWaitAgain \/ MqRecvTimeUp \/ MqRecvCopy \/ MqRecvFree
  \/ MqReset \/ MqReturn \/ MqTick

MqSpec == MqInit /\ [][MqNext]_mqVars

-----------------------------------------------------------------------------
MqQueued == {n \in Node : IsIn(MqChain(head), n)}
MqFree   == {n \in Node : IsIn(MqChain(free), n)}
MqMine(t) ==
  IF pc[t] \in {"send_copy", "send_link", "urgent_copy", "urgent_link",
                "recv_copy", "recv_free"} THEN {node[t]} ELSE {}

(* Every message is in one place: the queue, the free list, or the hands   *)
(* of one call between its two regions.  None is lost or in two places,    *)
(* whatever interrupts the copying.                                        *)
MqNodesAccounted ==
  /\ MqQueued \cap MqFree = {}
  /\ \A t \in Thread : MqMine(t) \cap (MqQueued \cup MqFree) = {}
  /\ \A t, u \in Thread : t # u => MqMine(t) \cap MqMine(u) = {}
  /\ MqQueued \cup MqFree \cup UNION {MqMine(t) : t \in Thread} = Node

(* head, tail, next and entry describe one list that ends at the tail.     *)
MqQueueWellFormed ==
  LET c == MqChain(head)
  IN  /\ c[Len(c)] = Null
      /\ entry = Len(c) - 1
      /\ tail = IF entry = 0 THEN Null ELSE c[entry]

(* A receiver copies the message it took off the queue: nobody overwrites  *)
(* it before the copy.                                                     *)
MqCopiedIntact ==
  \A t \in Thread : pc[t] = "recv_free" => got[t] = item[t]

(* No lost wake-up: messages that lie in the queue while receivers wait    *)
(* are matched by receivers already woken for them.                        *)
MqNobodyStranded ==
  Waiters(k, Receivers) # <<>> =>
    entry <= Cardinality(Woken({"recv_sched", "recv_error", "recv_again"}, Receivers))

(* Messages are taken once, in the order they were linked in, urgent ones  *)
(* first.                                                                  *)
MqContents == [i \in 1 .. Len(MqMessages) |-> data[MqMessages[i]]]
=============================================================================
