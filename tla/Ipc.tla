-------------------------------- MODULE Ipc --------------------------------
(***************************************************************************)
(* The objects threads exchange things through, one at a time, used by     *)
(* threads and interrupt handlers beside the idle thread.  The variable    *)
(* object says which one; the variables of the other objects keep the      *)
(* value None.                                                             *)
(***************************************************************************)
EXTENDS Mailbox, MessageQueue, DataQueue, Pipe, Event, MemPool, Completion

CONSTANT None

IpcAssumption ==
  /\ MailboxAssumption /\ MessageQueueAssumption /\ DataQueueAssumption
  /\ PipeAssumption /\ EventAssumption /\ MemPoolAssumption /\ CompletionAssumption

VARIABLE object

ofMailbox    == <<pool, inOffset, outOffset>>
ofQueue      == <<head, tail, free, next, data, node, item, got>>
ofDataQueue  == <<slots, getIndex, putIndex, overrun, waiting, fault>>
ofPipe       == <<flag, ring, wants>>
ofEvent      == <<set, asked, wish>>
ofPool       == <<uses, list, header, freeCount, suspendCount, held, stray>>
ofCompletion == <<status, result, signalled>>
ipcVars == <<object, k, pc, timed, mail, entry, last,
             ofMailbox, ofQueue, ofDataQueue, ofPipe, ofEvent, ofPool, ofCompletion>>

(* The variables of an object that is not used *)
NoMailbox == pool = None /\ inOffset = None /\ outOffset = None
NoQueue ==
  /\ head = None /\ tail = None /\ free = None /\ next = None /\ data = None
  /\ node = None /\ item = None /\ got = None
NoDataQueue ==
  /\ slots = None /\ getIndex = None /\ putIndex = None /\ overrun = None
  /\ waiting = None /\ fault = None
NoPipe == flag = None /\ ring = None /\ wants = None
NoEvent == set = None /\ asked = None /\ wish = None
NoPool ==
  /\ uses = None /\ list = None /\ header = None /\ freeCount = None
  /\ suspendCount = None /\ held = None /\ stray = None
NoCompletion == status = None /\ result = None /\ signalled = None

IpcInit ==
  \/ /\ object = "mailbox" /\ MbInit
     /\ NoQueue /\ NoDataQueue /\ NoPipe /\ NoEvent /\ NoPool
     /\ NoCompletion
  \/ /\ object = "queue" /\ MqInit
     /\ NoMailbox /\ NoDataQueue /\ NoPipe /\ NoEvent /\ NoPool
     /\ NoCompletion /\ mail = None
  \/ /\ object = "dataqueue" /\ DqInit
     /\ NoMailbox /\ NoQueue /\ NoPipe /\ NoEvent /\ NoPool /\ NoCompletion
     /\ entry = None
  \/ /\ object = "pipe" /\ PipeInit
     /\ NoMailbox /\ NoQueue /\ NoDataQueue /\ NoEvent /\ NoPool
     /\ NoCompletion /\ timed = None /\ entry = None
  \/ /\ object = "event" /\ EventInit
     /\ NoMailbox /\ NoQueue /\ NoDataQueue /\ NoPipe /\ NoPool
     /\ NoCompletion /\ timed = None /\ mail = None /\ entry = None
     /\ last = None
  \/ /\ object = "mempool" /\ MpInit
     /\ NoMailbox /\ NoQueue /\ NoDataQueue /\ NoPipe /\ NoEvent
     /\ NoCompletion /\ mail = None /\ entry = None /\ last = None
  \/ /\ object = "completion" /\ CompletionInit
     /\ NoMailbox /\ NoQueue /\ NoDataQueue /\ NoPipe /\ NoEvent /\ NoPool
     /\ timed = None /\ mail = None /\ entry = None /\ last = None

(* The object is used, the variables of the others unchanged. *)
OnMailbox ==
  object = "mailbox" /\ UNCHANGED <<object, ofQueue, ofDataQueue, ofPipe,
                                    ofEvent, ofPool, ofCompletion>>
OnQueue ==
  object = "queue" /\ UNCHANGED <<object, mail, ofMailbox, ofDataQueue,
                                  ofPipe, ofEvent, ofPool, ofCompletion>>
OnDataQueue ==
  object = "dataqueue" /\ UNCHANGED <<object, entry, ofMailbox, ofQueue,
                                      ofPipe, ofEvent, ofPool, ofCompletion>>
OnPipe ==
  object = "pipe" /\ UNCHANGED <<object, timed, entry, ofMailbox, ofQueue,
                                 ofDataQueue, ofEvent, ofPool, ofCompletion>>
OnEvent ==
  object = "event" /\ UNCHANGED <<object, timed, mail, entry, last,
                                  ofMailbox, ofQueue, ofDataQueue, ofPipe,
                                  ofPool, ofCompletion>>
OnPool ==
  object = "mempool" /\ UNCHANGED <<object, mail, entry, last, ofMailbox,
                                    ofQueue, ofDataQueue, ofPipe, ofEvent,
                                    ofCompletion>>
OnCompletion ==
  object = "completion" /\ UNCHANGED <<object, timed, mail, entry, last,
                                       ofMailbox, ofQueue, ofDataQueue,
                                       ofPipe, ofEvent, ofPool>>

IpcNext ==
  \/ OnMailbox /\ MbNext
  \/ OnQueue /\ MqNext
  \/ OnDataQueue /\ DqNext
  \/ OnPipe /\ PipeNext
  \/ OnEvent /\ EventNext
  \/ OnPool /\ MpNext
  \/ OnCompletion /\ CompletionNext

IpcSpec == IpcInit /\ [][IpcNext]_ipcVars

-----------------------------------------------------------------------------
(* What the objects promise *)

(* No lost wake-up: whoever waits, waits for something that is not there   *)
(* or was woken for it: mails and free slots (ipc.c:1505-1515, 1652-1663), *)
(* messages (1981-1991), items and the low water mark (dataqueue.c:129,    *)
(* 224), bits (ipc.c:1014-1068), blocks without time-outs (mempool.c:438), *)
(* a completion (completion.c:118).                                        *)
NobodyStranded ==
  CASE object = "mailbox"    -> MbNobodyStranded
    [] object = "queue"      -> MqNobodyStranded
    [] object = "dataqueue"  -> DqNobodyStranded
    [] object = "pipe"       -> PipeNobodyStranded
    [] object = "event"      -> EventNoSatisfiedWaiter
    [] object = "mempool"    -> MpNobodyStranded
    [] object = "completion" -> CompletionNobodyStranded

(* Nothing is lost or used twice: every message of a queue is in one place *)
(* and the list of the waiting ones is well formed (ipc.c:1943-1980,       *)
(* 2190-2213); every block is free or one thread's (mempool.c:387-401,     *)
(* 430-436).                                                               *)
MemoryAccounted ==
  /\ object = "queue" => MqNodesAccounted /\ MqQueueWellFormed
  /\ object = "mempool" => MpBlocksAccounted

(* A message is not overwritten before its copy (ipc.c:2203-2213).         *)
CopiedIntact == object = "queue" => MqCopiedIntact

(* What a wait returns is an answer to what was asked: the bits of an      *)
(* event (ipc.c:1028-1056, 1178-1198), a completion that was signalled     *)
(* since the wait before (completion.c:52-108).                            *)
AnswersRequest ==
  /\ object = "event" => EventAnswersRequest
  /\ object = "completion" => CompletionAnswersRequest

(* No bit goes to two receivers that clear it (ipc.c:1050-1066).           *)
ClearedOnce == [][object = "event" => EventClearsOnce]_ipcVars

(* Mails, messages, items and bytes are delivered once and in order,       *)
(* whatever waits, time-outs and interrupt handlers interleave.  Only a    *)
(* data queue may be overrun: its test for room (dataqueue.c:82) fails     *)
(* while put_index has wrapped and get_index has not.                      *)
Queued ==
  CASE object = "mailbox"   -> MbContents
    [] object = "queue"     -> MqContents
    [] object = "dataqueue" -> DqContents
    [] object = "pipe"      -> PipeContents
    [] OTHER                -> <<>>

Delivered == IF object \in {"mailbox", "queue", "dataqueue", "pipe"} THEN last ELSE <<>>

Room ==
  CASE object = "mailbox"   -> MbSize
    [] object = "queue"     -> Cardinality(Node)
    [] object = "dataqueue" -> DqSize
    [] object = "pipe"      -> Size
    [] OTHER                -> 0

Extras ==
  CASE object = "mailbox"   -> {"reset"}
    [] object = "queue"     -> {"urgent", "reset"}
    [] object = "dataqueue" -> {"overrun"}
    [] OTHER                -> {}

Fifo == INSTANCE BoundedFifo WITH
  Item <- Mail \cup Payload \cup Item \cup Byte, capacity <- Room,
  queue <- Queued, delivered <- Delivered,
  lost <- object = "dataqueue" /\ overrun,
  burst <- IF object = "pipe" THEN MaxRequest ELSE 1,
  offers <- Extras

ImplementsFifo == Fifo!FifoSpec
=============================================================================
