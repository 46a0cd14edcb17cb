SPECIFICATION MCSpec
CONSTANTS
  th1 = th1
  th2 = th2
  th3 = th3
  idle = idle
  m1 = m1
  m2 = m2
  in = in
  out = out
  Null = Null
  Pool = Pool
  None = None
  Thread <- MCThread
  Prio <- MCPrio
  WaitQueue <- MCWaitQueue
  Receivers = in
  Senders = out
  Idle = idle
  MbBoot <- MCPair
  MbFlag = "PRIO"
  MbSize = 2
  Mail <- MCItem
  MbMaySend <- MCBoth
  MbMayRecv <- MCBoth
  MqBoot <- MCEqual
  MqFlag = "FIFO"
  Node <- MCMemory
  Payload <- MCItem
  MqMaySend <- MCBoth
  MqMayRecv <- MCSecond
  DqBoot <- MCPair
  DqSize = 2
  Lwm = 1
  Item <- MCItem
  DqMayPush <- MCFirst
  DqMayPop <- MCBoth
  IndexRange = 4
  PipeBoot <- MCEqual
  Size = 2
  Byte <- MCItem
  PipeMayRead <- MCSecond
  PipeMayWrite <- MCFirst
  MaxRequest = 2
  EventBoot <- MCEvents
  EventFlag = "FIFO"
  Bit <- MCItem
  EventMayRecv <- MCBoth
  MpBoot <- MCUrgent
  PoolBlock <- MCMemory
  MpUses <- MCUses
  MaxStale = 1
  CompletionBoot <- MCUrgent
  Waiter = th1
  Sem = in
  InitPrio <- MCSemPrio
  Boot <- MCSemBoot
  Flag = "PRIO"
  InitValue = 0
  ValueRange = 3
\* the model stops where rt_mp_free or rt_sem_detach takes a list head for a
\* thread, and where rt_data_queue_pop leaves interrupts disabled
CHECK_DEADLOCK FALSE
INVARIANTS
  NobodyStranded
  MemoryAccounted
  CopiedIntact
  AnswersRequest
  TypeOK
  KernelConsistent
  UnitsConserved
  NoLostWakeup
PROPERTIES
  ClearedOnce
  ImplementsFifo
