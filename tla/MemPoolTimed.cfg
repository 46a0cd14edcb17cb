SPECIFICATION MCSpec
CONSTANTS
  th1 = th1
  th2 = th2
  th3 = th3
  idle = idle
  blk1 = blk1
  blk2 = blk2
  in = in
  out = out
  Null = Null
  Pool = Pool
  Thread = {th1, th2, th3, idle}
  Idle = idle
  Prio = {0, 1, 2}
  WaitQueue <- MCWaitQueue
  Receivers = in
  Senders = out
  MpBoot <- MCBoot
  PoolBlock = {blk1, blk2}
  MpUses <- MCUses
  MaxStale = 1
  \* the model stops where a list head is taken for a thread
CHECK_DEADLOCK FALSE
INVARIANTS
  FreeWakesAThread
