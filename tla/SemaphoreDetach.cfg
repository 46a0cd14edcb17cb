SPECIFICATION Spec
CONSTANTS
  a = a
  b = b
  c = c
  Idle = idle
  Thread = {a, b, c, idle}
  Prio = {0, 1, 2}
  Sem = sem
  WaitQueue <- MCWaitQueue
  InitPrio <- MCInitPrio
  Boot <- MCBoot
  Flag = "PRIO"
  InitValue = 0
  ValueRange = 4
\* the model stops where rt_sem_detach takes a list head for a thread
CHECK_DEADLOCK FALSE
INVARIANTS
  DetachPopsAThread
