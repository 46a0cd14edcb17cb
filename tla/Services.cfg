SPECIFICATION MCSpec
CONSTANTS
  hi = hi
  mid = mid
  lo = lo
  idle = idle
  A = A
  B = B
  tm1 = tm1
  tm2 = tm2
  sleep = sleep
  None = None
  Thread = {hi, mid, lo, idle}
  Idle = idle
  Prio = {0, 1, 2, 3}
  WaitQueue = {A, B}
  InitPrio <- MCInitPrio
  Boot <- MCBoot
  Flag = "PRIO"
  Nesting = "none"
  Uses <- PlainUses
  Sleeper = {hi, mid, lo}
  NestedUses <- MCNested
  NestedSleeper = {hi, mid}
  TimedWaits = TRUE
  MaxHold = 2
  HoldRange = 4
  NoTimer = NoTimer
  Timer = {tm1, tm2, sleep}
  SoftTimer = {tm1, tm2}
  ThreadTimer = sleep
  TickMod = 20
  FirstTick = 0
  LastTick = 6
  MaxLag = 2
  InitTicks <- MCInitTicks
  Periodic = {tm1}
  AppOp <- MCAppOp
  IsrStart = {}
  CallbackOp <- MCCallbackOp
  MemSize = 7
  Header = 1
  MinSize = 1
  Request = {0, 1, 2, 4}
  Caller = {hi, lo}
INVARIANTS
  MutualExclusion
  PlainInherits
  PriorityRestored
  SortedLists
  SoftWatched
  HeapTiled
  UsedExact
PROPERTIES
  ImplementsLock
  CheckLeavesNothingDue
  OnlyStartedExpire
