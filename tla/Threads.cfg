SPECIFICATION Spec
CONSTANTS
  sl = sl
  mgr = mgr
  w1 = w1
  w2 = w2
  Idle = idle
  Thread = {sl, mgr, w1, w2, idle}
  Prio = {0, 1, 2}
  WaitQueue = {}
  Static = {sl}
  InitPrio <- MCInitPrio
  Boot <- MCBoot
  May <- MCMay
  MaxNest = 2
INVARIANTS
  ListsExact
  TimeoutAssertHolds
  UrgentRuns
  FreedIsGone
  ClosedIsOff
PROPERTIES
  ClosedStaysClosed
