SPECIFICATION MCSpec
CONSTANTS
  th1 = th1
  th2 = th2
  th3 = th3
  idle = idle
  A = A
  None = None
PROPERTIES
  SleepReturns
  EqualsTakeTurns
  InversionBounded
