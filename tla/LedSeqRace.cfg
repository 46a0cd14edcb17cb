SPECIFICATION LedSpec
CONSTANTS
  c = c
  Caller <- OneCaller
  TimerThread = timer
  None = none
  Steps <- TwoShapes
  Uses <- UsesAll
  Alone = FALSE
INVARIANTS
  StepsInSequence
