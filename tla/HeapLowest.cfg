SPECIFICATION HeapSpec
CONSTANTS
  MemSize = 7
  Header = 1
  MinSize = 1
  Request = {0, 1, 2, 4}
  Caller = {c1, c2}
INVARIANTS
  LowestFree
