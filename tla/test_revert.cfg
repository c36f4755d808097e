SPECIFICATION Spec
CONSTANTS
  NoRow = NoRow
  Thread <- OneThread
  MaxId = 0
  MaxLines = 0
  Domain <- None
  Addr <- None
  V6 <- None
  Faults = {}
  MaxFaults = 2
INVARIANT RevertedOnExit
