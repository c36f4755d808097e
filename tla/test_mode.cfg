SPECIFICATION FairSpec
CONSTANTS
  NoRow = NoRow
  Thread <- OneThread
  MaxId = 0
  MaxLines = 2
  Domain <- None
  Addr <- None
  V6 <- None
  Faults = {"start", "bind", "netsh", "registry", "kill"}
  MaxFaults = 1
INVARIANTS IInv Untouched ReachableWhileBlocked LoggingEnds StreamOrder NothingElseLost
PROPERTY SelfDisarms
