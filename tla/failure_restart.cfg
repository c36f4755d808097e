SPECIFICATION FairSpec
CONSTANTS
  a4 = a4
  host = host
  NoRow = NoRow
  Thread <- OneThread
  MaxId = 1
  Domain = {host}
  Row1 <- OneRow
  Addr = {a4}
  V6 = {}
  Faults = {"bind"}
  MaxFaults = 1

PROPERTY FailureIsRestarted
