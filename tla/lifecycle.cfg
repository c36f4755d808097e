SPECIFICATION FairSpec
CONSTANTS
  a4 = a4
  host = host
  NoRow = NoRow
  Thread <- OneThread
  MaxId = 1
  Domain = {host}
  Row1 <- OneRow
  Addr = {a4}
  V6 = {}
  Faults = {"start", "bind", "crash", "slow", "netsh", "registry", "scm", "interrupt"}
  MaxFaults = 2
INVARIANTS IInv HelpersWhileBlocked UninstallSticks
PROPERTIES RemovedStaysDown Enforces
