SPECIFICATION Spec
CONSTANTS
  a4 = a4
  b4 = b4
  c6 = c6
  host = host
  NoRow = NoRow
  Thread <- MCThread
  MaxId = 1
  Domain = {host}
  Answers <- DualStackHost
  Http = {h1}
  Addr = {a4, c6}
  V6 = {c6}
  Faults = {"dns", "netsh", "crash", "delete", "foreign", "bare", "any", "disable", "reset", "allow", "keys", "registry"}
  MaxFaults = 1
  Modes = {TRUE, FALSE}
INVARIANT TickSyncs
PROPERTIES LeavesCorrectAlone DevStandsDown
