SPECIFICATION Spec
CONSTANTS
  a4 = a4
  b4 = b4
  c6 = c6
  host = host
  NoRow = NoRow
  Thread <- MCThread
  MaxId = 1
  Domain = {host}
  Answers <- Network
  Http = {h1}
  Addr = {a4, b4}
  V6 = {}
  Faults = {}
  MaxFaults = 0
  Modes = {TRUE}
INVARIANT TickSyncs
