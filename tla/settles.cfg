SPECIFICATION FairSpec
CONSTANTS
  a4 = a4
  b4 = b4
  c6 = c6
  host = host
  NoRow = NoRow
  Thread <- MCThread
  MaxId = 1
  Domain = {host}
  Answers <- MovingHost
  Http = {h1}
  Addr = {a4, b4}
  V6 = {}
  Faults = {"crash", "netsh", "dns", "keys"}
  MaxFaults = 1
  Modes = {TRUE}
PROPERTIES Settles DeletedRuleGoes RowsFollowDns
