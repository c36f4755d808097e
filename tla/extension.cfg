SPECIFICATION FairSpec
CONSTANTS
  Tab = {t1}
  Host = {h1, h2}
  TTL = 2
  MaxLatency = 2
  MaxChecks = 2
INVARIANT IInv
PROPERTIES BlockedForCause PassedForCause DenialsFade
