SPECIFICATION Spec
CONSTANTS
  Tab = {t1}
  Host = {h1}
  TTL = 2
  MaxLatency = 2
  MaxChecks = 2
PROPERTY RetryWorks
