SPECIFICATION FairSpec
CONSTANTS
  NoPassword = NoPassword
  Password = {p1}
  MaxKey = 2
  MaxUnderWay = 2
  Browser = {b1}
  MaxRequests = 3
  Faults = {"db", "audit", "lost", "key", "wipe"}
  MaxFaults = 1
INVARIANTS IInv EntryNeedsPassword OneTimeSetup AnsweredIsAudited AuditNamesActors
PROPERTY RedirectsEnd
