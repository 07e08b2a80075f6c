SPECIFICATION FairSpec
CONSTANTS
  Procs = {p1, p2}
  NoOwner = NoOwner
  Custom = FALSE
  MaxFailures = 2
  MaxCrashes = 2
CONSTRAINT NotYetRaced
INVARIANTS OneSyncUnlessRaced SyncKeepsLock RunKeepsLog ReportHasFailures
PROPERTIES FailuresCounted StopStops LockRecovered
