SPECIFICATION FairSpec
CONSTANTS
  Logs <- MCLogs
  Runs = {r1, r2}
  Dirs = {w1, w2}
  MaxRecords = 1
  MaxCrashes = 1
INVARIANTS CountedOnce NothingForgotten UndisturbedKeepsAll
PROPERTIES EventuallyAnalysed
CHECK_DEADLOCK FALSE
