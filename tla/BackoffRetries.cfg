SPECIFICATION Spec
CONSTANTS
  Interval <- MCInterval
  Tick <- MCTick
  Grain <- MCGrain
  NeverSynced = FALSE
  Epoch <- MCEpoch
  MaxRun <- MCMaxRun
  MaxFailures = 3
  MaxAge <- MCMaxAge
INVARIANTS FailuresTakeTime PenaltyIsSum
PROPERTIES PenaltyKept
CHECK_DEADLOCK FALSE
