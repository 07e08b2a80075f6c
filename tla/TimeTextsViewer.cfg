SPECIFICATION Spec
CONSTANTS
  Second = 2
  Minute = 6
  Hour = 24
  Day = 72
  Month = 240
  Year = 480
  MaxHours = 9
  Kinds = {"instant"}
  Lengths <- MCLengths
  Moments <- MCMoments
  Ages <- MCAges
  Zones = {540, 0}
  ServerZones = {540}
  Numbers = {1, 2}
  MaxTokens = 4
INVARIANTS ContentsDateRight
CHECK_DEADLOCK FALSE
