SPECIFICATION Spec
CONSTANTS
  Second = 2
  Minute = 6
  Hour = 24
  Day = 72
  Month = 240
  Year = 480
  MaxHours = 9
  Kinds <- MCKinds
  Lengths <- MCLengths
  Moments <- MCMoments
  Ages <- MCAges
  Zones <- MCZones
  ServerZones <- MCServerZones
  Numbers = {1, 2}
  MaxTokens = 5
INVARIANTS FieldsCanonical DurationReadsBack FrequencyAgreed StampsReadRight StampReadsBack WordingHonest
PROPERTIES AgesGrow
CHECK_DEADLOCK FALSE
