SPECIFICATION MLSpec
CONSTANTS
  None = None
  MinSamples = 2
  MaxRecords = 3
  MaxScores = 2
  DisplayRecords = 2
  DisplayScores = 2
  CacheLife = 1
  Limit <- MCLimit
  Stats <- MCStats
  Verdict <- MCVerdictRounded
  FallbackScore <- MCFallback
  ForestThreshold <- MCForestThreshold
  DefaultThreshold <- MCDefaultThreshold
  RuleConfidence = 50
  MaxStarts = 2
CHECK_DEADLOCK FALSE
INVARIANTS ChartsAgreeWithForest TimelineMatchesChart OneLateRecord NoHalfModel VerdictIsTheForests EitherDetectorCounts
PROPERTY EnoughIsTrained
