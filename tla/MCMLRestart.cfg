SPECIFICATION MLSpec
CONSTANTS
  None = None
  MinSamples = 2
  MaxRecords = 2
  MaxScores = 1
  DisplayRecords = 2
  DisplayScores = 1
  CacheLife = 1
  Limit <- MCLimit
  Stats <- MCStats
  Verdict <- MCVerdict
  FallbackScore <- MCFallback
  ForestThreshold <- MCForestThreshold
  DefaultThreshold <- MCDefaultThreshold
  RuleConfidence = 50
  MaxStarts = 2
CHECK_DEADLOCK FALSE
INVARIANT RestartComesUp
