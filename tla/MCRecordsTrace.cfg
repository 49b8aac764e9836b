SPECIFICATION TraceSpec
CONSTANTS
  None = None
  MsgCode = {m1, m2}
  SeqInput <- MCSeqInput
  STREAM_RESTART_GAP = 2
  JITTER_NOISE = 1
  JITTER_OUTLIER = 1
  Window = 3
  MaxRecords = 3
  SECOND = 2
  ChartLimit = 2
  Limits = {1, 2}
  Delay = 1
  MaxAdds = 4
  MaxNow = 4
  MaxStep = 3
SYMMETRY Codes
CHECK_DEADLOCK FALSE
INVARIANTS StoreIsTail DroppedWhenDue JitterMatchesHistory ChartIsRecentRun
  SkewIsOneSided HistoryEndsInStats
