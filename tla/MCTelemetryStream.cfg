SPECIFICATION StreamSpec
CONSTANTS
  ordered = ordered
  late = late
  MsgCode = {ordered, late}
  Reordered = {late}
  None = None
  STREAM_RESTART_GAP = 3
  JITTER_NOISE = 1
  MaxBurst <- MCBurst
  MaxLag = 5
  MaxArrivals = 3
  MaxPause = 4
  MaxClock = 4
CHECK_DEADLOCK FALSE
INVARIANTS LossIsExact LossIsNeverUnderstated
