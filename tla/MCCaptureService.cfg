SPECIFICATION CaptureSpec
CONSTANTS
  None = None
  Caller = {c1, c2}
  MaxSniffers = 3
  MaxLate = 2
CHECK_DEADLOCK FALSE
INVARIANTS OnlyCurrentRuns FilterFollowsDirection OneLatePacket
PROPERTIES LockIsReleased StoppedThreadEnds
