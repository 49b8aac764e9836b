SPECIFICATION ClientSpec
CONSTANTS
  None = None
  Slot = {s1, s2}
  MaxClicks = 2
  MaxDrags = 1
  MaxReloads = 1
INVARIANT PausedScreenHolds
PROPERTY ScreenSettles
