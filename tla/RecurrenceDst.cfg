SPECIFICATION Spec
CONSTANTS
  Hours = {9}
  Weekdays = {0}
  Intervals = {}
  Offsets = {1, 2}
  ShiftAt = 200
  MaxLate = 0
  Horizon = 500
INVARIANTS StaysOnWallClock
CHECK_DEADLOCK FALSE
