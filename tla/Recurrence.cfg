SPECIFICATION Spec
CONSTANTS
  Hours = {0, 1, 9, 23}
  Weekdays = {0, 3, 6}
  Intervals = {1, 36}
  Offsets = {1, 2}
  ShiftAt = 200
  MaxLate = 25
  Horizon = 500
INVARIANTS FirstOccurrence OffByTheShift
CHECK_DEADLOCK FALSE
