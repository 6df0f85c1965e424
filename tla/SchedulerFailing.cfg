\* A run of a recurring task fails.
CONSTANTS
  once = once
  twice = twice
  ever = ever
  Tasks = {ever}
  Recurring = {ever}
  TtlRuns <- Budget
  Interval = 2
  MaxPending = 3
  MaxTime = 6
  MaxRuns = 3
  MaxCrashes = 0
  MayCancel = FALSE
  MayRefuse = FALSE
  MayFail = TRUE
SPECIFICATION Spec
PROPERTY NextRunIsLater
CHECK_DEADLOCK FALSE
