\* A task is cancelled after its row was read.
CONSTANTS
  once = once
  twice = twice
  ever = ever
  Tasks = {once, twice}
  Recurring = {twice}
  TtlRuns <- Budget
  Interval = 2
  MaxPending = 3
  MaxTime = 4
  MaxRuns = 3
  MaxCrashes = 0
  MayCancel = TRUE
  MayRefuse = FALSE
  MayFail = FALSE
SPECIFICATION Spec
PROPERTY CancelledNeverStarts
CHECK_DEADLOCK FALSE
