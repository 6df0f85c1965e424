\* Everything may go wrong.  No symmetry, because of the leads-to.
CONSTANTS
  once = once
  twice = twice
  ever = ever
  Tasks = {once, twice, ever}
  Recurring = {twice, ever}
  TtlRuns <- Budget
  Interval = 2
  MaxPending = 1
  MaxTime = 4
  MaxRuns = 3
  MaxCrashes = 1
  MayCancel = TRUE
  MayRefuse = TRUE
  MayFail = TRUE
SPECIFICATION FairSpec
INVARIANT TypeOK
INVARIANT OneShotRunsOnce
INVARIANT TtlBoundsRuns
INVARIANT TtlIsExact
INVARIANT RunningIsLive
PROPERTY StartsAreSpaced
PROPERTY OneShotsEnd
CHECK_DEADLOCK FALSE
