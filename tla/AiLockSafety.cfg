\* Two message/task callers and two heartbeat callers, one of which may run
\* before the lock exists; holders may be silent for any time, even for ever.
\* No symmetry, because of the leads-to.
CONSTANTS
  Foreground = {m1, m2}
  Background = {d1, d2}
  CheckInterval = 2
  InactivityLimit = 3
  MaxBumps = 1
  EarlyTick = TRUE
SPECIFICATION FairSpec
INVARIANT TypeOK
INVARIANT OneHolder
INVARIANT NoLostWakeup
PROPERTY GivesExclusiveTurns
PROPERTY RefusedOnlyBehindSilence
PROPERTY EveryWaitEnds
