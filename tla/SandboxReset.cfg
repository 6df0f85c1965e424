\* What the description of reset_sandbox promises of the jobs that run.
SPECIFICATION JobSpec
CONSTANTS
  Commands = {j1, j2}
INVARIANT ResetStopsJobs
CHECK_DEADLOCK FALSE
