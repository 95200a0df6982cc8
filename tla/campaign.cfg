SPECIFICATION Spec
CONSTANTS
  NumApps = 2
  Readers = {1}
  MaxStarts = 3
  MaxBuild = 2
INVARIANTS NothingLost PassesOfOneBuild VerdictWhole
CHECK_DEADLOCK FALSE
