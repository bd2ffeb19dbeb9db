SPECIFICATION VersionSpec
CONSTANTS
  Executions = {1, 2}
  MaxVersion = 2
  MaxBranches = 2
  NoBranch = NoBranch
INVARIANT KeepsBranch
CHECK_DEADLOCK FALSE
