SPECIFICATION RunSpec
CONSTANTS
  Pids = {runner, command}
SYMMETRY Symmetry
INVARIANTS
  CleanupIsHonest
CHECK_DEADLOCK FALSE
