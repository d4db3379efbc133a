\* Liveness: two runs and an operator, no symmetry.
CONSTANTS
  Runs = {r1, r2}
  Operators = {op}
  NoRun = NoRun
  MaxAttempts = 3
SPECIFICATION Spec
CHECK_DEADLOCK FALSE
PROPERTIES AcquireTerminates DeadRunsLockHeals
