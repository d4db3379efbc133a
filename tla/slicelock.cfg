\* Safety: three runs, one operator. Runs are interchangeable.
CONSTANTS
  Runs = {r1, r2, r3}
  Operators = {op}
  NoRun = NoRun
  MaxAttempts = 3
SPECIFICATION Spec
SYMMETRY RunSymmetry
CHECK_DEADLOCK FALSE
INVARIANTS TypeOK ExclusiveUntilSlip LockNamesHolder
PROPERTIES NothingSelfHeals ImplementsOwnership
