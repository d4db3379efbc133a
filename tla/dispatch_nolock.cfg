\* A document a dispatch put in progress is left there without a lock.
CONSTANTS
  Runs = {r1}
  Operators = {op}
  NoRun = NoRun
  MaxAttempts = 2
  InitialStatuses <- Starts
  MaxCommits = 1
  MaxMoves = 0
  EpilogueMayAbort = FALSE
SPECIFICATION DispatchSpec
CHECK_DEADLOCK FALSE
INVARIANT NoLockNoDispatch
