\* Two runs and an operator; nobody uses set-status, no epilogue raises.
CONSTANTS
  Runs = {r1, r2}
  Operators = {op}
  NoRun = NoRun
  MaxAttempts = 2
  InitialStatuses <- Starts
  MaxCommits = 2
  MaxMoves = 0
  EpilogueMayAbort = FALSE
SPECIFICATION DispatchSpec
SYMMETRY RunSymmetry
CONSTRAINT UntilSlip
CHECK_DEADLOCK FALSE
INVARIANTS DispatchTypeOK CreditNeedsOwnWork  NobodyWritesFailed
 
