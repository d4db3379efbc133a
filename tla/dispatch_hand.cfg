\* Two runs and a set-status in between, with every kind of overlap; no operator.
CONSTANTS
  Runs = {r1, r2}
  Operators = {}
  NoRun = NoRun
  MaxAttempts = 2
  InitialStatuses <- Starts
  MaxCommits = 1
  MaxMoves = 1
  EpilogueMayAbort = TRUE
SPECIFICATION DispatchSpec
SYMMETRY RunSymmetry
CHECK_DEADLOCK FALSE
INVARIANTS JudgedRunsStrandNothing UndecidedStaysResolvable
