\* One closing at a time, given again after each failure.
CONSTANTS
  Closers = {c1}
  Slices <- MCSlices
  MaxCommits = 1
  MaxMoves = 1
  MaxFailures = 2
SPECIFICATION ClosureSpec
CHECK_DEADLOCK FALSE
PROPERTIES ClosingCanBeRepeated
