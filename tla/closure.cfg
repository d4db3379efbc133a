CONSTANTS
  Closers = {c1, c2}
  Slices <- MCSlices
  MaxCommits = 2
  MaxMoves = 1
  MaxFailures = 1
SPECIFICATION ClosureSpec
CHECK_DEADLOCK FALSE
  
PROPERTIES ClosedMeansMerged RefusedBeforeMerging LiveWorkIsSafe 
SYMMETRY MCSymmetry
