\* One watcher, two runs; the second may begin while the first is being judged.
CONSTANTS
  Runs = {r1, r2}
  Operators = {}
  NoRun = NoRun
  MaxAttempts = 1
  InitialStatuses <- Starts
  MaxCommits = 1
  MaxMoves = 0
  EpilogueMayAbort = FALSE
  Watchers = {w1}
  MaxUnreadable = 2
  MayTimeOut = TRUE
SPECIFICATION WaitingSpec
CHECK_DEADLOCK FALSE
CONSTRAINT WhileWatching
INVARIANTS WaitingTypeOK AbandonedMeansStranded ExitZeroIsEarned
PROPERTIES SliceWaitFollowsTheRun WaitEnds
