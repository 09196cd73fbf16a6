CONSTANTS
  N = 6
  Concurrency = 4
  None = None
  Scans <- MCScans
  OneScans <- MCOneScans
  Saved <- MCSaved
  Checks <- MCChecks
  Batches <- MCBatches
  Paths = {"a", "b"}
  Workers = 2
SPECIFICATION CommandSpec
INVARIANT EachItemOnce
INVARIANT ThrottleHolds
INVARIANT ResolvedIsComplete
INVARIANT CliHolds
PROPERTY PoolSettles
PROPERTY ImplementsParallelMap
\* A call returns and its lanes stop, and a command exits.
CHECK_DEADLOCK FALSE
