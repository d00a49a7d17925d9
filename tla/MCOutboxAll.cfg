\* Two processes run the workers at once behind a retired row; one call fails
\* and one process crashes.
CONSTANTS
  p1 = p1
  p2 = p2
  Instances = {p1, p2}
  MaxRows = 2
  Retired = {1}
  MaxErrors = 1
  MaxCrashes = 1
SPECIFICATION FairSpec
INVARIANTS OneTransactionPerLoss VerdictMatchesChain
PROPERTIES QueueDrains SentRowsAreJudged
CHECK_DEADLOCK FALSE
