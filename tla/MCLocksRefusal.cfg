\* One request that may be refused, with connections to spare.
CONSTANTS
  r1 = r1
  r2 = r2
  watcher = watcher
  j1 = j1
  j2 = j2
  Free = Free
  Jobs = {j1, j2}
  Requests = {r1}
  Background = {watcher}
  PoolSize = 4
  MaxTerminated = 0
SPECIFICATION FairSpec
PROPERTY RefusalsAreRaised
CHECK_DEADLOCK FALSE
