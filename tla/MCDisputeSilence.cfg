\* One request at a time and one process, which may fail once.
CONSTANTS
  r1 = r1
  r2 = r2
  p1 = p1
  p2 = p2
  Requests = {r1}
  NoRequest = NoRequest
  Procs = {p1}
  Leader = p1
  At <- TwoProcs
  Remedies = {0, 1}
  Whole = 1
  MaxFailures = 1
SPECIFICATION FairSpec
PROPERTIES SilenceEnds LaddersEnd LateComplaintsClose
CHECK_DEADLOCK FALSE
