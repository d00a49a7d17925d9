\* The dispute: two requests at once, one at each of two processes; no failure.
\* The logs: sizes for both parts, which the module narrows.
CONSTANTS
  r1 = r1
  r2 = r2
  p1 = p1
  p2 = p2
  Requests = {r1, r2}
  NoRequest = NoRequest
  Procs = {p1, p2}
  Leader = p1
  At <- TwoProcs
  Remedies = {0, 1}
  Whole = 1
  MaxFailures = 0
  j1 = j1
  j2 = j2
  j3 = j3
  a1 = a1
  a2 = a2
  a3 = a3
  NoJob = NoJob
  Jobs = {j1, j2, j3}
  Amounts = {a1, a2, a3}
  LogRange = 2
  MaxTxs = 3
  MaxFailed = 1
  Terms = {NoJob}
  Released = {1}
  Submitted = {1}
SPECIFICATION PartsSpec
INVARIANTS TypeOK ExecutedOnceByBoth  OfferedStands NoLogLost
PROPERTIES ProposalIsFinal
SYMMETRY Symmetry
CHECK_DEADLOCK FALSE
