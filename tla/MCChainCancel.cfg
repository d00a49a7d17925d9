\* One job, two transactions; polls stop failing at some time.
CONSTANTS
  j1 = j1
  a1 = a1
  NoJob = NoJob
  Jobs = {j1}
  Amounts = {a1}
  LogRange = 2
  MaxTxs = 2
  MaxFailed = 1
  Terms = {NoJob}
  Released = {}
  Submitted = {}
SPECIFICATION FundingFairSpec
PROPERTY UnfundedCanBeCancelled
CHECK_DEADLOCK FALSE
