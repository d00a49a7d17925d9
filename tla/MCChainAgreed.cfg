\* One job, two transactions; a createIntent has the job's terms or others.
CONSTANTS
  j1 = j1
  a1 = a1
  NoJob = NoJob
  Jobs = {j1}
  Amounts = {a1}
  LogRange = 2
  MaxTxs = 2
  MaxFailed = 0
  Terms = {j1, NoJob}
  Released = {}
  Submitted = {}
SPECIFICATION FundingSpec
INVARIANT FundedAsAgreed
CHECK_DEADLOCK FALSE
