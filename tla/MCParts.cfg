\* The five components one after the other.  Three instances are stopped or die
\* three times, and one connection is lost.  The model may decide a job of 3 and not
\* one of 7; a call has four ticks.  The other two have the size their instances name.
CONSTANTS
  Nothing = Nothing
  NoKey = NoKey
  Free = Free
  None = None
  r1 = r1
  r2 = r2
  r3 = r3
  r4 = r4
  task = task
  j1 = j1
  j2 = j2
  a1 = a1
  key = key
  x = x
  y = y
  f1 = f1
  Requests = {r1, r2, r3, r4}
  Key <- PostKey
  Payload <- PostPayload
  Instances = {i1, i2, i3}
  MaxLosses = 1
  MaxDeploys = 3
  OwnFiles = {f1, f2}
  ForeignFiles = {g}
  Amounts = {3, 7}
  L2_MAX_AMOUNT = 5
  L2_MIN_CONFIDENCE = 6
  Confidences = {5, 6}
  BUDGET = 4
  MIN_RETRY = 2
  MaxCrashes = 1
SPECIFICATION PartsSpec
INVARIANTS
  KeysAreIdempotent TrailIsChained DoubledByLossOnly ProposalIsSound LadderIsPrompt
PROPERTIES
  TasksFinish SomebodyWorks
  FundingIsRecorded ReportedIntentIsBound
CHECK_DEADLOCK FALSE
