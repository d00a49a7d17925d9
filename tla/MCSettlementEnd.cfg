\* One job of ten units under all four remedies, two ticks to silence.
CONSTANTS
  Customer = customer
  Provider = provider
  Arbitrator = arbitrator
  Human = human
  NoOne = noOne
  Usdc = usdc
  Total = 10
  Remedies = {0, 5, 7, 10}
  ABANDONMENT_TIMEOUT = 2
  APPEAL_TIMELOCK = 1
SPECIFICATION FairSpec
PROPERTIES AcceptedIsSettled
CHECK_DEADLOCK FALSE
