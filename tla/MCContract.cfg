\* One job of ten units under all four remedies, two ticks to silence; then the
\* contract alone, at the size its instance names.
CONSTANTS
  Customer = customer
  Provider = provider
  Arbitrator = arbitrator
  Human = human
  NoOne = noOne
  Usdc = usdc
  Total = 10
  Remedies = {0, 5, 7, 10}
  ABANDONMENT_TIMEOUT = 2
  APPEAL_TIMELOCK = 1
SPECIFICATION PartsSpec
INVARIANTS BooksAreTheEscrows DisputedIsFrozen
PROPERTIES ForgottenMoneyLeaves SilenceReleasesFunds
CHECK_DEADLOCK FALSE
