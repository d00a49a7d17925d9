\* Two intents over one pooled balance, unequal amounts; any account may be a party.
\* The symmetry is sound for ImplementsPromise too: it compares a state with the next.
CONSTANTS
  alice = alice
  bob = bob
  ai = ai
  owner = owner
  Accounts = {alice, bob, ai, owner}
  NoOne = NoOne
  AiArbitrator = ai
  Owner = owner
  Tokens = {usdc}
  Amounts = {1, 2}
  Fees = {1}
  MaxIntents = 2
  ABANDONMENT_TIMEOUT = 1
  APPEAL_TIMELOCK = 1
SPECIFICATION Spec
SYMMETRY HumanSymmetry
INVARIANTS TypeOK Solvent StakesBacked SettledInFull StakeSentOnce SettlementRoute
PROPERTIES ImplementsPromise
