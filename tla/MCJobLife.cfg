\* Two providers and two wallets, two readings of the request, two photos, two
\* requests in flight.  Two Privy accounts, two emails of which one is a seeded
\* provider's, one address.  Two intents of the first provider, and two logs behind.
CONSTANTS
  oneRoom = oneRoom
  twoRooms = twoRooms
  hall = hall
  kitchen = kitchen
  p1 = p1
  p2 = p2
  w1 = w1
  w2 = w2
  f1 = f1
  f2 = f2
  r1 = r1
  r2 = r2
  i1 = i1
  i2 = i2
  NoData = NoData
  Specs = {oneRoom, twoRooms}
  Rooms <- MCRooms
  Providers = {p1, p2}
  BaseRate <- MCBaseRate
  Rate = 1500
  HardCap = 5000000
  ToleranceBps = 1000
  Wallets = {w1, w2}
  Files = {f1, f2}
  Requests = {r1, r2}
  Dids = {d1, d2}
  Emails = {e1, e2}
  SeedEmails = {e1}
  Addresses = {w3}
  Rows = {row1, row2}
  ProviderRows = {q1, q2}
  Nothing = Nothing
  Ranked = {p1, p2}
  PaidTo <- MCPaidTo
  Amount = 2
  SeededJobs <- MCSeededJobs
  Listing <- MCListing
  Budget = 2
  TRUST_MIN = 40
  MaxBehind = 2
  STALE_AFTER_BLOCKS = 1
  NoStats = NoStats
SPECIFICATION PartsSpec
INVARIANTS
  CallsAreSigned DeliverableIsComplete CoverageCountsPhotos
  AccountsAreVouched StandingIsEarned
PROPERTIES ApprovalStands AccountKeepsOwner
SYMMETRY Symmetry
CHECK_DEADLOCK FALSE
