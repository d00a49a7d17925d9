------------------------------ MODULE Identity ------------------------------
(***************************************************************************)
(* Whose account and whose provider profile it is: sessions from Privy     *)
(* tokens, seeded accounts that their owners claim, profiles that are      *)
(* linked by email or made by onboarding (domains/identity,                *)
(* domains/providers, integrations/privy.py, scripts/seed.py).             *)
(*                                                                         *)
(* A session is one step: two that overlap meet in the unique columns of   *)
(* the tables, and the second fails and changes nothing.  Addresses and    *)
(* emails are compared as they are stored.  The names of this module are   *)
(* its own, so that it can stand beside other components.                  *)
(*                                                                         *)
(* An operator marked Fault is a plausible error in the function that      *)
(* follows it; nothing uses it but the mutation tests of the properties.   *)
(***************************************************************************)
EXTENDS Naturals

CONSTANTS
  Dids,        \* Privy accounts
  Emails,
  SeedEmails,  \* emails of the seeded providers
  Addresses,   \* of wallets
  Rows,        \* rows of users there is room for (bound)
  ProviderRows,
  Nothing

ASSUME SeedAssumption == SeedEmails \subseteq Emails

VARIABLES
  privy,       \* external: what Privy has of each account
  cached,      \* fetch_identity: the identity kept for a minute
  users,
  providers,
  vouched,     \* history: the emails Privy has given for an account
  reported     \* history: the wallets Privy has given for an account

identityVars == <<privy, cached, users, providers, vouched, reported>>

SEED == "seed:"
PrivyIdentity == [email : Emails \cup {Nothing}, wallet : Addresses \cup {Nothing}]
User == [did : Dids \cup {SEED}, email : Emails \cup {Nothing}, wallet : Addresses \cup {Nothing},
         role : {"customer", "provider"}]
Provider == [email : Emails \cup {Nothing}, user : Rows \cup {Nothing}]

\* No column and no row is Nothing, and a Privy account is not named like a seeded one.
ASSUME NothingAssumption ==
  Nothing \notin Dids \cup Emails \cup Addresses \cup Rows \cup User \cup Provider
ASSUME DidsAssumption == SEED \notin Dids

IsUser(r) == users[r] # Nothing
IsProvider(p) == providers[p] # Nothing
FreeRow == CHOOSE r \in Rows : ~ IsUser(r)
FreeProviderRow == CHOOSE p \in ProviderRows : ~ IsProvider(p)

\* The tables before the demo is seeded: empty, or with a provider nobody is linked to.
IdentityInit ==
  /\ privy = [d \in Dids |-> [email |-> Nothing, wallet |-> Nothing]]
  /\ cached = [d \in Dids |-> Nothing]
  /\ users = [r \in Rows |-> Nothing]
  /\ \E there \in BOOLEAN, e \in SeedEmails :
       providers = [q \in ProviderRows |-> 
         IF there /\ q = CHOOSE p \in ProviderRows : TRUE THEN [email |-> e, user |-> Nothing] ELSE Nothing]
  /\ vouched = {} /\ reported = {}

ByDid(d) == {r \in Rows : IsUser(r) /\ users[r].did = d}
ByEmail(e) == {r \in Rows : IsUser(r) /\ users[r].email = e}
ForUser(r) == {p \in ProviderRows : IsProvider(p) /\ providers[p].user = r}

\* The unique columns of users: privy_did (a seeded row's is unique by its email),
\* email, wallet_address.
UniqueUsers(table) ==
  \A q, r \in Rows :
    q # r /\ table[q] # Nothing /\ table[r] # Nothing =>
      /\ table[q].did # table[r].did \/ table[q].did = SEED
      /\ table[q].email # table[r].email \/ table[q].email = Nothing
      /\ table[q].wallet # table[r].wallet \/ table[q].wallet = Nothing

\* The unique columns of providers: user_id and email.
UniqueProviders(table) ==
  \A p, q \in ProviderRows :
    p # q /\ table[p] # Nothing /\ table[q] # Nothing =>
      /\ table[p].user # table[q].user \/ table[p].user = Nothing
      /\ table[p].email # table[q].email \/ table[p].email = Nothing

(***************************************************************************)
(* Sessions.                                                               *)
(***************************************************************************)

\* fetch_identity: Privy's answer, or the one kept.
FetchIdentity(d) == IF cached[d] = Nothing THEN privy[d] ELSE cached[d]

\* Fault: an account with the email is taken whoever's it is.
ClaimAny(d, e) ==
  IF ByDid(d) # {} THEN ByDid(d) ELSE IF e = Nothing THEN {} ELSE ByEmail(e)

\* Fault: the email says who it is.
EmailFirst(d, e) ==
  IF e # Nothing /\ ByEmail(e) # {} THEN ByEmail(e) ELSE ByDid(d)

\* The row of the account: its own, or the seeded one with its email.
Claimed(d, e) ==
  IF ByDid(d) # {} THEN ByDid(d)
  ELSE IF e = Nothing THEN {} ELSE {r \in ByEmail(e) : users[r].did = SEED}

\* start_session: the row is the account's from now on, and what Privy leaves out
\* stays as it was.
Upserted(d, identity, r) ==
  LET old == IF IsUser(r) THEN users[r] ELSE [email |-> Nothing, wallet |-> Nothing, role |-> "customer"]
  IN [did |-> d,
      email |-> IF identity.email = Nothing THEN old.email ELSE identity.email,
      wallet |-> IF identity.wallet = Nothing THEN old.wallet ELSE identity.wallet,
      role |-> old.role]

\* Fault: any profile without an owner will do.
UnlinkedWithoutEmail(e) == {p \in ProviderRows : IsProvider(p) /\ providers[p].user = Nothing}

Unlinked(e) == {p \in ProviderRows : IsProvider(p) /\ providers[p].email = e /\ providers[p].user = Nothing}

\* POST /auth/session: start_session and claim_for_user in one transaction.
Session(d) ==
  LET identity == FetchIdentity(d)
      row == IF Claimed(d, identity.email) # {} THEN CHOOSE r \in Claimed(d, identity.email) : TRUE ELSE FreeRow
      user == Upserted(d, identity, row)
      claims == IF ForUser(row) # {} \/ user.email = Nothing THEN {} ELSE Unlinked(user.email)
      table == [users EXCEPT ![row] = IF claims = {} THEN user ELSE [user EXCEPT !.role = "provider"]]
  IN
  /\ Claimed(d, identity.email) # {} \/ \E r \in Rows : ~ IsUser(r)
  /\ UniqueUsers(table)
  /\ users' = table
  /\ providers' = [p \in ProviderRows |-> IF p \in claims THEN [providers[p] EXCEPT !.user = row] ELSE providers[p]]
  /\ cached' = [cached EXCEPT ![d] = identity]
  /\ vouched' = IF identity.email = Nothing THEN vouched ELSE vouched \cup {<<d, identity.email>>}
  /\ reported' = IF identity.wallet = Nothing THEN reported ELSE reported \cup {<<d, identity.wallet>>}
  /\ UNCHANGED privy

\* A minute passes, or another instance answers.
CacheExpires(d) ==
  /\ cached[d] # Nothing
  /\ cached' = [cached EXCEPT ![d] = Nothing]
  /\ UNCHANGED <<privy, users, providers, vouched, reported>>

\* onboard, for a user without a profile.
Onboard(d) ==
  \E r \in ByDid(d) :
    /\ ForUser(r) = {}
    /\ \E p \in ProviderRows : ~ IsProvider(p)
    /\ providers' = [providers EXCEPT ![FreeProviderRow] = [email |-> users[r].email, user |-> r]]
    /\ UniqueProviders(providers')
    /\ users' = [users EXCEPT ![r].role = "provider"]
    /\ UNCHANGED <<privy, cached, vouched, reported>>

\* seed.py, for one provider; run again it links what has no owner.
Seed(e) ==
  LET row == IF ByEmail(e) # {} THEN CHOOSE r \in ByEmail(e) : TRUE ELSE FreeRow
      profiles == {p \in ProviderRows : IsProvider(p) /\ providers[p].email = e}
      profile == IF profiles # {} THEN CHOOSE p \in profiles : TRUE ELSE FreeProviderRow
  IN
  /\ ByEmail(e) # {} \/ \E r \in Rows : ~ IsUser(r)
  /\ profiles # {} \/ \E p \in ProviderRows : ~ IsProvider(p)
  /\ users' = IF IsUser(row) THEN users
              ELSE [users EXCEPT ![row] = [did |-> SEED, email |-> e, wallet |-> Nothing, role |-> "provider"]]
  /\ providers' = IF IsProvider(profile) /\ providers[profile].user # Nothing THEN providers
                  ELSE [providers EXCEPT ![profile] = [email |-> e, user |-> row]]
  /\ UniqueProviders(providers')
  /\ UNCHANGED <<privy, cached, vouched, reported>>

\* External: a person links an email or a wallet, one account at a time.
Link(d) ==
  /\ \E identity \in PrivyIdentity :
       /\ identity # privy[d]
       /\ \A o \in Dids \ {d} :
            /\ identity.email = Nothing \/ privy[o].email # identity.email
            /\ identity.wallet = Nothing \/ privy[o].wallet # identity.wallet
       /\ privy' = [privy EXCEPT ![d] = identity]
  /\ UNCHANGED <<cached, users, providers, vouched, reported>>

IdentityNext ==
  \/ \E d \in Dids : Session(d) \/ CacheExpires(d) \/ Onboard(d) \/ Link(d)
  \/ \E e \in SeedEmails : Seed(e)

IdentitySpec == IdentityInit /\ [][IdentityNext]_identityVars

(***************************************************************************)
(* Properties.                                                             *)
(***************************************************************************)

\* An account that has an owner keeps that owner, also when its email moves to
\* another Privy account (identity/service.py:68-73).
KeepsOwner ==
  \A r \in Rows : IsUser(r) /\ users[r].did # SEED => users'[r] # Nothing /\ users'[r].did = users[r].did
AccountKeepsOwner == [][KeepsOwner]_identityVars

\* A person acts for a provider only if Privy has vouched for the email on that
\* provider's row, whichever of sign-in, seeding and onboarding came first
\* (providers/service.py:31-42).
ProviderIsVouched ==
  \A p \in ProviderRows :
    IsProvider(p) /\ providers[p].user # Nothing /\ providers[p].email # Nothing =>
      LET owner == users[providers[p].user] IN
      owner.did = SEED \/ <<owner.did, providers[p].email>> \in vouched

\* The address an account is paid at is one Privy gave for its owner
\* (identity/service.py:79-80).
PaidAtOwnWallet ==
  \A r \in Rows :
    IsUser(r) /\ users[r].wallet # Nothing => <<users[r].did, users[r].wallet>> \in reported

\* Whoever acts for a provider, and the address that is paid, were vouched for.
AccountsAreVouched == ProviderIsVouched /\ PaidAtOwnWallet
=============================================================================
