--------------------------- MODULE ProvidersProofs ---------------------------
(***************************************************************************)
(* What is proved of the accounts behind the providers (module Identity)   *)
(* and of the history their jobs leave (module Reputation).  The two share *)
(* no state, and each has an invariant of its own.                         *)
(***************************************************************************)
EXTENDS Identity, Reputation, FiniteSetTheorems, SequenceTheorems, TLAPS

(***************************************************************************)
(* Accounts.  However many accounts, emails, wallets and rows there are,   *)
(* and in whatever order people sign in, are seeded, onboard and move      *)
(* their emails, who acts for a provider and which address is paid were    *)
(* vouched for by Privy.  A seeded row is nobody's until an account claims *)
(* it, and the profiles linked to it become that account's with it: so the *)
(* invariant says that such a profile has the row's email, the one by      *)
(* which it is claimed, and that the row has no wallet.                    *)
(***************************************************************************)

IdentityTypeOK ==
  /\ privy \in [Dids -> PrivyIdentity]
  /\ cached \in [Dids -> PrivyIdentity \cup {Nothing}]
  /\ users \in [Rows -> User \cup {Nothing}]
  /\ providers \in [ProviderRows -> Provider \cup {Nothing}]

\* A profile is linked to a row that is there, and while that is a seeded one, by its email.
LinkIsKnown ==
  \A p \in ProviderRows :
    IsProvider(p) /\ providers[p].user # Nothing =>
      /\ IsUser(providers[p].user)
      /\ users[providers[p].user].did = SEED => providers[p].email = users[providers[p].user].email

\* The email of an account that has an owner is one Privy gave for that owner.
EmailIsVouched ==
  \A r \in Rows :
    IsUser(r) /\ users[r].did # SEED /\ users[r].email # Nothing => <<users[r].did, users[r].email>> \in vouched

SeededIsUnpaid == \A r \in Rows : IsUser(r) /\ users[r].did = SEED => users[r].wallet = Nothing

IdentityInv ==
  /\ IdentityTypeOK /\ LinkIsKnown /\ EmailIsVouched /\ SeededIsUnpaid
  /\ ProviderIsVouched /\ PaidAtOwnWallet

LEMMA IdentityInvInit == IdentityInit => IdentityInv
<1> SUFFICES ASSUME IdentityInit PROVE IdentityInv
  OBVIOUS
<1>1. /\ privy \in [Dids -> PrivyIdentity]
      /\ cached \in [Dids -> PrivyIdentity \cup {Nothing}]
      /\ users \in [Rows -> User \cup {Nothing}]
  BY DEF IdentityInit, PrivyIdentity
<1>2. /\ \A r \in Rows : ~ IsUser(r)
      /\ \A p \in ProviderRows : IsProvider(p) => providers[p].user = Nothing
      /\ providers \in [ProviderRows -> Provider \cup {Nothing}]
  BY SeedAssumption DEF IdentityInit, IsUser, IsProvider, Provider
<1> QED
  BY <1>1, <1>2
  DEF IdentityInv, IdentityTypeOK, LinkIsKnown, EmailIsVouched, SeededIsUnpaid, ProviderIsVouched,
      PaidAtOwnWallet

(***************************************************************************)
(* Changes of one row.                                                     *)
(***************************************************************************)

\* A profile that is made, or had no owner, is linked to a row that is there; the
\* row has the profile's email, and is nothing else than it was.
LEMMA LinkKeeps ==
  ASSUME IdentityInv, NEW p \in ProviderRows, NEW r \in Rows, NEW m \in Emails \cup {Nothing},
         IsProvider(p) => providers[p].user = Nothing,
         providers' = [providers EXCEPT ![p] = [email |-> m, user |-> r]],
         IdentityTypeOK', EmailIsVouched', SeededIsUnpaid', PaidAtOwnWallet',
         users'[r] # Nothing, users'[r].email = m,
         \A q \in Rows : IsUser(q) => /\ users'[q] # Nothing
                                      /\ users'[q].did = users[q].did
                                      /\ users'[q].email = users[q].email,
         UNCHANGED vouched
  PROVE  IdentityInv'
<1> USE DEF IdentityInv, IdentityTypeOK
<1>1. ASSUME NEW q \in ProviderRows, IsProvider(q)', providers'[q].user # Nothing
      PROVE  LET owner == users'[providers'[q].user] IN
             /\ owner # Nothing
             /\ owner.did = SEED => providers'[q].email = owner.email
             /\ providers'[q].email # Nothing => owner.did = SEED \/ <<owner.did, providers'[q].email>> \in vouched'
  <2>1. CASE q = p
    <3>1. providers'[q].user = r /\ providers'[q].email = m
      BY <2>1
    <3> QED
      BY <3>1 DEF EmailIsVouched, IsUser
  <2>2. CASE q # p
    <3>1. providers'[q] = providers[q] /\ IsProvider(q)
      BY <1>1, <2>2 DEF IsProvider
    <3>2. providers[q].user \in Rows
      BY <1>1, <3>1 DEF IsProvider, Provider
    <3> QED
      BY <1>1, <3>1, <3>2 DEF LinkIsKnown, ProviderIsVouched, IsUser
  <2> QED
    BY <2>1, <2>2
<1> QED
  BY <1>1 DEF LinkIsKnown, ProviderIsVouched, IsUser

(***************************************************************************)
(* Sessions.                                                               *)
(***************************************************************************)

\* The row a session is given: the account's own, the seeded one with its email, or
\* one that was free.
Takes(d, identity, row) ==
  \/ IsUser(row) /\ users[row].did = d
  \/ IsUser(row) /\ users[row].did = SEED /\ users[row].email = identity.email /\ identity.email # Nothing
  \/ ~ IsUser(row)

\* What the account has afterwards.
Becomes(d, identity, row, user) ==
  /\ user.did = d
  /\ user.email = IF identity.email # Nothing THEN identity.email
                  ELSE IF IsUser(row) THEN users[row].email ELSE Nothing
  /\ user.wallet = IF identity.wallet # Nothing THEN identity.wallet
                   ELSE IF IsUser(row) THEN users[row].wallet ELSE Nothing

LEMMA UpsertedType ==
  ASSUME IdentityTypeOK, NEW d \in Dids, NEW identity \in PrivyIdentity, NEW row \in Rows
  PROVE  /\ Upserted(d, identity, row) \in User
         /\ Becomes(d, identity, row, Upserted(d, identity, row))
<1>1. IsUser(row) => users[row] \in User
  BY DEF IdentityTypeOK, IsUser
<1> QED
  BY <1>1 DEF Upserted, Becomes, User, PrivyIdentity

\* What a session changes: one row, and the profiles it claims.
SessionEffect(d, identity, row, user, claims) ==
  /\ Takes(d, identity, row) /\ Becomes(d, identity, row, user)
  /\ \A p \in claims : /\ IsProvider(p) /\ providers[p].user = Nothing
                       /\ providers[p].email = user.email /\ user.email # Nothing
  /\ users' = [users EXCEPT ![row] = user]
  /\ providers' = [p \in ProviderRows |->
                     IF p \in claims THEN [providers[p] EXCEPT !.user = row] ELSE providers[p]]
  /\ cached' = [cached EXCEPT ![d] = identity]
  /\ vouched' = IF identity.email = Nothing THEN vouched ELSE vouched \cup {<<d, identity.email>>}
  /\ reported' = IF identity.wallet = Nothing THEN reported ELSE reported \cup {<<d, identity.wallet>>}
  /\ UNCHANGED privy

\* Every session is one of these.
LEMMA SessionStep ==
  ASSUME IdentityInv, NEW d \in Dids, Session(d)
  PROVE  \E identity \in PrivyIdentity, row \in Rows, user \in User, claims \in SUBSET ProviderRows :
           SessionEffect(d, identity, row, user, claims)
<1> DEFINE identity == FetchIdentity(d)
           row == IF Claimed(d, identity.email) # {} THEN CHOOSE r \in Claimed(d, identity.email) : TRUE
                  ELSE FreeRow
           user == Upserted(d, identity, row)
           claims == IF ForUser(row) # {} \/ user.email = Nothing THEN {} ELSE Unlinked(user.email)
           kept == IF claims = {} THEN user ELSE [user EXCEPT !.role = "provider"]
<1>1. identity \in PrivyIdentity
  BY DEF FetchIdentity, IdentityInv, IdentityTypeOK
<1> HIDE DEF identity
<1>2. row \in Rows /\ Takes(d, identity, row)
  <2>1. CASE Claimed(d, identity.email) # {}
    <3>1. row \in Claimed(d, identity.email)
      BY <2>1
    <3> QED
      BY <3>1 DEF Claimed, ByDid, ByEmail, Takes
  <2>2. CASE Claimed(d, identity.email) = {}
    <3>1. \E r \in Rows : ~ IsUser(r)
      BY <2>2 DEF Session, identity
    <3>2. row = FreeRow
      BY <2>2
    <3> QED
      BY <3>1, <3>2 DEF FreeRow, Takes
  <2> QED
    BY <2>1, <2>2
<1>3. /\ users' = [users EXCEPT ![row] = kept]
      /\ providers' = [p \in ProviderRows |->
                         IF p \in claims THEN [providers[p] EXCEPT !.user = row] ELSE providers[p]]
      /\ cached' = [cached EXCEPT ![d] = identity]
      /\ vouched' = IF identity.email = Nothing THEN vouched ELSE vouched \cup {<<d, identity.email>>}
      /\ reported' = IF identity.wallet = Nothing THEN reported ELSE reported \cup {<<d, identity.wallet>>}
      /\ UNCHANGED privy
  BY DEF Session, identity
<1> HIDE DEF row
<1>4. user \in User /\ Becomes(d, identity, row, user)
  BY <1>1, <1>2, UpsertedType DEF IdentityInv
<1> HIDE DEF user
<1>5. kept \in User /\ Becomes(d, identity, row, kept) /\ kept.email = user.email
  BY <1>4 DEF User, Becomes
<1>6. /\ claims \in SUBSET ProviderRows
      /\ \A p \in claims : /\ IsProvider(p) /\ providers[p].user = Nothing
                           /\ providers[p].email = user.email /\ user.email # Nothing
  BY DEF Unlinked
<1> HIDE DEF kept, claims
<1> QED
  BY <1>1, <1>2, <1>3, <1>5, <1>6 DEF SessionEffect

\* A session takes over no other account, and what it takes over was found by an
\* email that is the account's.
LEMMA SessionKeeps ==
  ASSUME IdentityInv, NEW d \in Dids, Session(d)
  PROVE  IdentityInv' /\ KeepsOwner
<1>1. PICK identity \in PrivyIdentity, row \in Rows, user \in User, claims \in SUBSET ProviderRows :
        SessionEffect(d, identity, row, user, claims)
  BY SessionStep
<1> USE DEF SessionEffect
<1>2. /\ users \in [Rows -> User \cup {Nothing}]
      /\ providers \in [ProviderRows -> Provider \cup {Nothing}]
      /\ \A p \in ProviderRows : IsProvider(p) => providers[p] \in Provider /\ providers[p].user \in Rows \cup {Nothing}
  BY DEF IdentityInv, IdentityTypeOK, IsProvider, Provider
<1>3. /\ users'[row] = user /\ user # Nothing /\ user.did = d /\ d # SEED
      /\ \A r \in Rows : r # row => users'[r] = users[r]
      /\ vouched \subseteq vouched' /\ reported \subseteq reported'
  BY <1>1, <1>2, NothingAssumption, DidsAssumption DEF Becomes
<1>4. user.email # Nothing => <<d, user.email>> \in vouched'
  BY <1>1, <1>3 DEF Becomes, Takes, IdentityInv, EmailIsVouched
<1>5. user.wallet # Nothing => <<d, user.wallet>> \in reported'
  BY <1>1, <1>3 DEF Becomes, Takes, IdentityInv, SeededIsUnpaid, PaidAtOwnWallet
<1>6. IdentityTypeOK'
  <2>1. \A p \in claims : [providers[p] EXCEPT !.user = row] \in Provider
    BY <1>1, <1>2 DEF Provider
  <2> QED
    BY <1>1, <1>2, <2>1 DEF IdentityInv, IdentityTypeOK
<1>7. EmailIsVouched' /\ SeededIsUnpaid' /\ PaidAtOwnWallet'
  BY <1>3, <1>4, <1>5 DEF IdentityInv, EmailIsVouched, SeededIsUnpaid, PaidAtOwnWallet, IsUser
<1>8. ASSUME NEW p \in ProviderRows, providers'[p] # Nothing, providers'[p].user # Nothing
      PROVE  LET owner == users'[providers'[p].user] IN
             /\ owner # Nothing
             /\ owner.did = SEED => providers'[p].email = owner.email
             /\ providers'[p].email # Nothing => owner.did = SEED \/ <<owner.did, providers'[p].email>> \in vouched'
  <2>1. CASE p \in claims
    <3>1. providers'[p].user = row /\ providers'[p].email = user.email
      BY <1>1, <1>2, <2>1 DEF Provider
    <3> QED
      BY <1>3, <1>4, <3>1
  <2>2. CASE p \notin claims
    <3>1. providers'[p] = providers[p]
      BY <1>1, <2>2
    <3>2. IsProvider(p) /\ providers[p].user \in Rows /\ providers[p].user # Nothing
      BY <1>2, <1>8, <3>1 DEF IsProvider
    <3>3. IsUser(providers[p].user)
      BY <3>2 DEF IdentityInv, LinkIsKnown
    <3>4. CASE providers[p].user = row
      <4>1. CASE users[row].did = d
        BY <1>3, <3>1, <3>2, <3>4, <4>1 DEF IdentityInv, ProviderIsVouched
      <4>2. CASE users[row].did = SEED /\ users[row].email = identity.email /\ identity.email # Nothing
        <5>1. providers[p].email = identity.email
          BY <3>2, <3>4, <4>2 DEF IdentityInv, LinkIsKnown
        <5> QED
          BY <1>1, <1>3, <3>1, <3>4, <5>1
      <4> QED
        BY <1>1, <3>3, <3>4, <4>1, <4>2 DEF Takes
    <3>5. CASE providers[p].user # row
      BY <1>3, <3>1, <3>2, <3>5 DEF IdentityInv, LinkIsKnown, ProviderIsVouched, IsUser
    <3> QED
      BY <3>4, <3>5
  <2> QED
    BY <2>1, <2>2
<1>9. LinkIsKnown' /\ ProviderIsVouched'
  BY <1>8 DEF LinkIsKnown, ProviderIsVouched, IsProvider, IsUser
<1>10. KeepsOwner
  BY <1>1, <1>3 DEF KeepsOwner, Takes, IsUser
<1> QED
  BY <1>6, <1>7, <1>9, <1>10 DEF IdentityInv

(***************************************************************************)
(* The other steps.                                                        *)
(***************************************************************************)

\* A profile is made for an account, with the account's email.
LEMMA OnboardKeeps ==
  ASSUME IdentityInv, NEW d \in Dids, Onboard(d)
  PROVE  IdentityInv' /\ KeepsOwner
<1>1. PICK r \in ByDid(d) :
        /\ \E p \in ProviderRows : ~ IsProvider(p)
        /\ providers' = [providers EXCEPT ![FreeProviderRow] = [email |-> users[r].email, user |-> r]]
        /\ users' = [users EXCEPT ![r].role = "provider"]
        /\ UNCHANGED <<privy, cached, vouched, reported>>
  BY DEF Onboard
<1>2. FreeProviderRow \in ProviderRows /\ ~ IsProvider(FreeProviderRow)
  BY <1>1 DEF FreeProviderRow
<1>3. /\ users \in [Rows -> User \cup {Nothing}]
      /\ r \in Rows /\ users[r] \in User /\ users[r].email \in Emails \cup {Nothing}
  BY <1>1 DEF IdentityInv, IdentityTypeOK, ByDid, IsUser, User
<1>4. /\ users'[r] \in User
      /\ \A q \in Rows : (users'[q] = Nothing) = (users[q] = Nothing)
      /\ \A q \in Rows : IsUser(q) =>
           users'[q].did = users[q].did /\ users'[q].email = users[q].email /\ users'[q].wallet = users[q].wallet
  BY <1>1, <1>3, NothingAssumption DEF User, IsUser
<1>5. IdentityTypeOK'
  BY <1>1, <1>2, <1>3, <1>4 DEF IdentityInv, IdentityTypeOK, Provider
<1>6. EmailIsVouched' /\ SeededIsUnpaid' /\ PaidAtOwnWallet' /\ KeepsOwner
  BY <1>1, <1>4 DEF IdentityInv, EmailIsVouched, SeededIsUnpaid, PaidAtOwnWallet, KeepsOwner, IsUser
<1>7. users'[r] # Nothing /\ users'[r].email = users[r].email
  BY <1>3, <1>4, NothingAssumption DEF IsUser
<1> QED
  BY <1>1, <1>2, <1>3, <1>4, <1>5, <1>6, <1>7, LinkKeeps DEF IsUser

\* A seeded row and its profile, or a profile for the account that has the email.
LEMMA SeedKeeps ==
  ASSUME IdentityInv, NEW e \in SeedEmails, Seed(e)
  PROVE  IdentityInv' /\ KeepsOwner
<1> DEFINE row == IF ByEmail(e) # {} THEN CHOOSE r \in ByEmail(e) : TRUE ELSE FreeRow
           profiles == {p \in ProviderRows : IsProvider(p) /\ providers[p].email = e}
           profile == IF profiles # {} THEN CHOOSE p \in profiles : TRUE ELSE FreeProviderRow
           seeded == [did |-> SEED, email |-> e, wallet |-> Nothing, role |-> "provider"]
<1>1. e \in Emails
  BY SeedAssumption
<1>2. row \in Rows /\ (IsUser(row) => users[row].email = e)
  BY DEF Seed, FreeRow, ByEmail
<1>3. profile \in ProviderRows
  BY DEF Seed, FreeProviderRow
<1>4. /\ users' = IF IsUser(row) THEN users ELSE [users EXCEPT ![row] = seeded]
      /\ providers' = IF IsProvider(profile) /\ providers[profile].user # Nothing THEN providers
                      ELSE [providers EXCEPT ![profile] = [email |-> e, user |-> row]]
      /\ UNCHANGED <<privy, cached, vouched, reported>>
  BY DEF Seed
<1> HIDE DEF row, profiles, profile
<1>5. users \in [Rows -> User \cup {Nothing}] /\ seeded \in User
  BY <1>1 DEF IdentityInv, IdentityTypeOK, User
<1>6. /\ users'[row] # Nothing /\ users'[row].email = e
      /\ \A q \in Rows : IsUser(q) => users'[q] = users[q]
      /\ \A q \in Rows : ~ IsUser(q) => users'[q] = Nothing \/ users'[q] = seeded
  BY <1>2, <1>4, <1>5, NothingAssumption DEF IsUser
<1>7. IdentityTypeOK'
  BY <1>1, <1>2, <1>3, <1>4, <1>5 DEF IdentityInv, IdentityTypeOK, Provider
<1>8. EmailIsVouched' /\ SeededIsUnpaid' /\ PaidAtOwnWallet' /\ KeepsOwner
  BY <1>4, <1>6 DEF IdentityInv, EmailIsVouched, SeededIsUnpaid, PaidAtOwnWallet, KeepsOwner, IsUser
<1>9. CASE IsProvider(profile) /\ providers[profile].user # Nothing
  <2>1. UNCHANGED providers
    BY <1>4, <1>9
  <2>2. \A p \in ProviderRows : IsProvider(p) /\ providers[p].user # Nothing => providers[p].user \in Rows
    BY DEF IdentityInv, IdentityTypeOK, IsProvider, Provider
  <2>3. LinkIsKnown' /\ ProviderIsVouched'
    BY <1>4, <1>6, <2>1, <2>2 DEF IdentityInv, LinkIsKnown, ProviderIsVouched, IsProvider, IsUser
  <2> QED
    BY <1>7, <1>8, <2>3 DEF IdentityInv
<1>10. CASE ~ (IsProvider(profile) /\ providers[profile].user # Nothing)
  <2>1. providers' = [providers EXCEPT ![profile] = [email |-> e, user |-> row]]
    BY <1>4, <1>10
  <2>2. \A q \in Rows : IsUser(q) => /\ users'[q] # Nothing
                                     /\ users'[q].did = users[q].did
                                     /\ users'[q].email = users[q].email
    BY <1>6 DEF IsUser
  <2> QED
    BY <1>1, <1>2, <1>3, <1>4, <1>6, <1>7, <1>8, <1>10, <2>1, <2>2, LinkKeeps
<1> QED
  BY <1>9, <1>10

LEMMA IdentityInvNext ==
  ASSUME IdentityInv, [IdentityNext]_identityVars
  PROVE  IdentityInv' /\ (KeepsOwner \/ UNCHANGED identityVars)
<1>1. CASE UNCHANGED identityVars
  BY <1>1
  DEF identityVars, IdentityInv, IdentityTypeOK, LinkIsKnown, EmailIsVouched, SeededIsUnpaid,
      ProviderIsVouched, PaidAtOwnWallet, IsUser, IsProvider
<1>2. ASSUME NEW d \in Dids, CacheExpires(d) \/ Link(d)
      PROVE  IdentityInv' /\ KeepsOwner
  <2>1. UNCHANGED <<users, providers, vouched, reported>>
    BY <1>2 DEF CacheExpires, Link
  <2>2. IdentityTypeOK'
    BY <1>2, <2>1 DEF CacheExpires, Link, IdentityInv, IdentityTypeOK
  <2> QED
    BY <2>1, <2>2
    DEF IdentityInv, LinkIsKnown, EmailIsVouched, SeededIsUnpaid, ProviderIsVouched, PaidAtOwnWallet,
        KeepsOwner, IsUser, IsProvider
<1> QED
  BY <1>1, <1>2, SessionKeeps, OnboardKeeps, SeedKeeps DEF IdentityNext

LEMMA IdentityInvariant == IdentitySpec => []IdentityInv
BY IdentityInvInit, IdentityInvNext, PTL DEF IdentitySpec

\* Whoever acts for a provider and the address that is paid were vouched for, in
\* whatever order sessions, seeding and onboarding come
\* (providers/service.py:31-42, identity/service.py:79-80).
THEOREM Vouched == IdentitySpec => []AccountsAreVouched
<1>1. IdentityInv => AccountsAreVouched
  BY DEF IdentityInv, AccountsAreVouched
<1> QED
  BY <1>1, IdentityInvariant, PTL

\* An account that has an owner keeps it, also when its email moves to another
\* Privy account (identity/service.py:68-73).
THEOREM OwnersStay == IdentitySpec => AccountKeepsOwner
<1>1. IdentityInv /\ [IdentityNext]_identityVars => [KeepsOwner]_identityVars
  BY IdentityInvNext
<1> QED
  BY <1>1, IdentityInvariant, PTL DEF IdentitySpec, AccountKeepsOwner

(***************************************************************************)
(* Standing.  However many providers and jobs there are and however far    *)
(* the subgraph lags: its history is the escrow's, a score is a share, and *)
(* nobody is left out for lack of an answer.  None of this is inductive,   *)
(* because it speaks of a subgraph that has caught up.  The invariant      *)
(* speaks of every moment: a log still to be handled tells of something    *)
(* that happened, once, and after the funding; and the numbers count what  *)
(* happened less what those logs tell.                                     *)
(*                                                                         *)
(* A total is a cardinality: its laws are those of finite sets.            *)
(***************************************************************************)

Marks(f, S) == UNION {{x} \X (1 .. f[x]) : x \in S}

LEMMA MarksFinite ==
  ASSUME NEW S, IsFiniteSet(S), NEW f, \A x \in S : f[x] \in Nat
  PROVE  IsFiniteSet(Marks(f, S))
<1> DEFINE T == {{x} \X (1 .. f[x]) : x \in S}
           g == [x \in S |-> {x} \X (1 .. f[x])]
<1>1. g \in Surjection(S, T)
  BY DEF Surjection
<1>2. IsFiniteSet(T)
  BY <1>1, FS_Surjection
<1>3. ASSUME NEW t \in T PROVE IsFiniteSet(t)
  <2>1. PICK x \in S : t = {x} \X (1 .. f[x])
    OBVIOUS
  <2> HIDE DEF T, g
  <2>2. IsFiniteSet({x}) /\ IsFiniteSet(1 .. f[x])
    <3>1. 1 \in Int /\ f[x] \in Int
      OBVIOUS
    <3> QED
      BY <3>1, FS_Singleton, FS_Interval
  <2>3. IsFiniteSet({x} \X (1 .. f[x]))
    BY <2>2, FS_Product
  <2> QED
    BY <2>1, <2>3
<1> HIDE DEF T
<1>4. IsFiniteSet(UNION T)
  BY <1>2, <1>3, FS_UNION
<1> QED
  BY <1>4 DEF T, Marks

\* A total over no more elements is no more.
LEMMA TotalMonotone ==
  ASSUME NEW R, IsFiniteSet(R), NEW f, \A x \in R : f[x] \in Nat, NEW S \in SUBSET R
  PROVE  Total(f, S) \in Nat /\ Total(f, R) \in Nat /\ Total(f, S) <= Total(f, R)
<1>1. IsFiniteSet(Marks(f, R))
  BY MarksFinite
<1>2. Marks(f, S) \in SUBSET Marks(f, R)
  BY DEF Marks
<1> QED
  BY <1>1, <1>2, FS_Subset, FS_CardinalityType DEF Total, Marks

\* One element more adds its number.
LEMMA TotalAdds ==
  ASSUME NEW S, IsFiniteSet(S), NEW i, i \notin S, NEW f, \A x \in S \cup {i} : f[x] \in Nat
  PROVE  Total(f, S \cup {i}) = Total(f, S) + f[i]
<1> DEFINE more == {i} \X (1 .. f[i])
<1>1. Marks(f, S \cup {i}) = Marks(f, S) \cup more
  BY DEF Marks
<1>2. Marks(f, S) \cap more = {}
  BY DEF Marks
<1>3. IsFiniteSet(Marks(f, S))
  BY MarksFinite
<1>4. IsFiniteSet(more) /\ Cardinality(more) = f[i]
  <2>1. IsFiniteSet({i}) /\ Cardinality({i}) = 1
    BY FS_Singleton
  <2>2. IsFiniteSet(1 .. f[i]) /\ Cardinality(1 .. f[i]) = f[i]
    BY FS_Interval
  <2>3. IsFiniteSet(more) /\ Cardinality(more) = 1 * f[i]
    BY <2>1, <2>2, FS_Product
  <2> QED
    BY <2>3
<1> HIDE DEF more
<1>5. Cardinality(Marks(f, S) \cup more) = Cardinality(Marks(f, S)) + Cardinality(more)
  <2>1. Cardinality(Marks(f, S)) \in Nat
    BY <1>3, FS_CardinalityType
  <2>2. Cardinality({}) = 0
    BY FS_EmptySet
  <2> QED
    BY <1>2, <1>3, <1>4, <2>1, <2>2, FS_Union
<1> QED
  BY <1>1, <1>4, <1>5 DEF Total, Marks

LEMMA TotalSame ==
  ASSUME NEW S, NEW f, NEW g, \A x \in S : f[x] = g[x]
  PROVE  Total(f, S) = Total(g, S)
<1>1. {{x} \X (1 .. f[x]) : x \in S} = {{x} \X (1 .. g[x]) : x \in S}
  OBVIOUS
<1> QED
  BY <1>1 DEF Total

(***************************************************************************)
(* The score.                                                              *)
(***************************************************************************)

\* What jobs there are bounds what became of them.
LEMMA SeededType ==
  ASSUME NEW p \in Ranked
  PROVE  LET h == SeededHistory(p) IN
         /\ h.funded \in Nat /\ h.completed \in 0 .. h.funded /\ h.disputes \in 0 .. h.funded
<1> DEFINE D == DOMAIN SeededJobs[p]
           count(states) == Total(SeededJobs[p], states \cap D)
<1>1. IsFiniteSet((TxState \ PRE_FUNDING) \cap D)
  BY SeededAssumption, FS_Intersection
<1>2. \A x \in D : SeededJobs[p][x] \in Nat
  BY SeededAssumption
<1>3. /\ COMPLETED_STATES \cap D \in SUBSET ((TxState \ PRE_FUNDING) \cap D)
      /\ DISPUTED_STATES \cap D \in SUBSET ((TxState \ PRE_FUNDING) \cap D)
  BY DEF COMPLETED_STATES, DISPUTED_STATES, TxState, PRE_FUNDING
<1>4. \A x \in (TxState \ PRE_FUNDING) \cap D : SeededJobs[p][x] \in Nat
  BY <1>2
<1> HIDE DEF D
<1>5. /\ count(COMPLETED_STATES) \in Nat /\ count(COMPLETED_STATES) <= count(TxState \ PRE_FUNDING)
      /\ count(TxState \ PRE_FUNDING) \in Nat
  BY <1>1, <1>3, <1>4, TotalMonotone
<1>6. count(DISPUTED_STATES) \in Nat /\ count(DISPUTED_STATES) <= count(TxState \ PRE_FUNDING)
  BY <1>1, <1>3, <1>4, TotalMonotone
<1>7. SeededHistory(p) = [completed |-> count(COMPLETED_STATES), disputes |-> count(DISPUTED_STATES),
                          funded |-> count(TxState \ PRE_FUNDING)]
  BY DEF SeededHistory, D
<1> HIDE DEF count
<1> QED
  BY <1>5, <1>6, <1>7

LEMMA ProductMonotone ==
  ASSUME NEW a \in Nat, NEW b \in Nat, NEW c \in Nat, a <= b
  PROVE  a * c \in Nat /\ b * c \in Nat /\ a * c <= b * c
OBVIOUS

\* A share of jobs, of disputes and of money is at most all of it, so a score is at
\* most 97: an assumed day of work costs a third of the last tenth.
LEMMA ScoreBound ==
  ASSUME NEW F \in Nat \ {0}, NEW M \in Nat \ {0}, NEW c \in 0 .. F, NEW d \in 0 .. F, NEW r \in 0 .. M
  PROVE  Round(120 * c * M + 90 * (F - d) * M + 60 * (M - r) * F + 10 * 2 * F * M, 3 * F * M) \in 0 .. 97
<1> DEFINE P == F * M
           A == c * M
           B == (F - d) * M
           C == (M - r) * F
<1>1. P \in Nat /\ P >= 1
  OBVIOUS
<1>2. A \in Nat /\ A <= P
  BY ProductMonotone
<1>3. B \in Nat /\ B <= P
  BY ProductMonotone
<1>4. C \in Nat /\ C <= P
  <2>1. C <= M * F /\ C \in Nat
    BY ProductMonotone
  <2> QED
    BY <2>1
<1>5. /\ 120 * c * M = 120 * A /\ 90 * (F - d) * M = 90 * B /\ 60 * (M - r) * F = 60 * C
      /\ 10 * 2 * F * M = 20 * P /\ 3 * F * M = 3 * P
  OBVIOUS
<1> HIDE DEF P, A, B, C
<1> DEFINE n == 120 * A + 90 * B + 60 * C + 20 * P
<1>6. n \in Nat /\ n <= 290 * P
  BY <1>1, <1>2, <1>3, <1>4
<1> HIDE DEF n
<1>7. ASSUME NEW k \in Nat, NEW D \in Nat \ {0}, k < 98 * D
      PROVE  k \div D \in 0 .. 97
  BY <1>7
<1>8. (2 * n + 3 * P) \div (2 * (3 * P)) \in 0 .. 97
  <2>1. 2 * n + 3 * P \in Nat /\ 2 * (3 * P) \in Nat \ {0} /\ 2 * n + 3 * P < 98 * (2 * (3 * P))
    BY <1>1, <1>6
  <2> QED
    BY <1>7, <2>1
<1> QED
  BY <1>5, <1>8 DEF Round, n

(***************************************************************************)
(* The invariant.  What the subgraph has seen of an intent is what         *)
(* happened to it less what is still in the logs; its numbers count that.  *)
(***************************************************************************)

\* The logs that change a number.
Tracked == {"IntentFunded", "DisputeRaised", "IntentResolved"}

Happened(intent, name) ==
  \/ name = "IntentFunded" /\ intent.state \notin {"NONE", "AWAITING_FUNDS"}
  \/ name = "DisputeRaised" /\ intent.disputed
  \/ name = "IntentResolved" /\ intent.state = "RESOLVED"

Pending(name) ==
  {i \in Intents : \E k \in 1 .. Len(behind) : behind[k].name = name /\ behind[k].intent = i}
Seen(name) == {i \in Intents : Happened(escrow[i], name)} \ Pending(name)

EscrowIntent ==
  [state : {"NONE", "AWAITING_FUNDS", "FUNDED", "IN_DISPUTE", "TIMELOCKED", "APPEALED", "RESOLVED"},
   toCustomer : 0 .. Amount, toProvider : 0 .. Amount, disputed : BOOLEAN]
Log ==
  [name : {"IntentCreated", "IntentFunded", "DisputeRaised", "AIProposalSubmitted", "AppealEscalated",
           "AbandonmentExecuted"}, intent : Intents]
  \cup [name : {"IntentResolved"}, intent : Intents, customerAmount : 0 .. Amount, providerAmount : 0 .. Amount]

StandingTypeOK ==
  /\ escrow \in [Intents -> EscrowIntent]
  /\ behind \in Seq(Log)
  /\ stats \in [Ranked -> Stats \cup {NoStats}]
  /\ cache # NoStats => cache.stats \in [Ranked -> Stats \cup {NoStats}]

UndisputedYet ==
  \A i \in Intents : escrow[i].state \in {"NONE", "AWAITING_FUNDS", "FUNDED"} => ~ escrow[i].disputed

\* A log tells of what happened, once, and a resolution what was paid.
LogsHappened ==
  \A k \in 1 .. Len(behind) :
    behind[k].name \in Tracked => Happened(escrow[behind[k].intent], behind[k].name)
LogsAreOnce ==
  \A k, l \in 1 .. Len(behind) :
    behind[k].name \in Tracked /\ behind[k].name = behind[l].name /\ behind[k].intent = behind[l].intent => k = l
LogsPay ==
  \A k \in 1 .. Len(behind) :
    behind[k].name = "IntentResolved" =>
      /\ behind[k].customerAmount = escrow[behind[k].intent].toCustomer
      /\ behind[k].providerAmount = escrow[behind[k].intent].toProvider
      /\ behind[k].customerAmount + behind[k].providerAmount = Amount

\* The funding of an intent comes before what else may happen to it, in the logs and
\* in what was seen.
LogsAreOrdered ==
  \A k, l \in 1 .. Len(behind) :
    k < l /\ behind[k].intent = behind[l].intent /\ behind[l].name = "IntentFunded" =>
      behind[k].name \notin {"DisputeRaised", "IntentResolved"}
SeenInOrder == Seen("DisputeRaised") \cup Seen("IntentResolved") \subseteq Seen("IntentFunded")

LogsAreSound ==
  UndisputedYet /\ LogsHappened /\ LogsAreOnce /\ LogsPay /\ LogsAreOrdered /\ SeenInOrder

Of(p, S) == {i \in S : PaidTo[i] = p}
Paid(part) == [i \in Intents |-> escrow[i][part]]

\* The numbers of a provider count what the subgraph has seen.
Tallies(p, s) ==
  LET done == Of(p, Seen("IntentResolved")) IN
  /\ s.funded = Cardinality(Of(p, Seen("IntentFunded")))
  /\ s.disputes = Cardinality(Of(p, Seen("DisputeRaised")))
  /\ s.released + s.settled + s.refunded = Cardinality(done)
  /\ s.released = Cardinality({i \in done : escrow[i].toCustomer = 0})
  /\ s.refunded = Cardinality({i \in done : escrow[i].toProvider = 0})
  /\ s.paidOut = Total(Paid("toProvider"), done)
  /\ s.refundedAmount = Total(Paid("toCustomer"), done)
  /\ s.evidenceAnchored = 0

Tallied == \A p \in Ranked : Tallies(p, LoadProvider(p))

\* What the query keeps was so once, and jobs are only added.
CacheIsOlder ==
  cache # NoStats =>
    \A p \in Ranked : cache.stats[p] # NoStats => cache.stats[p].funded <= LoadProvider(p).funded

StandingInv == StandingTypeOK /\ LogsAreSound /\ Tallied /\ CacheIsOlder

LEMMA NewProviderType ==
  /\ NewProvider \in Stats /\ NewProvider.funded = 0
  /\ StandingTypeOK => \A p \in Ranked : LoadProvider(p) \in Stats
BY DEF NewProvider, Stats, StandingTypeOK, LoadProvider

LEMMA StandingInvInit == StandingInit => StandingInv
<1> SUFFICES ASSUME StandingInit PROVE StandingInv
  OBVIOUS
<1>1. Len(behind) = 0 /\ behind \in Seq(Log) /\ cache = NoStats
  BY DEF StandingInit
<1>2. \A i \in Intents : escrow[i] = [state |-> "NONE", toCustomer |-> 0, toProvider |-> 0, disputed |-> FALSE]
  BY DEF StandingInit
<1>3. StandingTypeOK
  BY <1>1, AmountAssumption DEF StandingInit, StandingTypeOK, EscrowIntent
<1>4. Seen("IntentFunded") = {} /\ Seen("DisputeRaised") = {} /\ Seen("IntentResolved") = {}
  BY <1>2 DEF Seen, Happened
<1>5. LogsAreSound
  BY <1>1, <1>2, <1>4
  DEF LogsAreSound, UndisputedYet, LogsHappened, LogsAreOnce, LogsPay, LogsAreOrdered, SeenInOrder
<1>6. ASSUME NEW p \in Ranked PROVE Tallies(p, LoadProvider(p))
  <2>1. LoadProvider(p) = NewProvider
    BY DEF StandingInit, LoadProvider
  <2>2. /\ Of(p, Seen("IntentFunded")) = {} /\ Of(p, Seen("DisputeRaised")) = {}
        /\ Of(p, Seen("IntentResolved")) = {}
    BY <1>4 DEF Of
  <2>3. Total(Paid("toProvider"), {}) = 0 /\ Total(Paid("toCustomer"), {}) = 0
    BY FS_EmptySet DEF Total
  <2>4. {i \in {} : escrow[i].toCustomer = 0} = {} /\ {i \in {} : escrow[i].toProvider = 0} = {}
    OBVIOUS
  <2>5. Cardinality({}) = 0
    BY FS_EmptySet
  <2> QED
    BY <2>1, <2>2, <2>3, <2>4, <2>5 DEF Tallies, NewProvider
<1> QED
  BY <1>1, <1>3, <1>5, <1>6 DEF StandingInv, Tallied, CacheIsOlder

(***************************************************************************)
(* The escrow's steps: what happens is logged, and not seen yet.           *)
(***************************************************************************)

\* What happens to an intent and the logs of it agree.
Emitted(i, new) ==
  /\ escrow[i].state # "RESOLVED"
  /\ escrow'[i].state \in {"NONE", "AWAITING_FUNDS", "FUNDED"} => ~ escrow'[i].disputed
  /\ \A k \in 1 .. Len(new) : new[k].intent = i
  /\ \A name \in Tracked :
       Happened(escrow'[i], name) <=> Happened(escrow[i], name) \/ \E k \in 1 .. Len(new) : new[k].name = name
  /\ \A k \in 1 .. Len(new) : new[k].name \in Tracked => ~ Happened(escrow[i], new[k].name)
  /\ \A k, l \in 1 .. Len(new) : new[k].name \in Tracked /\ new[k].name = new[l].name => k = l
  /\ \A k \in 1 .. Len(new) : new[k].name = "IntentFunded" => k = 1 /\ escrow[i].state = "AWAITING_FUNDS"
  /\ \A k \in 1 .. Len(new) :
       new[k].name = "IntentResolved" =>
         /\ new[k].customerAmount = escrow'[i].toCustomer /\ new[k].providerAmount = escrow'[i].toProvider
         /\ new[k].customerAmount + new[k].providerAmount = Amount

LEMMA EmitKeeps ==
  ASSUME StandingInv, NEW i \in Intents, NEW new \in Seq(Log),
         escrow' \in [Intents -> EscrowIntent], \A j \in Intents \ {i} : escrow'[j] = escrow[j],
         behind' = behind \o new, UNCHANGED <<stats, cache>>,
         Emitted(i, new)
  PROVE  StandingInv'
<1> USE DEF Emitted
<1> DEFINE n == Len(behind)
<1>1. /\ escrow \in [Intents -> EscrowIntent] /\ behind \in Seq(Log) /\ n \in Nat /\ Len(new) \in Nat
      /\ behind' \in Seq(Log) /\ Len(behind') = n + Len(new)
      /\ \A k \in 1 .. Len(behind') : behind'[k] = IF k <= n THEN behind[k] ELSE new[k - n]
  BY ConcatProperties, LenProperties DEF StandingInv, StandingTypeOK
<1>2. \A j \in Intents : j # i => escrow'[j] = escrow[j]
  OBVIOUS
<1>3. /\ \A k \in 1 .. n : behind[k] \in Log /\ behind[k].intent \in Intents
      /\ \A k \in 1 .. Len(new) : new[k].intent = i
  BY <1>1 DEF Log
<1>4. /\ \A k \in 1 .. n : k \in 1 .. Len(behind') /\ behind'[k] = behind[k]
      /\ \A k \in 1 .. Len(new) : n + k \in 1 .. Len(behind') /\ behind'[n + k] = new[k]
      /\ \A k \in 1 .. Len(behind') :
           \/ k \in 1 .. n /\ behind'[k] = behind[k]
           \/ k - n \in 1 .. Len(new) /\ behind'[k] = new[k - n] /\ k > n
  BY <1>1
<1> HIDE DEF n
<1>5. ASSUME NEW name \in Tracked
      PROVE  /\ Seen(name)' = Seen(name)
             /\ \A j \in Seen(name) : Happened(escrow[j], name)
  <2>1. ASSUME NEW j \in Intents
        PROVE  j \in Pending(name)' <=> j \in Pending(name) \/ (j = i /\ \E k \in 1 .. Len(new) : new[k].name = name)
    <3>1. ASSUME NEW k \in 1 .. Len(behind'), behind'[k].name = name, behind'[k].intent = j
          PROVE  j \in Pending(name) \/ (j = i /\ \E l \in 1 .. Len(new) : new[l].name = name)
      <4>1. CASE k \in 1 .. n /\ behind'[k] = behind[k]
        BY <3>1, <4>1 DEF Pending, n
      <4>2. CASE k - n \in 1 .. Len(new) /\ behind'[k] = new[k - n]
        BY <1>3, <3>1, <4>2
      <4> QED
        BY <1>4, <4>1, <4>2
    <3>2. ASSUME j \in Pending(name) PROVE j \in Pending(name)'
      <4>1. PICK k \in 1 .. n : behind[k].name = name /\ behind[k].intent = j
        BY <3>2 DEF Pending, n
      <4> QED
        BY <1>4, <4>1 DEF Pending
    <3>3. ASSUME NEW k \in 1 .. Len(new), new[k].name = name, j = i PROVE j \in Pending(name)'
      <4>1. n + k \in 1 .. Len(behind') /\ behind'[n + k].name = name /\ behind'[n + k].intent = j
        BY <1>3, <1>4, <3>3
      <4> QED
        BY <4>1 DEF Pending
    <3> QED
      BY <3>1, <3>2, <3>3 DEF Pending
  <2>2. ASSUME i \in Pending(name) PROVE Happened(escrow[i], name)
    <3>1. PICK k \in 1 .. Len(behind) : behind[k].name = name /\ behind[k].intent = i
      BY <2>2 DEF Pending
    <3> QED
      BY <3>1 DEF StandingInv, LogsAreSound, LogsHappened
  <2>3. ASSUME NEW j \in Intents PROVE j \in Seen(name)' <=> j \in Seen(name)
    <3>1. CASE j = i
      BY <1>2, <2>1, <2>2, <3>1 DEF Seen
    <3>2. CASE j # i
      BY <1>2, <2>1, <3>2 DEF Seen
    <3> QED
      BY <3>1, <3>2
  <2>4. Seen(name) \subseteq Intents /\ Seen(name)' \subseteq Intents
    BY DEF Seen
  <2> QED
    BY <2>3, <2>4 DEF Seen
<1>6. /\ Seen("IntentFunded")' = Seen("IntentFunded") /\ Seen("DisputeRaised")' = Seen("DisputeRaised")
      /\ Seen("IntentResolved")' = Seen("IntentResolved")
      /\ \A j \in Seen("IntentResolved") : j \in Intents /\ escrow'[j] = escrow[j]
  <2>1. \A j \in Seen("IntentResolved") : j \in Intents /\ j # i
    BY <1>5 DEF Tracked, Happened, Seen
  <2> QED
    BY <1>2, <1>5, <2>1 DEF Tracked
<1>7. StandingTypeOK'
  BY <1>1, <1>2 DEF StandingInv, StandingTypeOK
<1>8. LogsAreSound'
  <2> USE DEF StandingInv, LogsAreSound
  <2>1. UndisputedYet'
    BY <1>2 DEF UndisputedYet
  <2>2. ASSUME NEW k \in 1 .. Len(behind'), behind'[k].name \in Tracked
        PROVE  Happened(escrow'[behind'[k].intent], behind'[k].name)
    <3>1. CASE k \in 1 .. n /\ behind'[k] = behind[k]
      <4>1. Happened(escrow[behind[k].intent], behind[k].name)
        BY <2>2, <3>1 DEF LogsHappened, n
      <4> QED
        BY <1>2, <1>3, <2>2, <3>1, <4>1
    <3>2. CASE k - n \in 1 .. Len(new) /\ behind'[k] = new[k - n]
      BY <1>2, <1>3, <2>2, <3>2
    <3> QED
      BY <1>4, <3>1, <3>2
  <2>3. ASSUME NEW k \in 1 .. Len(behind'), NEW l \in 1 .. Len(behind'), behind'[k].name \in Tracked,
               behind'[k].name = behind'[l].name, behind'[k].intent = behind'[l].intent
        PROVE  k = l
    <3>1. ASSUME NEW x \in 1 .. Len(behind'), NEW y \in 1 .. Len(behind'), x \in 1 .. n, y - n \in 1 .. Len(new),
                 behind'[x] = behind[x], behind'[y] = new[y - n],
                 behind'[x].name = behind'[y].name, behind'[x].intent = behind'[y].intent,
                 behind'[x].name \in Tracked
          PROVE  FALSE
      BY <1>3, <3>1 DEF LogsHappened, n
    <3>2. CASE k \in 1 .. n /\ behind'[k] = behind[k] /\ l \in 1 .. n /\ behind'[l] = behind[l]
      BY <2>3, <3>2 DEF LogsAreOnce, n
    <3>3. CASE k - n \in 1 .. Len(new) /\ behind'[k] = new[k - n] /\ l - n \in 1 .. Len(new) /\ behind'[l] = new[l - n]
      <4>1. k - n = l - n
        BY <2>3, <3>3
      <4> QED
        BY <1>1, <4>1 DEF n
    <3> QED
      BY <1>4, <2>3, <3>1, <3>2, <3>3
  <2>4. ASSUME NEW k \in 1 .. Len(behind'), behind'[k].name = "IntentResolved"
        PROVE  /\ behind'[k].customerAmount = escrow'[behind'[k].intent].toCustomer
               /\ behind'[k].providerAmount = escrow'[behind'[k].intent].toProvider
               /\ behind'[k].customerAmount + behind'[k].providerAmount = Amount
    <3>1. CASE k \in 1 .. n /\ behind'[k] = behind[k]
      <4>1. behind[k].intent # i
        BY <2>4, <3>1 DEF LogsHappened, Happened, Tracked, n
      <4> QED
        BY <1>2, <1>3, <2>4, <3>1, <4>1 DEF LogsPay, n
    <3>2. CASE k - n \in 1 .. Len(new) /\ behind'[k] = new[k - n]
      BY <1>2, <1>3, <2>4, <3>2
    <3> QED
      BY <1>4, <3>1, <3>2
  <2>5. ASSUME NEW k \in 1 .. Len(behind'), NEW l \in 1 .. Len(behind'), k < l,
               behind'[k].intent = behind'[l].intent, behind'[l].name = "IntentFunded"
        PROVE  behind'[k].name \notin {"DisputeRaised", "IntentResolved"}
    <3>1. CASE l \in 1 .. n /\ behind'[l] = behind[l]
      <4>1. k \in 1 .. n /\ behind'[k] = behind[k]
        BY <1>1, <1>4, <2>5, <3>1 DEF n
      <4> QED
        BY <2>5, <3>1, <4>1 DEF LogsAreOrdered, n
    <3>2. CASE l - n \in 1 .. Len(new) /\ behind'[l] = new[l - n]
      <4>1. l = n + 1 /\ escrow[i].state = "AWAITING_FUNDS" /\ behind'[l].intent = i
        BY <1>1, <1>3, <2>5, <3>2 DEF n
      <4>2. k \in 1 .. n /\ behind'[k] = behind[k]
        BY <1>1, <1>4, <2>5, <4>1 DEF n
      <4>3. ~ Happened(escrow[i], "DisputeRaised") /\ ~ Happened(escrow[i], "IntentResolved")
        BY <4>1 DEF UndisputedYet, Happened
      <4> QED
        BY <2>5, <4>1, <4>2, <4>3 DEF LogsHappened, Tracked, n
    <3> QED
      BY <1>4, <3>1, <3>2
  <2>6. SeenInOrder'
    BY <1>6 DEF SeenInOrder
  <2> QED
    BY <2>1, <2>2, <2>3, <2>4, <2>5, <2>6 DEF LogsHappened, LogsAreOnce, LogsPay, LogsAreOrdered
<1>9. ASSUME NEW p \in Ranked PROVE Tallies(p, LoadProvider(p))'
  <2> DEFINE done == Of(p, Seen("IntentResolved"))
  <2>1. LoadProvider(p)' = LoadProvider(p)
    BY DEF LoadProvider
  <2>2. Of(p, Seen("IntentFunded"))' = Of(p, Seen("IntentFunded"))
    BY <1>6 DEF Of
  <2>3. Of(p, Seen("DisputeRaised"))' = Of(p, Seen("DisputeRaised"))
    BY <1>6 DEF Of
  <2>4. done' = done
    BY <1>6 DEF Of
  <2>5. \A j \in done : j \in Intents /\ escrow'[j] = escrow[j]
    BY <1>6 DEF Of
  <2>6. /\ {j \in done : escrow[j].toCustomer = 0} = {j \in done : escrow'[j].toCustomer = 0}
        /\ {j \in done : escrow[j].toProvider = 0} = {j \in done : escrow'[j].toProvider = 0}
    BY <2>5
  <2>7. /\ \A j \in done : Paid("toProvider")[j] = Paid("toProvider")'[j]
        /\ \A j \in done : Paid("toCustomer")[j] = Paid("toCustomer")'[j]
    BY <2>5 DEF Paid
  <2>8. /\ Total(Paid("toProvider"), done) = Total(Paid("toProvider")', done)
        /\ Total(Paid("toCustomer"), done) = Total(Paid("toCustomer")', done)
    BY <2>7, TotalSame
  <2>9. Tallies(p, LoadProvider(p))
    BY DEF StandingInv, Tallied
  <2> QED
    BY <2>1, <2>2, <2>3, <2>4, <2>6, <2>8, <2>9 DEF Tallies
<1>10. CacheIsOlder'
  BY DEF StandingInv, CacheIsOlder, LoadProvider
<1> QED
  BY <1>7, <1>8, <1>9, <1>10 DEF StandingInv, Tallied

\* The steps of an intent before it is settled, and the log of each.
IsMove(from, to, name) ==
  \/ from = "NONE" /\ to = "AWAITING_FUNDS" /\ name = "IntentCreated"
  \/ from = "AWAITING_FUNDS" /\ to = "FUNDED" /\ name = "IntentFunded"
  \/ from = "FUNDED" /\ to = "IN_DISPUTE" /\ name = "DisputeRaised"
  \/ from = "IN_DISPUTE" /\ to = "TIMELOCKED" /\ name = "AIProposalSubmitted"
  \/ from = "TIMELOCKED" /\ to = "APPEALED" /\ name = "AppealEscalated"

LEMMA MoveKeeps ==
  ASSUME StandingInv, NEW i \in Intents, NEW from, NEW to, NEW name,
         IsMove(from, to, name), Move(i, from, to, name)
  PROVE  StandingInv'
<1> DEFINE log == [name |-> name, intent |-> i]
           new == <<log>>
<1>1. /\ escrow \in [Intents -> EscrowIntent] /\ escrow[i] \in EscrowIntent /\ escrow[i].state = from
      /\ escrow[i].disputed \in BOOLEAN
      /\ behind' = behind \o new /\ UNCHANGED <<stats, cache>>
  BY DEF Move, Emit, StandingInv, StandingTypeOK, EscrowIntent
<1>2. /\ escrow' \in [Intents -> EscrowIntent]
      /\ \A j \in Intents \ {i} : escrow'[j] = escrow[j]
      /\ escrow'[i].state = to /\ escrow'[i].disputed = (escrow[i].disputed \/ to = "IN_DISPUTE")
  <2>1. [escrow[i] EXCEPT !.state = to] \in EscrowIntent
    BY <1>1 DEF EscrowIntent, IsMove
  <2>2. [escrow[i] EXCEPT !.state = to, !.disputed = escrow[i].disputed \/ to = "IN_DISPUTE"] \in EscrowIntent
    BY <1>1, <2>1 DEF EscrowIntent
  <2> QED
    BY <1>1, <2>2 DEF Move, EscrowIntent
<1>3. from \in {"NONE", "AWAITING_FUNDS", "FUNDED"} => ~ escrow[i].disputed
  BY <1>1 DEF StandingInv, LogsAreSound, UndisputedYet
<1>4. log \in Log /\ log.name = name /\ log.intent = i
  BY DEF Log, IsMove
<1> HIDE DEF log
<1>5. new \in Seq(Log) /\ Len(new) = 1 /\ new[1] = log
  BY <1>4
<1> HIDE DEF new
<1>6. \A k \in 1 .. Len(new) : k = 1 /\ new[k].name = name /\ new[k].intent = i
  BY <1>4, <1>5
<1>7. ASSUME NEW tracked \in Tracked
      PROVE  /\ Happened(escrow'[i], tracked) <=> Happened(escrow[i], tracked) \/ name = tracked
             /\ name = tracked => ~ Happened(escrow[i], tracked)
  BY <1>1, <1>2, <1>3 DEF IsMove, Tracked, Happened
<1>8. Emitted(i, new)
  <2>1. escrow[i].state # "RESOLVED"
    BY <1>1 DEF IsMove
  <2>2. escrow'[i].state \in {"NONE", "AWAITING_FUNDS", "FUNDED"} => ~ escrow'[i].disputed
    BY <1>1, <1>2, <1>3 DEF IsMove
  <2>3. \A tracked \in Tracked : (\E k \in 1 .. Len(new) : new[k].name = tracked) <=> name = tracked
    <3>1. 1 \in 1 .. Len(new)
      BY <1>5
    <3> QED
      BY <1>6, <3>1
  <2>4. name = "IntentFunded" => from = "AWAITING_FUNDS"
    BY DEF IsMove
  <2>5. name # "IntentResolved"
    BY DEF IsMove
  <2> QED
    BY <1>1, <1>6, <1>7, <2>1, <2>2, <2>3, <2>4, <2>5 DEF Emitted
<1> QED
  BY <1>1, <1>2, <1>5, <1>8, EmitKeeps

\* A settlement, with another log behind it when the intent was abandoned.
LEMMA PayKeeps ==
  ASSUME StandingInv, NEW i \in Intents, NEW c \in 0 .. Amount, Pay(i, c),
         escrow[i].state \notin {"NONE", "AWAITING_FUNDS", "RESOLVED"},
         NEW new \in Seq(Log), behind' = behind \o new, UNCHANGED <<stats, cache>>,
         Len(new) \in 1 .. 2, new[1] = Resolved(i, c),
         Len(new) = 2 => new[2] = [name |-> "AbandonmentExecuted", intent |-> i]
  PROVE  StandingInv'
<1>1. /\ escrow \in [Intents -> EscrowIntent] /\ escrow[i] \in EscrowIntent
      /\ Amount - c \in 0 .. Amount /\ c + (Amount - c) = Amount
  BY AmountAssumption DEF StandingInv, StandingTypeOK
<1>2. /\ escrow' \in [Intents -> EscrowIntent]
      /\ \A j \in Intents \ {i} : escrow'[j] = escrow[j]
      /\ escrow'[i].state = "RESOLVED" /\ escrow'[i].disputed = escrow[i].disputed
      /\ escrow'[i].toCustomer = c /\ escrow'[i].toProvider = Amount - c
  <2>1. [escrow[i] EXCEPT !.state = "RESOLVED", !.toCustomer = c, !.toProvider = Amount - c] \in EscrowIntent
    BY <1>1 DEF EscrowIntent
  <2> QED
    BY <1>1, <2>1 DEF Pay, EscrowIntent
<1>3. ASSUME NEW name \in Tracked
      PROVE  /\ Happened(escrow'[i], name) <=> Happened(escrow[i], name) \/ name = "IntentResolved"
             /\ name = "IntentResolved" => ~ Happened(escrow[i], name)
  BY <1>2 DEF Tracked, Happened
<1>4. /\ new[1].name = "IntentResolved" /\ new[1].intent = i
      /\ new[1].customerAmount = c /\ new[1].providerAmount = Amount - c
  BY DEF Resolved
<1>5. \A k \in 1 .. Len(new) : k = 1 \/ (new[k].name = "AbandonmentExecuted" /\ new[k].intent = i)
  OBVIOUS
<1>6. "AbandonmentExecuted" \notin Tracked /\ 1 \in 1 .. Len(new)
  BY DEF Tracked
<1>7. \A name \in Tracked : (\E k \in 1 .. Len(new) : new[k].name = name) <=> name = "IntentResolved"
  BY <1>4, <1>5, <1>6
<1>8. \A k \in 1 .. Len(new) : new[k].name \in Tracked => k = 1
  BY <1>5, <1>6
<1>9. "IntentResolved" \in Tracked /\ "IntentFunded" \in Tracked
  BY DEF Tracked
<1>10. Emitted(i, new)
  <2>1. escrow[i].state # "RESOLVED" /\ \A k \in 1 .. Len(new) : new[k].intent = i
    BY <1>4, <1>5
  <2>2. \A k \in 1 .. Len(new) : new[k].name \in Tracked => ~ Happened(escrow[i], new[k].name)
    BY <1>3, <1>4, <1>8
  <2>3. \A k \in 1 .. Len(new) : new[k].name # "IntentFunded"
    BY <1>4, <1>8, <1>9
  <2>4. \A k \in 1 .. Len(new) :
          new[k].name = "IntentResolved" =>
            /\ new[k].customerAmount = escrow'[i].toCustomer /\ new[k].providerAmount = escrow'[i].toProvider
            /\ new[k].customerAmount + new[k].providerAmount = Amount
    BY <1>1, <1>2, <1>4, <1>8, <1>9
  <2> QED
    BY <1>2, <1>3, <1>7, <1>8, <2>1, <2>2, <2>3, <2>4 DEF Emitted
<1> QED
  BY <1>2, <1>10, EmitKeeps

LEMMA SettleKeeps ==
  ASSUME StandingInv, NEW i \in Intents,
         (\E c \in 0 .. Amount : Settle(i, c)) \/ Abandon(i)
  PROVE  StandingInv'
<1>1. ASSUME NEW c \in 0 .. Amount PROVE Resolved(i, c) \in Log
  BY <1>1, AmountAssumption DEF Resolved, Log
<1>2. ASSUME NEW c \in 0 .. Amount, Settle(i, c) PROVE StandingInv'
  <2> DEFINE new == <<Resolved(i, c)>>
  <2>1. new \in Seq(Log) /\ Len(new) = 1 /\ new[1] = Resolved(i, c)
    BY <1>1
  <2>2. behind' = behind \o new /\ Pay(i, c) /\ UNCHANGED <<stats, cache>>
    BY <1>2 DEF Settle, Emit
  <2>3. escrow[i].state \notin {"NONE", "AWAITING_FUNDS", "RESOLVED"}
    BY <1>2 DEF Settle
  <2> HIDE DEF new
  <2>4. Len(new) \in 1 .. 2 /\ Len(new) # 2
    BY <2>1
  <2> QED
    BY <2>1, <2>2, <2>3, <2>4, PayKeeps
<1>3. ASSUME Abandon(i) PROVE StandingInv'
  <2> DEFINE log == [name |-> "AbandonmentExecuted", intent |-> i]
             new == <<Resolved(i, Amount), log>>
  <2>1. Amount \in 0 .. Amount
    BY AmountAssumption
  <2>2. log \in Log
    BY DEF Log
  <2>3. new \in Seq(Log) /\ Len(new) = 2 /\ new[1] = Resolved(i, Amount) /\ new[2] = log
    BY <1>1, <2>1, <2>2
  <2>4. behind' = behind \o new /\ Pay(i, Amount) /\ UNCHANGED <<stats, cache>>
    BY <1>3 DEF Abandon, Emit
  <2>5. escrow[i].state \notin {"NONE", "AWAITING_FUNDS", "RESOLVED"}
    BY <1>3 DEF Abandon
  <2> HIDE DEF new
  <2>6. Len(new) \in 1 .. 2
    BY <2>3
  <2> QED
    BY <2>1, <2>3, <2>4, <2>5, <2>6, PayKeeps
<1> QED
  BY <1>2, <1>3

(***************************************************************************)
(* The subgraph's steps: what was logged first is seen and counted.        *)
(***************************************************************************)

\* The log that is handled leaves the logs, and what it tells of is seen.
LEMMA IndexSees ==
  ASSUME StandingInv, behind # <<>>, behind' = Tail(behind), UNCHANGED escrow
  PROVE  LET log == Head(behind) IN
         /\ log \in Log /\ log = behind[1] /\ 1 \in 1 .. Len(behind) /\ behind' \in Seq(Log)
         /\ LogsAreSound'
         /\ \A name \in Tracked :
              Seen(name)' = IF log.name = name THEN Seen(name) \cup {log.intent} ELSE Seen(name)
         /\ log.name \in Tracked => log.intent \notin Seen(log.name)
<1> DEFINE log == Head(behind)
<1>1. /\ log \in Log /\ log = behind[1] /\ 1 \in 1 .. Len(behind) /\ behind' \in Seq(Log)
      /\ Len(behind) \in Nat /\ Len(behind') = Len(behind) - 1
      /\ \A k \in 1 .. Len(behind') : behind'[k] = behind[k + 1]
  BY HeadTailProperties, EmptySeq, LenProperties DEF StandingInv, StandingTypeOK
<1> HIDE DEF log
<1>2. log.intent \in Intents
  BY <1>1 DEF Log
<1>3. /\ \A k \in 1 .. Len(behind') : k + 1 \in 1 .. Len(behind) /\ behind'[k] = behind[k + 1]
      /\ \A k \in 1 .. Len(behind) : k # 1 => k - 1 \in 1 .. Len(behind') /\ behind'[k - 1] = behind[k]
  BY <1>1
<1>4. ASSUME NEW name \in Tracked, NEW j \in Intents
      PROVE  /\ j \in Pending(name)' <=> j \in Pending(name) /\ ~ (log.name = name /\ j = log.intent)
             /\ log.name = name /\ j = log.intent => j \in Pending(name) /\ Happened(escrow[j], name)
  <2>1. ASSUME j \in Pending(name)'
        PROVE  j \in Pending(name) /\ ~ (log.name = name /\ j = log.intent)
    <3>1. PICK k \in 1 .. Len(behind') : behind'[k].name = name /\ behind'[k].intent = j
      BY <2>1 DEF Pending
    <3>2. k + 1 \in 1 .. Len(behind) /\ k + 1 # 1 /\ behind[k + 1].name = name /\ behind[k + 1].intent = j
      BY <1>1, <1>3, <3>1
    <3>3. j \in Pending(name)
      BY <3>2 DEF Pending
    <3> QED
      BY <1>1, <3>2, <3>3 DEF StandingInv, LogsAreSound, LogsAreOnce
  <2>2. ASSUME j \in Pending(name), ~ (log.name = name /\ j = log.intent)
        PROVE  j \in Pending(name)'
    <3>1. PICK k \in 1 .. Len(behind) : behind[k].name = name /\ behind[k].intent = j
      BY <2>2 DEF Pending
    <3>2. k - 1 \in 1 .. Len(behind') /\ behind'[k - 1].name = name /\ behind'[k - 1].intent = j
      BY <1>1, <1>3, <2>2, <3>1
    <3> QED
      BY <3>2 DEF Pending
  <2>3. ASSUME log.name = name, j = log.intent
        PROVE  j \in Pending(name) /\ Happened(escrow[j], name)
    BY <1>1, <2>3 DEF Pending, StandingInv, LogsAreSound, LogsHappened
  <2> QED
    BY <2>1, <2>2, <2>3
<1>5. ASSUME NEW name \in Tracked
      PROVE  Seen(name)' = IF log.name = name THEN Seen(name) \cup {log.intent} ELSE Seen(name)
  <2>1. /\ Seen(name) = {j \in Intents : Happened(escrow[j], name) /\ j \notin Pending(name)}
        /\ Seen(name)' = {j \in Intents : Happened(escrow[j], name) /\ j \notin Pending(name)'}
    BY DEF Seen
  <2> QED
    BY <1>2, <1>4, <2>1
<1>6. log.name \in Tracked => log.intent \notin Seen(log.name)
  BY <1>2, <1>4 DEF Seen
<1>7. LogsAreSound'
  <2> USE DEF StandingInv, LogsAreSound
  <2>1. UndisputedYet'
    BY DEF UndisputedYet
  <2>2. LogsHappened'
    BY <1>3 DEF LogsHappened
  <2>3. LogsAreOnce'
    <3>1. ASSUME NEW k \in 1 .. Len(behind'), NEW l \in 1 .. Len(behind'), k + 1 = l + 1 PROVE k = l
      BY <1>1, <3>1
    <3> QED
      BY <1>3, <3>1 DEF LogsAreOnce
  <2>4. LogsPay'
    BY <1>3 DEF LogsPay
  <2>5. LogsAreOrdered'
    <3>1. ASSUME NEW k \in 1 .. Len(behind'), NEW l \in 1 .. Len(behind'), k < l PROVE k + 1 < l + 1
      BY <1>1, <3>1
    <3> QED
      BY <1>3, <3>1 DEF LogsAreOrdered
  <2>6. SeenInOrder'
    <3>1. ASSUME log.name \in {"DisputeRaised", "IntentResolved"}
          PROVE  log.intent \in Seen("IntentFunded")
      <4>1. log.intent \notin Pending("IntentFunded")
        <5> SUFFICES ASSUME log.intent \in Pending("IntentFunded") PROVE FALSE
          OBVIOUS
        <5>1. PICK l \in 1 .. Len(behind) : behind[l].name = "IntentFunded" /\ behind[l].intent = log.intent
          BY DEF Pending
        <5>2. l # 1 /\ 1 < l
          BY <1>1, <3>1, <5>1
        <5> QED
          BY <1>1, <3>1, <5>1, <5>2 DEF LogsAreOrdered
      <4>2. Happened(escrow[log.intent], log.name)
        BY <1>1, <3>1 DEF LogsHappened, Tracked
      <4>3. Happened(escrow[log.intent], "IntentFunded")
        BY <1>2, <3>1, <4>2 DEF Happened, UndisputedYet
      <4> QED
        BY <1>2, <4>1, <4>3 DEF Seen
    <3> QED
      BY <1>5, <3>1 DEF SeenInOrder, Tracked
  <2> QED
    BY <2>1, <2>2, <2>3, <2>4, <2>5, <2>6
<1> QED
  BY <1>1, <1>5, <1>6, <1>7 DEF log

\* Saving a provider changes what is loaded for that one.
LEMMA SaveLoads ==
  ASSUME StandingTypeOK, NEW p \in Ranked, NEW s \in Stats, Save(p, s)
  PROVE  /\ stats' \in [Ranked -> Stats \cup {NoStats}]
         /\ \A q \in Ranked : LoadProvider(q)' = IF q = p THEN s ELSE LoadProvider(q)
BY NoStatsAssumption DEF StandingTypeOK, Save, LoadProvider

\* One intent more is seen, of this provider or of another.
LEMMA OfAdds ==
  ASSUME NEW p \in Ranked, NEW S \in SUBSET Intents, NEW i \in Intents, i \notin S
  PROVE  /\ IsFiniteSet(Of(p, S)) /\ i \notin Of(p, S) /\ Of(p, S) \subseteq Intents
         /\ Of(p, S \cup {i}) = IF PaidTo[i] = p THEN Of(p, S) \cup {i} ELSE Of(p, S)
         /\ Cardinality(Of(p, S)) \in Nat
         /\ PaidTo[i] = p => Cardinality(Of(p, S \cup {i})) = Cardinality(Of(p, S)) + 1
<1>1. Of(p, S) \in SUBSET Intents /\ i \notin Of(p, S)
  BY DEF Of
<1>2. IsFiniteSet(Of(p, S))
  BY <1>1, IntentsAssumption, FS_Subset
<1>3. Of(p, S \cup {i}) = IF PaidTo[i] = p THEN Of(p, S) \cup {i} ELSE Of(p, S)
  BY DEF Of
<1>4. Cardinality(Of(p, S) \cup {i}) = Cardinality(Of(p, S)) + 1
  BY <1>1, <1>2, FS_AddElement
<1> QED
  BY <1>1, <1>2, <1>3, <1>4, FS_CardinalityType

LEMMA TalliesStay ==
  ASSUME NEW p \in Ranked, Tallies(p, LoadProvider(p)), UNCHANGED escrow,
         LoadProvider(p)' = LoadProvider(p),
         \A name \in Tracked : Of(p, Seen(name))' = Of(p, Seen(name))
  PROVE  Tallies(p, LoadProvider(p))'
<1>1. /\ Of(p, Seen("IntentFunded"))' = Of(p, Seen("IntentFunded"))
      /\ Of(p, Seen("DisputeRaised"))' = Of(p, Seen("DisputeRaised"))
      /\ Of(p, Seen("IntentResolved"))' = Of(p, Seen("IntentResolved"))
  BY DEF Tracked
<1> QED
  BY <1>1 DEF Tallies, Paid

\* Index: what is written of the provider of the log that is handled.
LEMMA HandlerSaves ==
  ASSUME StandingInv, NEW log \in Log,
         log.name = "IntentResolved" => log.customerAmount + log.providerAmount = Amount,
         \/ log.name = "IntentCreated" /\ HandleIntentCreated(log.intent)
         \/ log.name = "IntentFunded" /\ HandleIntentFunded(log.intent)
         \/ log.name = "DisputeRaised" /\ HandleDisputeRaised(log.intent)
         \/ log.name = "AIProposalSubmitted" /\ HandleAIProposalSubmitted(log.intent)
         \/ log.name = "AppealEscalated" /\ HandleAppealEscalated(log.intent)
         \/ log.name = "IntentResolved" /\ HandleIntentResolved(log)
         \/ log.name = "AbandonmentExecuted" /\ HandleAbandonmentExecuted(log.intent)
  PROVE  /\ stats' \in [Ranked -> Stats \cup {NoStats}]
         /\ \A q \in Ranked : q # PaidTo[log.intent] => LoadProvider(q)' = LoadProvider(q)
         /\ LET s == LoadProvider(PaidTo[log.intent])
                t == LoadProvider(PaidTo[log.intent])'
                one(name) == IF log.name = name THEN 1 ELSE 0
                paid == log.name = "IntentResolved"
            IN
            /\ t \in Stats
            /\ t.funded = s.funded + one("IntentFunded")
            /\ t.disputes = s.disputes + one("DisputeRaised")
            /\ t.released + t.settled + t.refunded = s.released + s.settled + s.refunded + one("IntentResolved")
            /\ t.released = s.released + IF paid /\ log.customerAmount = 0 THEN 1 ELSE 0
            /\ t.refunded = s.refunded + IF paid /\ log.providerAmount = 0 THEN 1 ELSE 0
            /\ t.paidOut = s.paidOut + IF paid THEN log.providerAmount ELSE 0
            /\ t.refundedAmount = s.refundedAmount + IF paid THEN log.customerAmount ELSE 0
            /\ t.evidenceAnchored = s.evidenceAnchored
<1> DEFINE p == PaidTo[log.intent]
           s == LoadProvider(p)
<1>1. p \in Ranked /\ s \in Stats /\ StandingTypeOK
  BY NewProviderType, IntentsAssumption DEF Log, StandingInv
<1> HIDE DEF p, s
<1> DEFINE Numbers(r) ==
             /\ r.funded \in Nat /\ r.disputes \in Nat /\ r.released \in Nat /\ r.settled \in Nat
             /\ r.refunded \in Nat /\ r.paidOut \in Nat /\ r.refundedAmount \in Nat /\ r.delivered \in Nat
<1>7. \A r \in Stats : Numbers(r)
  BY DEF Stats
<1>2. CASE log.name \in {"AIProposalSubmitted", "AppealEscalated", "AbandonmentExecuted"}
  <2>1. UNCHANGED stats
    BY <1>2 DEF HandleAIProposalSubmitted, HandleAppealEscalated, HandleAbandonmentExecuted
  <2>2. \A q \in Ranked : LoadProvider(q)' = LoadProvider(q)
    BY <2>1 DEF LoadProvider
  <2>3. log.name \notin {"IntentFunded", "DisputeRaised", "IntentResolved"}
    BY <1>2
  <2>4. Numbers(s)
    BY <1>1, <1>7
  <2>5. stats' \in [Ranked -> Stats \cup {NoStats}]
    BY <1>1, <2>1 DEF StandingTypeOK
  <2> QED
    BY <1>1, <2>2, <2>3, <2>4, <2>5 DEF p, s
<1>3. CASE log.name = "IntentCreated"
  <2>1. Save(p, s)
    BY <1>3 DEF HandleIntentCreated, p, s
  <2> QED
    BY <1>1, <1>3, <2>1, SaveLoads DEF Stats, p, s
<1>4. CASE log.name = "IntentFunded"
  <2>1. Save(p, [s EXCEPT !.funded = @ + 1])
    BY <1>4 DEF HandleIntentFunded, p, s
  <2>2. [s EXCEPT !.funded = @ + 1] \in Stats
    BY <1>1 DEF Stats
  <2> QED
    BY <1>1, <1>4, <2>1, <2>2, SaveLoads DEF Stats, p, s
<1>5. CASE log.name = "DisputeRaised"
  <2>1. Save(p, [s EXCEPT !.disputes = @ + 1])
    BY <1>5 DEF HandleDisputeRaised, p, s
  <2>2. [s EXCEPT !.disputes = @ + 1] \in Stats
    BY <1>1 DEF Stats
  <2> QED
    BY <1>1, <1>5, <2>1, <2>2, SaveLoads DEF Stats, p, s
<1>6. CASE log.name = "IntentResolved"
  <2> DEFINE c == log.customerAmount
             d == log.providerAmount
             part == [s EXCEPT !.paidOut = @ + d]
             paid == [part EXCEPT !.refundedAmount = @ + c]
             t == IF c = 0 THEN [paid EXCEPT !.released = @ + 1, !.delivered = @ + 1]
                  ELSE IF d = 0 THEN [paid EXCEPT !.refunded = @ + 1]
                  ELSE [paid EXCEPT !.settled = @ + 1]
  <2>1. c \in Nat /\ d \in Nat /\ ~ (c = 0 /\ d = 0)
    BY <1>6, AmountAssumption DEF Log
  <2>2. Save(p, t)
    BY <1>6 DEF HandleIntentResolved, Outcome, p, s
  <2> HIDE DEF c, d
  <2>3. /\ part \in Stats /\ part.paidOut = s.paidOut + d /\ part.refundedAmount = s.refundedAmount
        /\ part.released = s.released /\ part.settled = s.settled /\ part.refunded = s.refunded
        /\ part.funded = s.funded /\ part.disputes = s.disputes /\ part.evidenceAnchored = s.evidenceAnchored
    BY <1>1, <2>1 DEF Stats
  <2> HIDE DEF part
  <2>7. /\ paid \in Stats /\ paid.paidOut = s.paidOut + d /\ paid.refundedAmount = s.refundedAmount + c
        /\ paid.released = s.released /\ paid.settled = s.settled /\ paid.refunded = s.refunded
        /\ paid.funded = s.funded /\ paid.disputes = s.disputes /\ paid.evidenceAnchored = s.evidenceAnchored
    BY <2>1, <2>3 DEF Stats
  <2> HIDE DEF paid
  <2> DEFINE Paid1(r) == /\ r.paidOut = paid.paidOut /\ r.refundedAmount = paid.refundedAmount
                         /\ r.funded = paid.funded /\ r.disputes = paid.disputes
                         /\ r.evidenceAnchored = paid.evidenceAnchored
  <2>8. LET r == [[paid EXCEPT !.released = @ + 1] EXCEPT !.delivered = @ + 1] IN
        /\ r \in Stats /\ Paid1(r) /\ r.released = paid.released + 1
        /\ r.settled = paid.settled /\ r.refunded = paid.refunded
    <3> DEFINE one == [paid EXCEPT !.released = @ + 1]
    <3>1. /\ one \in Stats /\ Paid1(one) /\ one.released = paid.released + 1
          /\ one.settled = paid.settled /\ one.refunded = paid.refunded
      BY <2>7 DEF Stats
    <3> HIDE DEF one
    <3>2. LET r == [one EXCEPT !.delivered = @ + 1] IN
          /\ r \in Stats /\ Paid1(r) /\ r.released = paid.released + 1
          /\ r.settled = paid.settled /\ r.refunded = paid.refunded
      BY <3>1 DEF Stats
    <3> QED
      BY <3>2 DEF one
  <2>9. LET r == [paid EXCEPT !.refunded = @ + 1] IN
        /\ r \in Stats /\ Paid1(r) /\ r.released = paid.released
        /\ r.settled = paid.settled /\ r.refunded = paid.refunded + 1
    BY <2>7 DEF Stats
  <2>10. LET r == [paid EXCEPT !.settled = @ + 1] IN
        /\ r \in Stats /\ Paid1(r) /\ r.released = paid.released
        /\ r.settled = paid.settled + 1 /\ r.refunded = paid.refunded
    BY <2>7 DEF Stats
  <2>11. Numbers(s)
    BY <1>1, <1>7
  <2>4. /\ t \in Stats /\ t.paidOut = s.paidOut + d /\ t.refundedAmount = s.refundedAmount + c
        /\ t.released = s.released + IF c = 0 THEN 1 ELSE 0
        /\ t.refunded = s.refunded + IF d = 0 THEN 1 ELSE 0
        /\ t.released + t.settled + t.refunded = s.released + s.settled + s.refunded + 1
        /\ t.funded = s.funded /\ t.disputes = s.disputes /\ t.evidenceAnchored = s.evidenceAnchored
    BY <2>1, <2>7, <2>8, <2>9, <2>10, <2>11
  <2> HIDE DEF t
  <2>5. s.funded \in Nat /\ s.disputes \in Nat
    BY <1>1 DEF Stats
  <2>6. LoadProvider(p)' = t
    BY <1>1, <2>2, <2>4, SaveLoads
  <2> QED
    BY <1>1, <1>6, <2>2, <2>4, <2>5, <2>6, SaveLoads DEF p, s, c, d
<1> QED
  BY <1>2, <1>3, <1>4, <1>5, <1>6

\* Whatever is handled, the numbers still count what was seen.
LEMMA IndexKeeps ==
  ASSUME StandingInv, Index
  PROVE  StandingInv'
<1>1. PICK log \in Log, i \in Intents, p \in Ranked : log = Head(behind) /\ i = log.intent /\ p = PaidTo[i]
  <2>1. Head(behind) \in Log /\ Head(behind).intent \in Intents
    BY IndexSees DEF Index, Log
  <2> QED
    BY <2>1, IntentsAssumption
<1>2. /\ log = behind[1] /\ 1 \in 1 .. Len(behind) /\ behind' \in Seq(Log)
      /\ LogsAreSound'
      /\ \A name \in Tracked :
           Seen(name)' = IF log.name = name THEN Seen(name) \cup {i} ELSE Seen(name)
      /\ log.name \in Tracked => i \notin Seen(log.name)
  BY <1>1, IndexSees DEF Index
<1>3. log.name = "IntentResolved" =>
        /\ log.customerAmount = escrow[i].toCustomer /\ log.providerAmount = escrow[i].toProvider
        /\ log.customerAmount + log.providerAmount = Amount
  BY <1>1, <1>2 DEF StandingInv, LogsAreSound, LogsPay
<1> DEFINE s == LoadProvider(p)
           t == LoadProvider(p)'
           one(name) == IF log.name = name THEN 1 ELSE 0
           paid == log.name = "IntentResolved"
<1>4. /\ stats' \in [Ranked -> Stats \cup {NoStats}]
      /\ \A q \in Ranked : q # p => LoadProvider(q)' = LoadProvider(q)
      /\ t \in Stats
      /\ t.funded = s.funded + one("IntentFunded")
      /\ t.disputes = s.disputes + one("DisputeRaised")
      /\ t.released + t.settled + t.refunded = s.released + s.settled + s.refunded + one("IntentResolved")
      /\ t.released = s.released + IF paid /\ log.customerAmount = 0 THEN 1 ELSE 0
      /\ t.refunded = s.refunded + IF paid /\ log.providerAmount = 0 THEN 1 ELSE 0
      /\ t.paidOut = s.paidOut + IF paid THEN log.providerAmount ELSE 0
      /\ t.refundedAmount = s.refundedAmount + IF paid THEN log.customerAmount ELSE 0
      /\ t.evidenceAnchored = s.evidenceAnchored
  <2>1. \/ log.name = "IntentCreated" /\ HandleIntentCreated(log.intent)
        \/ log.name = "IntentFunded" /\ HandleIntentFunded(log.intent)
        \/ log.name = "DisputeRaised" /\ HandleDisputeRaised(log.intent)
        \/ log.name = "AIProposalSubmitted" /\ HandleAIProposalSubmitted(log.intent)
        \/ log.name = "AppealEscalated" /\ HandleAppealEscalated(log.intent)
        \/ log.name = "IntentResolved" /\ HandleIntentResolved(log)
        \/ log.name = "AbandonmentExecuted" /\ HandleAbandonmentExecuted(log.intent)
    BY <1>1 DEF Index
  <2> QED
    BY <1>1, <1>3, <2>1, HandlerSaves
<1>5. s \in Stats /\ Tallies(p, s) /\ UNCHANGED <<escrow, cache>>
  BY NewProviderType DEF StandingInv, Tallied, Index
<1> HIDE DEF s, t
<1>6. \A name \in Tracked : Seen(name) \in SUBSET Intents
  BY DEF Seen
<1>7. ASSUME NEW name \in Tracked
      PROVE  /\ IsFiniteSet(Of(p, Seen(name))) /\ Cardinality(Of(p, Seen(name))) \in Nat
             /\ Of(p, Seen(name)) \subseteq Intents
             /\ Of(p, Seen(name))' = IF log.name = name THEN Of(p, Seen(name)) \cup {i} ELSE Of(p, Seen(name))
             /\ log.name = name => i \notin Of(p, Seen(name))
             /\ Cardinality(Of(p, Seen(name))') = Cardinality(Of(p, Seen(name))) + one(name)
  <2>1. /\ Of(p, Seen(name)) \in SUBSET Intents /\ IsFiniteSet(Of(p, Seen(name)))
        /\ Cardinality(Of(p, Seen(name))) \in Nat
    BY <1>6, IntentsAssumption, FS_Subset, FS_CardinalityType DEF Of
  <2>2. CASE log.name = name
    <3>1. Seen(name)' = Seen(name) \cup {i} /\ i \notin Seen(name)
      BY <1>2, <2>2
    <3>2. Of(p, Seen(name))' = Of(p, Seen(name) \cup {i})
      BY <3>1 DEF Of
    <3>3. Seen(name) \in SUBSET Intents
      BY <1>6
    <3>4. /\ Of(p, Seen(name) \cup {i}) = Of(p, Seen(name)) \cup {i} /\ i \notin Of(p, Seen(name))
          /\ Cardinality(Of(p, Seen(name) \cup {i})) = Cardinality(Of(p, Seen(name))) + 1
      BY <1>1, <3>1, <3>3, OfAdds
    <3> QED
      BY <2>1, <2>2, <3>2, <3>4
  <2>3. CASE log.name # name
    <3>1. Of(p, Seen(name))' = Of(p, Seen(name))
      BY <1>2, <2>3 DEF Of
    <3> QED
      BY <2>1, <2>3, <3>1
  <2> QED
    BY <2>2, <2>3
<1>8. Tallies(p, LoadProvider(p))'
  <2> DEFINE done == Of(p, Seen("IntentResolved"))
  <2>1. /\ IsFiniteSet(done) /\ Cardinality(done) \in Nat /\ done \subseteq Intents
        /\ done' = IF paid THEN done \cup {i} ELSE done
        /\ paid => i \notin done
    BY <1>7 DEF Tracked
  <2>2. /\ t.funded = Cardinality(Of(p, Seen("IntentFunded"))')
        /\ t.disputes = Cardinality(Of(p, Seen("DisputeRaised"))')
        /\ t.released + t.settled + t.refunded = Cardinality(done')
    BY <1>4, <1>5, <1>7 DEF Tallies, Tracked
  <2> HIDE DEF done
  <2>3. ASSUME NEW part \in {"toCustomer", "toProvider"}
        PROVE  /\ Cardinality({j \in done' : escrow'[j][part] = 0}) =
                    Cardinality({j \in done : escrow[j][part] = 0}) + IF paid /\ escrow[i][part] = 0 THEN 1 ELSE 0
               /\ Total(Paid(part)', done') = Total(Paid(part), done) + IF paid THEN escrow[i][part] ELSE 0
    <3>1. /\ Paid(part)' = Paid(part) /\ \A j \in Intents : Paid(part)[j] = escrow[j][part] /\ Paid(part)[j] \in Nat
      BY <1>5, AmountAssumption DEF Paid, StandingInv, StandingTypeOK, EscrowIntent
    <3>2. /\ {j \in done : escrow[j][part] = 0} \in SUBSET done
          /\ IsFiniteSet({j \in done : escrow[j][part] = 0})
          /\ Cardinality({j \in done : escrow[j][part] = 0}) \in Nat
      BY <2>1, FS_Subset, FS_CardinalityType
    <3>3. CASE paid
      <4>1. Total(Paid(part), done \cup {i}) = Total(Paid(part), done) + Paid(part)[i]
        <5>1. \A j \in done \cup {i} : Paid(part)[j] \in Nat
          BY <1>2, <2>1, <3>1
        <5> QED
          BY <2>1, <3>3, <5>1, TotalAdds
      <4>2. done' = done \cup {i} /\ escrow' = escrow /\ Paid(part)[i] = escrow[i][part]
        BY <1>5, <2>1, <3>1, <3>3
      <4>3. Total(Paid(part)', done') = Total(Paid(part), done) + escrow[i][part]
        BY <3>1, <4>1, <4>2
      <4> DEFINE zero == {j \in done : escrow[j][part] = 0}
                 zeros == {j \in done' : escrow'[j][part] = 0}
      <4>4. Cardinality(zero) \in Nat /\ Cardinality(zero \cup {i}) = Cardinality(zero) + 1
        BY <2>1, <3>2, <3>3, FS_AddElement
      <4>5. escrow[i][part] = 0 => zeros = zero \cup {i}
        BY <4>2
      <4>6. ASSUME escrow[i][part] # 0 PROVE zeros = zero
        <5>1. zeros = {j \in done \cup {i} : escrow[j][part] = 0}
          BY <4>2
        <5>2. {j \in done \cup {i} : escrow[j][part] = 0} = {j \in done : escrow[j][part] = 0}
          <6>1. \A j \in done \cup {i} : escrow[j][part] = 0 => j \in done
            BY <4>6
          <6> QED
            BY <6>1
        <5> QED
          BY <5>1, <5>2
      <4> HIDE DEF zero, zeros
      <4>7. Cardinality(zeros) = Cardinality(zero) + IF escrow[i][part] = 0 THEN 1 ELSE 0
        <5>1. CASE escrow[i][part] = 0
          BY <4>4, <4>5, <5>1
        <5>2. CASE escrow[i][part] # 0
          <6>1. zeros = zero
            BY <4>6, <5>2
          <6> QED
            BY <4>4, <5>2, <6>1
        <5> QED
          BY <5>1, <5>2
      <4> QED
        BY <3>3, <4>3, <4>7 DEF zero, zeros
    <3>4. CASE ~ paid
      <4>1. Total(Paid(part), done) \in Nat
        BY <2>1, <3>1, TotalMonotone
      <4> QED
        BY <1>5, <2>1, <3>1, <3>2, <3>4, <4>1
    <3> QED
      BY <3>3, <3>4
  <2>4. /\ s.released = Cardinality({j \in done : escrow[j].toCustomer = 0})
        /\ s.refunded = Cardinality({j \in done : escrow[j].toProvider = 0})
        /\ s.paidOut = Total(Paid("toProvider"), done)
        /\ s.refundedAmount = Total(Paid("toCustomer"), done)
        /\ s.evidenceAnchored = 0
    BY <1>5 DEF Tallies, done
  <2>5. /\ t.released = Cardinality({j \in done' : escrow'[j].toCustomer = 0})
        /\ t.refundedAmount = Total(Paid("toCustomer")', done')
    BY <1>3, <1>4, <2>3, <2>4
  <2>6. /\ t.refunded = Cardinality({j \in done' : escrow'[j].toProvider = 0})
        /\ t.paidOut = Total(Paid("toProvider")', done')
    BY <1>3, <1>4, <2>3, <2>4
  <2>7. t.evidenceAnchored = 0
    BY <1>4, <2>4
  <2> QED
    BY <2>2, <2>5, <2>6, <2>7 DEF Tallies, done, t
<1>9. ASSUME NEW q \in Ranked PROVE Tallies(q, LoadProvider(q))'
  <2>1. CASE q = p
    BY <1>8, <2>1
  <2>2. CASE q # p
    <3>1. ASSUME NEW name \in Tracked PROVE Of(q, Seen(name))' = Of(q, Seen(name))
      <4>1. \A S : Of(q, S \cup {i}) = Of(q, S)
        BY <1>1, <2>2 DEF Of
      <4> QED
        BY <1>2, <4>1 DEF Of
    <3> QED
      BY <1>4, <1>5, <2>2, <3>1, TalliesStay DEF StandingInv, Tallied
  <2> QED
    BY <2>1, <2>2
<1>10. StandingTypeOK'
  BY <1>2, <1>4, <1>5 DEF StandingInv, StandingTypeOK
<1>11. CacheIsOlder'
  <2>1. ASSUME NEW q \in Ranked
        PROVE  /\ LoadProvider(q).funded \in Nat /\ LoadProvider(q)'.funded \in Nat
               /\ LoadProvider(q).funded <= LoadProvider(q)'.funded
    <3>1. LoadProvider(q) \in Stats /\ LoadProvider(q).funded \in Nat
      BY NewProviderType DEF StandingInv, Stats
    <3> QED
      BY <1>4, <3>1 DEF s, t
  <2>2. cache # NoStats => \A q \in Ranked : cache.stats[q] # NoStats => cache.stats[q].funded \in Nat
    BY DEF StandingInv, StandingTypeOK, Stats
  <2> QED
    BY <1>5, <2>1, <2>2 DEF StandingInv, CacheIsOlder
<1> QED
  BY <1>2, <1>9, <1>10, <1>11 DEF StandingInv, Tallied

(***************************************************************************)
(* The query, and the invariant of every step.                             *)
(***************************************************************************)

\* What is kept is what the subgraph has now.
LEMMA QueryKeeps ==
  ASSUME StandingInv, Query \/ SnapshotExpires \/ UNCHANGED standingVars
  PROVE  StandingInv'
<1>1. UNCHANGED <<escrow, behind, head, intents, stats>>
  BY DEF Query, SnapshotExpires, standingVars
<1>2. \A name : Seen(name)' = Seen(name) /\ Pending(name)' = Pending(name)
  BY <1>1 DEF Seen, Pending
<1>3. \A p \in Ranked : LoadProvider(p)' = LoadProvider(p)
  BY <1>1 DEF LoadProvider
<1>4. LogsAreSound'
  BY <1>1, <1>2
  DEF StandingInv, LogsAreSound, UndisputedYet, LogsHappened, LogsAreOnce, LogsPay, LogsAreOrdered, SeenInOrder
<1>5. Tallied'
  <2>1. \A name, p : Of(p, Seen(name))' = Of(p, Seen(name))
    BY <1>2 DEF Of
  <2> QED
    BY <1>1, <1>3, <2>1, TalliesStay DEF StandingInv, Tallied
<1>6. StandingTypeOK'
  BY <1>1 DEF StandingInv, StandingTypeOK, Query, SnapshotExpires, standingVars
<1>7. CacheIsOlder'
  <2>1. CASE Query
    <3>1. cache'.stats = stats
      BY <2>1 DEF Query
    <3>2. ASSUME NEW p \in Ranked, stats[p] # NoStats PROVE stats[p].funded <= LoadProvider(p).funded
      BY <3>2 DEF LoadProvider, StandingInv, StandingTypeOK, Stats
    <3> QED
      BY <1>3, <3>1, <3>2 DEF CacheIsOlder
  <2>2. CASE SnapshotExpires
    BY <2>2 DEF SnapshotExpires, CacheIsOlder
  <2>3. CASE UNCHANGED standingVars
    BY <1>3, <2>3 DEF standingVars, StandingInv, CacheIsOlder
  <2> QED
    BY <2>1, <2>2, <2>3
<1> QED
  BY <1>4, <1>5, <1>6, <1>7 DEF StandingInv

LEMMA StandingInvNext == StandingInv /\ [StandingNext]_standingVars => StandingInv'
<1> SUFFICES ASSUME StandingInv, [StandingNext]_standingVars PROVE StandingInv'
  OBVIOUS
<1>1. ASSUME NEW i \in Intents,
             \/ Move(i, "NONE", "AWAITING_FUNDS", "IntentCreated")
             \/ Move(i, "AWAITING_FUNDS", "FUNDED", "IntentFunded")
             \/ Move(i, "FUNDED", "IN_DISPUTE", "DisputeRaised")
             \/ Move(i, "IN_DISPUTE", "TIMELOCKED", "AIProposalSubmitted")
             \/ Move(i, "TIMELOCKED", "APPEALED", "AppealEscalated")
      PROVE  StandingInv'
  BY <1>1, MoveKeeps DEF IsMove
<1>2. ASSUME NEW i \in Intents, NEW c \in 0 .. Amount, Settle(i, c)
      PROVE  StandingInv'
  BY <1>2, SettleKeeps
<1>3. ASSUME NEW i \in Intents, Abandon(i)
      PROVE  StandingInv'
  BY <1>3, SettleKeeps
<1>4. CASE Index
  BY <1>4, IndexKeeps
<1>5. CASE Query \/ SnapshotExpires \/ UNCHANGED standingVars
  BY <1>5, QueryKeeps
<1> QED
  BY <1>1, <1>2, <1>3, <1>4, <1>5 DEF StandingNext

LEMMA StandingInvariant == StandingSpec => []StandingInv
<1> QED
  BY StandingInvInit, StandingInvNext, PTL DEF StandingSpec

(***************************************************************************)
(* What the customer is told.                                              *)
(***************************************************************************)

\* Caught up, the subgraph has seen all that happened.
LEMMA CaughtUp ==
  ASSUME StandingInv, behind = <<>>, NEW name
  PROVE  Seen(name) = {i \in Intents : Happened(escrow[i], name)}
<1>1. Pending(name) = {}
  BY DEF Pending
<1> QED
  BY <1>1 DEF Seen

LEMMA HistoryHolds == StandingInv => HistoryIsTheEscrows
<1> SUFFICES ASSUME StandingInv, behind = <<>>, NEW p \in Ranked
             PROVE  LET mine == {i \in Intents : PaidTo[i] = p}
                        done == {i \in mine : escrow[i].state = "RESOLVED"}
                        s == LoadProvider(p)
                    IN
                    /\ s.funded = Cardinality({i \in mine : escrow[i].state \notin {"NONE", "AWAITING_FUNDS"}})
                    /\ s.disputes = Cardinality({i \in mine : escrow[i].disputed})
                    /\ s.released + s.settled + s.refunded = Cardinality(done)
                    /\ s.released = Cardinality({i \in done : escrow[i].toCustomer = 0})
                    /\ s.refunded = Cardinality({i \in done : escrow[i].toProvider = 0})
                    /\ s.paidOut = Total([i \in Intents |-> escrow[i].toProvider], done)
                    /\ s.refundedAmount = Total([i \in Intents |-> escrow[i].toCustomer], done)
  BY DEF HistoryIsTheEscrows
<1> DEFINE mine == {i \in Intents : PaidTo[i] = p}
           done == {i \in mine : escrow[i].state = "RESOLVED"}
<1>1. Of(p, Seen("IntentFunded")) = {i \in mine : escrow[i].state \notin {"NONE", "AWAITING_FUNDS"}}
  <2>1. Seen("IntentFunded") = {i \in Intents : escrow[i].state \notin {"NONE", "AWAITING_FUNDS"}}
    BY CaughtUp DEF Happened
  <2> QED
    BY <2>1 DEF Of
<1>2. Of(p, Seen("DisputeRaised")) = {i \in mine : escrow[i].disputed}
  <2>1. Seen("DisputeRaised") = {i \in Intents : escrow[i].disputed}
    BY CaughtUp DEF Happened
  <2> QED
    BY <2>1 DEF Of
<1>3. Of(p, Seen("IntentResolved")) = done
  <2>1. Seen("IntentResolved") = {i \in Intents : escrow[i].state = "RESOLVED"}
    BY CaughtUp DEF Happened
  <2> QED
    BY <2>1 DEF Of
<1>4. /\ Paid("toProvider") = [i \in Intents |-> escrow[i].toProvider]
      /\ Paid("toCustomer") = [i \in Intents |-> escrow[i].toCustomer]
  BY DEF Paid
<1>5. Tallies(p, LoadProvider(p))
  BY DEF StandingInv, Tallied
<1> HIDE DEF mine, done
<1>6. LET s == LoadProvider(p) IN
      /\ s.funded = Cardinality({i \in mine : escrow[i].state \notin {"NONE", "AWAITING_FUNDS"}})
      /\ s.disputes = Cardinality({i \in mine : escrow[i].disputed})
      /\ s.released + s.settled + s.refunded = Cardinality(done)
      /\ s.released = Cardinality({i \in done : escrow[i].toCustomer = 0})
      /\ s.refunded = Cardinality({i \in done : escrow[i].toProvider = 0})
      /\ s.paidOut = Total([i \in Intents |-> escrow[i].toProvider], done)
      /\ s.refundedAmount = Total([i \in Intents |-> escrow[i].toCustomer], done)
  BY <1>1, <1>2, <1>3, <1>4, <1>5 DEF Tallies
<1> QED
  BY <1>6 DEF mine, done

\* Of the jobs of a provider that were funded, some were disputed and some are done.
LEMMA SharesOfJobs ==
  ASSUME StandingInv, NEW p \in Ranked
  PROVE  LET s == LoadProvider(p) IN
         /\ s \in Stats /\ s.disputes <= s.funded /\ s.released + s.settled <= s.funded
         /\ s.evidenceAnchored = 0
<1>1. /\ Of(p, Seen("IntentFunded")) \in SUBSET Intents
      /\ Of(p, Seen("DisputeRaised")) \in SUBSET Of(p, Seen("IntentFunded"))
      /\ Of(p, Seen("IntentResolved")) \in SUBSET Of(p, Seen("IntentFunded"))
  <2>1. Seen("IntentFunded") \subseteq Intents
    BY DEF Seen
  <2>2. Seen("DisputeRaised") \subseteq Seen("IntentFunded") /\ Seen("IntentResolved") \subseteq Seen("IntentFunded")
    BY DEF StandingInv, LogsAreSound, SeenInOrder
  <2> QED
    BY <2>1, <2>2 DEF Of
<1>2. /\ IsFiniteSet(Of(p, Seen("IntentFunded")))
      /\ Cardinality(Of(p, Seen("DisputeRaised"))) <= Cardinality(Of(p, Seen("IntentFunded")))
      /\ Cardinality(Of(p, Seen("IntentResolved"))) <= Cardinality(Of(p, Seen("IntentFunded")))
  BY <1>1, IntentsAssumption, FS_Subset
<1>3. LoadProvider(p) \in Stats /\ Tallies(p, LoadProvider(p))
  BY NewProviderType DEF StandingInv, Tallied
<1> DEFINE s == LoadProvider(p)
<1>4. /\ s.disputes <= s.funded /\ s.released + s.settled + s.refunded <= s.funded /\ s.evidenceAnchored = 0
  BY <1>2, <1>3 DEF Tallies
<1> HIDE DEF s
<1>5. s \in Stats => /\ s.released \in Nat /\ s.settled \in Nat /\ s.refunded \in Nat /\ s.funded \in Nat
  BY DEF Stats
<1>6. s \in Stats
  BY <1>3 DEF s
<1>7. s.released + s.settled <= s.funded
  BY <1>4, <1>5, <1>6
<1> QED
  BY <1>4, <1>6, <1>7 DEF s

LEMMA PercentageHolds == StandingInv => ScoreIsAPercentage
<1> SUFFICES ASSUME StandingInv, NEW p \in Ranked PROVE ScoreNow(p) \in 0 .. 97
  BY DEF ScoreIsAPercentage
<1> DEFINE s == LoadProvider(p)
           h == SeededHistory(p)
           F == s.funded + h.funded
           c == s.released + s.settled + h.completed
           d == s.disputes + h.disputes
           M == IF s.paidOut + s.refundedAmount = 0 THEN 1 ELSE s.paidOut + s.refundedAmount
<1>1. /\ s \in Stats /\ s.disputes <= s.funded /\ s.released + s.settled <= s.funded
      /\ s.evidenceAnchored = 0
  BY SharesOfJobs
<1>2. h.funded \in Nat /\ h.completed \in 0 .. h.funded /\ h.disputes \in 0 .. h.funded
  BY SeededType
<1> HIDE DEF s, h
<1>3. /\ s.funded \in Nat /\ s.disputes \in Nat /\ s.released \in Nat /\ s.settled \in Nat
      /\ s.paidOut \in Nat /\ s.refundedAmount \in Nat
  BY <1>1 DEF Stats
<1>4. Speed(s) = 2
  BY <1>1 DEF Speed
<1>5. F \in Nat /\ c \in 0 .. F /\ d \in 0 .. F
  BY <1>1, <1>2, <1>3
<1>6. M \in Nat \ {0} /\ s.refundedAmount \in 0 .. M
  BY <1>3
<1> DEFINE weighed ==
             Round(120 * c * M + 90 * (F - d) * M + 60 * (M - s.refundedAmount) * F + 10 * 2 * F * M, 3 * F * M)
<1>7. Compute(s, h, TRUE) = IF F < 3 THEN 50 ELSE weighed
  BY <1>4 DEF Compute
<1>8. ScoreNow(p) = Compute(s, h, TRUE)
  BY DEF ScoreNow, s, h
<1> HIDE DEF F, c, d, M
<1>9. ASSUME F \in Nat \ {0} PROVE weighed \in 0 .. 97
  <2> DEFINE r == s.refundedAmount
  <2>1. r \in 0 .. M
    BY <1>6
  <2> HIDE DEF r
  <2>2. Round(120 * c * M + 90 * (F - d) * M + 60 * (M - r) * F + 10 * 2 * F * M, 3 * F * M) \in 0 .. 97
    BY <1>5, <1>6, <1>9, <2>1, ScoreBound, Zenon
  <2> QED
    BY <2>2 DEF weighed, r
<1> HIDE DEF weighed
<1>10. CASE F < 3
  <2>1. ScoreNow(p) = 50
    BY <1>7, <1>8, <1>10
  <2> QED
    BY <2>1
<1>11. CASE ~ (F < 3)
  <2>1. weighed \in 0 .. 97
    <3>1. F \in Nat \ {0}
      BY <1>5, <1>11
    <3> QED
      BY <1>9, <3>1
  <2>2. ScoreNow(p) = weighed
    BY <1>7, <1>8, <1>11
  <2> QED
    BY <2>1, <2>2
<1> QED
  BY <1>10, <1>11

\* Without an answer, with an old one, and without a history the score is the middle.
LEMMA SilenceHolds == StandingInv => SilenceExcludesNobody
<1> SUFFICES ASSUME StandingInv, NEW p \in Ranked,
                    cache = NoStats \/ Stale(cache) \/ SeededHistory(p).funded + LoadProvider(p).funded < 3
             PROVE  Excluded(p) # "trust below the minimum"
  BY DEF SilenceExcludesNobody
<1>1. \A s, h : Compute(s, h, FALSE) = 50
  BY DEF Compute
<1>2. ASSUME NEW s, NEW h, s.funded + h.funded < 3 PROVE Compute(s, h, TRUE) = 50
  BY <1>2 DEF Compute
<1>3. Score(p) = 50
  <2>1. CASE cache = NoStats
    BY <1>1, <2>1 DEF Score
  <2>2. CASE cache # NoStats /\ Stale(cache)
    BY <1>1, <2>2 DEF Score
  <2>3. CASE cache # NoStats /\ ~ Stale(cache)
    <3> DEFINE s == IF cache.stats[p] = NoStats THEN NewProvider ELSE cache.stats[p]
               h == SeededHistory(p)
    <3>1. LoadProvider(p).funded \in Nat
      BY NewProviderType DEF StandingInv, Stats
    <3>2. s.funded \in Nat /\ s.funded <= LoadProvider(p).funded
      <4>1. cache.stats[p] # NoStats =>
              cache.stats[p].funded \in Nat /\ cache.stats[p].funded <= LoadProvider(p).funded
        BY <2>3 DEF StandingInv, StandingTypeOK, CacheIsOlder, Stats
      <4> QED
        BY <3>1, <4>1, NewProviderType
    <3>3. h.funded \in Nat
      BY SeededType
    <3>4. h.funded + LoadProvider(p).funded < 3
      BY <2>3
    <3>5. Score(p) = Compute(s, h, TRUE)
      BY <2>3 DEF Score
    <3> HIDE DEF s, h
    <3>6. s.funded + h.funded < 3
      BY <3>1, <3>2, <3>3, <3>4
    <3> QED
      BY <1>2, <3>5, <3>6
  <2> QED
    BY <2>1, <2>2, <2>3
<1>4. ~ (Score(p) < TRUST_MIN)
  BY <1>3, MinimumAssumption
<1> QED
  BY <1>4 DEF Excluded

\* What a customer is told of a provider is what the escrow did with its jobs
\* (subgraph/intentra-arc, score.py, trust.py).
THEOREM Earned == StandingSpec => []StandingIsEarned
<1>1. StandingInv => StandingIsEarned
  BY HistoryHolds, PercentageHolds, SilenceHolds DEF StandingIsEarned
<1> QED
  BY <1>1, StandingInvariant, PTL
=============================================================================
