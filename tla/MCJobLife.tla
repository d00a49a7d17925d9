----------------------------- MODULE MCJobLife -----------------------------
(***************************************************************************)
(* Instances for TLC of JobLife, and beside it of the two modules that say *)
(* who offers and who is recommended, Identity and Reputation; the names   *)
(* of those two are their own.  The first state says which of the three    *)
(* runs, and the others keep their first states meanwhile.                 *)
(***************************************************************************)
EXTENDS JobLife, Identity, Reputation, TLC

CONSTANTS
  oneRoom, twoRooms, hall, kitchen, p1, p2, w1, w2, f1, f2, r1, r2,
  i1, i2                           \* intents

VARIABLE part

\* Two readings of the request, of which one has a room more.
MCRooms == oneRoom :> {hall} @@ twoRooms :> {hall, kitchen}
MCBaseRate == p1 :> 3000 @@ p2 :> 4000

Symmetry == Permutations({w1, w2}) \cup Permutations({f1, f2}) \cup Permutations({r1, r2})

\* Two intents of one provider with a seeded history, against a rival with none on chain.
MCPaidTo == i1 :> p1 @@ i2 :> p1
MCSeededJobs == p1 :> ("RELEASED" :> 1 @@ "CREATED" :> 1 @@ "CANCELLED" :> 1) @@ p2 :> ("SETTLED" :> 3)
MCListing == p1 :> [fits |-> TRUE, price |-> 2] @@ p2 :> [fits |-> TRUE, price |-> 1]

\* No provider there before the seed, when accounts are not looked at.
NoProvider == \A p \in ProviderRows : ~ IsProvider(p)

PartsInit ==
  /\ Init /\ IdentityInit /\ StandingInit
  /\ \/ part \in {"job", "reputation"} /\ NoProvider
     \/ part = "identity"

PartsNext ==
  /\ UNCHANGED part
  /\ \/ part = "job" /\ Next /\ UNCHANGED <<identityVars, standingVars>>
     \/ part = "identity" /\ IdentityNext /\ UNCHANGED <<vars, standingVars>>
     \/ part = "reputation" /\ StandingNext /\ UNCHANGED <<vars, identityVars>>

PartsSpec == PartsInit /\ [][PartsNext]_<<part, vars, identityVars, standingVars>>
=============================================================================
