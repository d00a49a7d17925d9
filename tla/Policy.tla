------------------------------- MODULE Policy -------------------------------
(***************************************************************************)
(* The deterministic rules before every high-impact step,                  *)
(* backend/app/core/policy.  An action is a record of kind, state, amount, *)
(* verified, wallet, scope and human; what its caller leaves out is NoData *)
(* (NoAmount for the amount).  A context holds the hard cap, the tolerance *)
(* and the standing authorization, NoData or a record of max, wallet,      *)
(* scope and expired.  There is one currency: no caller names another.     *)
(***************************************************************************)
EXTENDS Integers, Machine, Money

CONSTANT NoData
NoAmount == -1

\* The states each kind of action is for.
ALLOWED_STATES ==
  [kind \in {"quote_select", "authorize", "fund", "release", "settle", "complaint"} |->
     CASE kind = "quote_select" -> {"INTENT_STRUCTURED"}
       [] kind = "authorize" -> {"AWAITING_AUTHORIZATION"}
       [] kind = "fund" -> {"AUTHORIZED", "FUNDING"}
       [] kind = "settle" -> {"PROPOSED"}
       [] OTHER -> {"DELIVERED"}]
NEEDS_AUTHORIZATION == {"fund", "release", "settle"}
AMOUNT_CHECKED == {"authorize", "fund", "settle"}

StateNotPermitted(a) == a.state \notin ALLOWED_STATES[a.kind]
OverHardCap(a, c) == a.kind \in {"authorize", "fund"} /\ a.amount > c.hardCap
UnverifiedProvider(a) == a.kind \in {"quote_select", "authorize", "fund"} /\ ~ a.verified
HumanCheckMissing(a) == a.kind \in {"authorize", "complaint"} /\ a.human # TRUE
NoAuthorization(a, c) == a.kind \in NEEDS_AUTHORIZATION /\ c.auth = NoData

AuthorizationExpired(a, c) == a.kind = "fund" /\ c.auth # NoData /\ c.auth.expired

OverAuthorized(a, c) ==
  /\ a.kind \in AMOUNT_CHECKED
  /\ c.auth # NoData
  /\ a.amount > c.auth.max
Tolerable(a, c) == WithinTolerance(a.amount, c.auth.max, c.toleranceBps)

\* Fault: whose wallet is paid is not compared.
AnyProvider(a, c) == FALSE

ProviderSubstituted(a, c) ==
  a.kind = "fund" /\ c.auth # NoData /\ a.wallet # NoData /\ a.wallet # c.auth.wallet

ScopeChanged(a, c) ==
  a.kind = "fund" /\ c.auth # NoData /\ a.scope # NoData /\ a.scope # c.auth.scope

\* RULES, in their order: whether each hits, and its verdict.
Rules(a, c) ==
  <<[hits |-> StateNotPermitted(a), decision |-> "BLOCK", reason |-> "state_not_permitted"],
    [hits |-> OverHardCap(a, c), decision |-> "BLOCK", reason |-> "over_hard_cap"],
    [hits |-> UnverifiedProvider(a), decision |-> "BLOCK", reason |-> "unverified_provider"],
    [hits |-> HumanCheckMissing(a), decision |-> "BLOCK", reason |-> "human_check_missing"],
    [hits |-> NoAuthorization(a, c), decision |-> "ASK", reason |-> "no_authorization"],
    [hits |-> AuthorizationExpired(a, c), decision |-> "BLOCK", reason |-> "authorization_expired"],
    [hits |-> OverAuthorized(a, c) /\ Tolerable(a, c), decision |-> "ASK",
     reason |-> "over_authorized_within_tolerance"],
    [hits |-> OverAuthorized(a, c) /\ ~ Tolerable(a, c), decision |-> "BLOCK",
     reason |-> "over_authorized_beyond_tolerance"],
    [hits |-> ProviderSubstituted(a, c), decision |-> "ASK", reason |-> "provider_substituted"],
    [hits |-> ScopeChanged(a, c), decision |-> "ASK", reason |-> "scope_changed"]>>

\* evaluate: the first rule that hits decides.
Evaluate(a, c) ==
  LET rules == Rules(a, c)
      hits == {n \in DOMAIN rules : rules[n].hits}
  IN  IF hits = {} THEN [decision |-> "ALLOW", reason |-> NoData]
      ELSE LET first == CHOOSE n \in hits : \A m \in hits : n <= m
           IN  [decision |-> rules[first].decision, reason |-> rules[first].reason]

Allows(a, c) == Evaluate(a, c).decision = "ALLOW"
=============================================================================
