----------------------------- MODULE Reputation -----------------------------
(***************************************************************************)
(* What becomes of a provider's jobs in the eyes of the next customer: the *)
(* escrow's logs, the subgraph that counts them, the query with its cache, *)
(* the trust score, and the ranking (subgraph/intentra-arc,                *)
(* integrations/graph.py, domains/providers).                              *)
(*                                                                         *)
(* The subgraph handles every log once, in order, some time after it was   *)
(* emitted; one log is one block.  The escrow is external, with the        *)
(* states that module IntentraEscrow has.  A share is compared exactly: a  *)
(* score is rounded half up, not as a binary fraction.  The names of this  *)
(* module are its own, so that it can stand beside other components.       *)
(*                                                                         *)
(* An operator marked Fault is a plausible error in the function that      *)
(* follows it; nothing uses it but the mutation tests of the properties.   *)
(***************************************************************************)
EXTENDS Integers, Sequences, FiniteSets, Machine

CONSTANTS
  Ranked,       \* the providers
  PaidTo,       \* PaidTo[i]: the provider of an intent; the domain is the intents
  Amount,       \* what each intent holds
  SeededJobs,   \* SeededJobs[p]: how many seeded jobs of p are in each state
  Listing,      \* Listing[p]: [fits, price]: p is verified, serves and is free, at a price
  Budget,
  TRUST_MIN,
  MaxBehind,    \* logs the subgraph may lag (bound)
  STALE_AFTER_BLOCKS,
  NoStats

Intents == DOMAIN PaidTo

ASSUME IntentsAssumption == PaidTo \in [Intents -> Ranked] /\ IsFiniteSet(Intents)
ASSUME AmountAssumption == Amount \in Nat \ {0}
ASSUME SeededAssumption ==
  \A p \in Ranked : SeededJobs[p] \in [DOMAIN SeededJobs[p] -> Nat] /\ IsFiniteSet(DOMAIN SeededJobs[p])

\* The setting is 40: above the score of one without a history, nobody could begin.
ASSUME MinimumAssumption == TRUST_MIN \in 0 .. 50

VARIABLES
  escrow,      \* external: each intent's state, and what it paid
  behind,      \* external: logs the subgraph has not handled
  head,        \* external: the chain's block
  intents,     \* Intent entities: status
  stats,       \* Provider entities by address
  cache        \* graph.py: the snapshot kept for thirty seconds

standingVars == <<escrow, behind, head, intents, stats, cache>>

\* Provider entities.
Stats == [funded : Nat, delivered : Nat, released : Nat, settled : Nat, refunded : Nat, disputes : Nat,
          evidenceAnchored : Nat, paidOut : Nat, refundedAmount : Nat, secondsToEvidence : Nat]
ASSUME NoStatsAssumption == NoStats \notin Stats

StandingInit ==
  /\ escrow = [i \in Intents |-> [state |-> "NONE", toCustomer |-> 0, toProvider |-> 0, disputed |-> FALSE]]
  /\ behind = <<>> /\ head = 0
  /\ intents = [i \in Intents |-> NoStats]
  /\ stats = [p \in Ranked |-> NoStats]
  /\ cache = NoStats

(***************************************************************************)
(* The escrow, external.                                                   *)
(***************************************************************************)
Emit(logs) ==
  /\ Len(behind) + Len(logs) <= MaxBehind
  /\ behind' = behind \o logs
  /\ head' = head + Len(logs)
  /\ UNCHANGED <<intents, stats, cache>>

Move(i, from, to, name) ==
  /\ escrow[i].state = from
  /\ escrow' = [escrow EXCEPT ![i].state = to, ![i].disputed = @ \/ to = "IN_DISPUTE"]
  /\ Emit(<<[name |-> name, intent |-> i]>>)

Resolved(i, c) ==
  [name |-> "IntentResolved", intent |-> i, customerAmount |-> c, providerAmount |-> Amount - c]

Pay(i, c) ==
  escrow' = [escrow EXCEPT ![i].state = "RESOLVED", ![i].toCustomer = c, ![i].toProvider = Amount - c]

Settle(i, c) ==
  /\ escrow[i].state \in {"FUNDED", "TIMELOCKED", "APPEALED"}
  /\ Pay(i, c)
  /\ Emit(<<Resolved(i, c)>>)

\* executeAbandonment emits what it paid, and then that it was abandoned.
Abandon(i) ==
  /\ escrow[i].state \in {"FUNDED", "IN_DISPUTE"}
  /\ Pay(i, Amount)
  /\ Emit(<<Resolved(i, Amount), [name |-> "AbandonmentExecuted", intent |-> i]>>)

(***************************************************************************)
(* The subgraph.                                                           *)
(***************************************************************************)
NewProvider == [funded |-> 0, delivered |-> 0, released |-> 0, settled |-> 0, refunded |-> 0, disputes |-> 0,
                evidenceAnchored |-> 0, paidOut |-> 0, refundedAmount |-> 0, secondsToEvidence |-> 0]

LoadProvider(p) == IF stats[p] = NoStats THEN NewProvider ELSE stats[p]
Save(p, provider) == stats' = [stats EXCEPT ![p] = provider]

HandleIntentCreated(i) ==
  /\ Save(PaidTo[i], LoadProvider(PaidTo[i]))
  /\ intents' = [intents EXCEPT ![i] = "AwaitingFunds"]

\* The other handlers start from an intent that is there.
Known(i, status) ==
  /\ intents[i] # NoStats
  /\ intents' = [intents EXCEPT ![i] = status]

HandleIntentFunded(i) ==
  /\ Known(i, "Funded")
  /\ Save(PaidTo[i], [LoadProvider(PaidTo[i]) EXCEPT !.funded = @ + 1])

HandleDisputeRaised(i) ==
  /\ Known(i, "InDispute")
  /\ Save(PaidTo[i], [LoadProvider(PaidTo[i]) EXCEPT !.disputes = @ + 1])

HandleAIProposalSubmitted(i) == Known(i, "Timelocked") /\ UNCHANGED stats
HandleAppealEscalated(i) == Known(i, "Appealed") /\ UNCHANGED stats

\* Fault: a full refund counts as a settlement, and with it as a job completed.
OutcomeOfShares(log) == IF log.customerAmount = 0 THEN "released" ELSE "settled"

\* How a resolution counts.
Outcome(log) ==
  IF log.customerAmount = 0 THEN "released" ELSE IF log.providerAmount = 0 THEN "refunded" ELSE "settled"

HandleIntentResolved(log) ==
  LET p == PaidTo[log.intent]
      paid == [LoadProvider(p) EXCEPT !.paidOut = @ + log.providerAmount, !.refundedAmount = @ + log.customerAmount]
  IN
  /\ Known(log.intent, "Resolved")
  /\ Save(p, CASE Outcome(log) = "released" -> [paid EXCEPT !.released = @ + 1, !.delivered = @ + 1]
               [] Outcome(log) = "refunded" -> [paid EXCEPT !.refunded = @ + 1]
               [] Outcome(log) = "settled" -> [paid EXCEPT !.settled = @ + 1])

\* Fault: the refund is counted with the abandonment, too.
CountAbandonmentAgain(i) ==
  /\ Known(i, "Abandoned")
  /\ Save(PaidTo[i], [LoadProvider(PaidTo[i]) EXCEPT !.refunded = @ + 1])

HandleAbandonmentExecuted(i) == Known(i, "Abandoned") /\ UNCHANGED stats

Index ==
  /\ behind # <<>>
  /\ LET log == Head(behind) IN
       \/ log.name = "IntentCreated" /\ HandleIntentCreated(log.intent)
       \/ log.name = "IntentFunded" /\ HandleIntentFunded(log.intent)
       \/ log.name = "DisputeRaised" /\ HandleDisputeRaised(log.intent)
       \/ log.name = "AIProposalSubmitted" /\ HandleAIProposalSubmitted(log.intent)
       \/ log.name = "AppealEscalated" /\ HandleAppealEscalated(log.intent)
       \/ log.name = "IntentResolved" /\ HandleIntentResolved(log)
       \/ log.name = "AbandonmentExecuted" /\ HandleAbandonmentExecuted(log.intent)
  /\ behind' = Tail(behind)
  /\ UNCHANGED <<escrow, head, cache>>

(***************************************************************************)
(* The query.                                                              *)
(***************************************************************************)
IndexedBlock == head - Len(behind)

\* provider_stats, when it answers: the snapshot is kept.
Query ==
  /\ cache = NoStats
  /\ cache' = [stats |-> stats, block |-> IndexedBlock]
  /\ UNCHANGED <<escrow, behind, head, intents, stats>>

SnapshotExpires ==
  /\ cache # NoStats
  /\ cache' = NoStats
  /\ UNCHANGED <<escrow, behind, head, intents, stats>>

StandingNext ==
  \/ \E i \in Intents :
       \/ Move(i, "NONE", "AWAITING_FUNDS", "IntentCreated")
       \/ Move(i, "AWAITING_FUNDS", "FUNDED", "IntentFunded")
       \/ Move(i, "FUNDED", "IN_DISPUTE", "DisputeRaised")
       \/ Move(i, "IN_DISPUTE", "TIMELOCKED", "AIProposalSubmitted")
       \/ Move(i, "TIMELOCKED", "APPEALED", "AppealEscalated")
       \/ \E c \in 0 .. Amount : Settle(i, c)
       \/ Abandon(i)
  \/ Index \/ Query \/ SnapshotExpires

StandingSpec == StandingInit /\ [][StandingNext]_standingVars

(***************************************************************************)
(* The trust card.                                                         *)
(***************************************************************************)
DISPUTED_STATES == {"DISPUTED", "RESOLVING", "PROPOSED", "SETTLED", "ESCALATED"}
COMPLETED_STATES == {"RELEASED", "SETTLED"}

\* The total of the f[x], x in S, as the number of marks when each x has f[x] of them.
Total(f, S) == Cardinality(UNION {{x} \X (1 .. f[x]) : x \in S})

\* seeded_history
SeededHistory(p) ==
  LET count(states) == Total(SeededJobs[p], states \cap DOMAIN SeededJobs[p]) IN
  [completed |-> count(COMPLETED_STATES), disputes |-> count(DISPUTED_STATES),
   funded |-> count(TxState \ PRE_FUNDING)]

\* The share of the time limit a provider has left, in thirds: without an anchored
\* proof, 24 of 72 hours are assumed.
Speed(s) ==
  LET hours == IF s.evidenceAnchored = 0 THEN 0 ELSE s.secondsToEvidence \div (s.evidenceAnchored * 3600)
      assumed == IF hours = 0 THEN 24 ELSE hours
  IN 3 - IF assumed > 72 THEN 3 ELSE (3 * assumed) \div 72

Round(n, d) == (2 * n + d) \div (2 * d)

\* Fault: a provider with a short history gets the formula, too.
ComputeAlways(s, seeded, available) ==
  LET funded == s.funded + seeded.funded
      completed == s.released + s.settled + seeded.completed
  IN IF ~ available \/ funded = 0 THEN 0 ELSE Round(100 * completed, funded)

\* Fault: a job released is a job delivered, and counts as both.
ComputeWithDelivered(s, seeded, available) ==
  LET funded == s.funded + seeded.funded
      completed == s.delivered + s.released + s.settled + seeded.completed
      disputes == s.disputes + seeded.disputes
  IN
  IF ~ available \/ funded < 3 THEN 50
  ELSE Round(120 * completed + 90 * (funded - disputes) + 60 * funded + 10 * Speed(s) * funded, 3 * funded)

\* compute, its score before the clamp.
Compute(s, seeded, available) ==
  LET funded == s.funded + seeded.funded
      completed == s.released + s.settled + seeded.completed
      disputes == s.disputes + seeded.disputes
      moved == IF s.paidOut + s.refundedAmount = 0 THEN 1 ELSE s.paidOut + s.refundedAmount
  IN
  IF ~ available \/ funded < 3 THEN 50
  ELSE Round(120 * completed * moved + 90 * (funded - disputes) * moved
               + 60 * (moved - s.refundedAmount) * funded + 10 * Speed(s) * funded * moved,
             3 * funded * moved)

\* cards: an unanswered query, or one too far behind the head, is no history.
Stale(snapshot) == head - snapshot.block > STALE_AFTER_BLOCKS
Score(p) ==
  IF cache = NoStats THEN Compute(NewProvider, SeededHistory(p), FALSE)
  ELSE Compute(IF cache.stats[p] = NoStats THEN NewProvider ELSE cache.stats[p], SeededHistory(p), ~ Stale(cache))

\* The score of a provider by what the subgraph has now.
ScoreNow(p) == Compute(LoadProvider(p), SeededHistory(p), TRUE)

(***************************************************************************)
(* The ranking.                                                            *)
(***************************************************************************)
Excluded(p) ==
  CASE ~ Listing[p].fits -> "does not fit"
    [] Listing[p].price > Budget -> "over budget"
    [] Score(p) < TRUST_MIN -> "trust below the minimum"
    [] OTHER -> "kept"

(***************************************************************************)
(* Properties.                                                             *)
(***************************************************************************)

\* The subgraph's history is the escrow's: when it has caught up, every number of
\* a provider is the count or the sum over that provider's intents, whatever order
\* they were disputed, settled and abandoned in (mapping.ts:45-117).
HistoryIsTheEscrows ==
  behind = <<>> =>
    \A p \in Ranked :
      LET mine == {i \in Intents : PaidTo[i] = p}
          done == {i \in mine : escrow[i].state = "RESOLVED"}
          s == LoadProvider(p)
      IN
      /\ s.funded = Cardinality({i \in mine : escrow[i].state \notin {"NONE", "AWAITING_FUNDS"}})
      /\ s.disputes = Cardinality({i \in mine : escrow[i].disputed})
      /\ s.released + s.settled + s.refunded = Cardinality(done)
      /\ s.released = Cardinality({i \in done : escrow[i].toCustomer = 0})
      /\ s.refunded = Cardinality({i \in done : escrow[i].toProvider = 0})
      /\ s.paidOut = Total([i \in Intents |-> escrow[i].toProvider], done)
      /\ s.refundedAmount = Total([i \in Intents |-> escrow[i].toCustomer], done)

\* The score is a percentage before it is clamped, and never all of one: in every
\* state of every job, disputes and completions are at most as many as the jobs
\* funded (score.py:35-54).
ScoreIsAPercentage == \A p \in Ranked : ScoreNow(p) \in 0 .. 97

\* Nobody is left out of the recommendations because The Graph does not answer or
\* is behind ("a missing RPC never blocks a recommendation", trust.py:37), and no
\* newcomer because there is no history yet.
SilenceExcludesNobody ==
  \A p \in Ranked :
    (cache = NoStats \/ Stale(cache) \/ SeededHistory(p).funded + LoadProvider(p).funded < 3) =>
      Excluded(p) # "trust below the minimum"

\* What a customer is told of a provider is what the escrow did with its jobs: its
\* history, a score that is a percentage, and no exclusion on silence.
StandingIsEarned == HistoryIsTheEscrows /\ ScoreIsAPercentage /\ SilenceExcludesNobody
=============================================================================
