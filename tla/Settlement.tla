----------------------------- MODULE Settlement -----------------------------
(***************************************************************************)
(* How the money of a funded job leaves the escrow: the release the        *)
(* customer signs, the split both parties accept, and the closing of what  *)
(* fourteen days of silence left behind.  The backend decides and queues,  *)
(* the resolver's outbox sends, the contract (module IntentraEscrow, with  *)
(* one intent) pays, and the watcher records.                              *)
(*                                                                         *)
(* An outbox row is what module Outbox shows of it: sent, refused, mined,  *)
(* reverted or stuck.  A newer row of a kind stands for an older one that  *)
(* ended.  What the older one put on the chain others may still relay.     *)
(* Logs are read in any order, as receipts and sweep allow, and each once  *)
(* (module ChainEvents).  The dispute between freeze and proposal is one   *)
(* step here (module Disputes).                                            *)
(*                                                                         *)
(* An operator marked Fault is a plausible error in the function that      *)
(* follows it; nothing uses it but the mutation tests of the properties.   *)
(***************************************************************************)
EXTENDS Integers, Machine

CONSTANTS
  Customer, Provider, Arbitrator, Human, NoOne, Usdc,
  Total,                \* what the intent holds
  Remedies,             \* the provider's share under each remedy
  ABANDONMENT_TIMEOUT, APPEAL_TIMELOCK

ASSUME SharesAssumption == Total \in Nat \ {0} /\ Remedies \subseteq 0 .. Total

VARIABLES
  state,       \* transactions.state
  fundedAge,   \* age of transactions.funded_at
  dispute,     \* disputes.status, or "NONE"
  proposal,    \* resolution_proposals.status, or "NONE"
  split,       \* the proposal's to_provider_minor
  accepted,    \* resolution_acceptances: who accepted
  rows,        \* chain_txs.status of the latest row of each kind, or "NONE"
  pass,        \* what reconciliation has read and not yet acted on
  payments,    \* payments recorded for the resolution
  logs,        \* external: logs of the escrow nobody has handled
  \* external: the contract
  nextIntentId, terms, escrow, idle, onChain, appealFee, appealStakes, appellants, pool, ether,
  spendable, ledger, settledBy, stakeSentTo

job == <<state, dispute, proposal, split, accepted>>
contract == <<nextIntentId, terms, escrow, idle, onChain, appealFee, appealStakes, appellants, pool,
              ether, spendable, ledger, settledBy, stakeSentTo>>
vars == <<job, fundedAge, rows, pass, payments, logs, contract>>

Contract == INSTANCE IntentraEscrow WITH
  Accounts <- {Customer, Provider, Arbitrator, Human},
  AiArbitrator <- Arbitrator, Owner <- Human,
  Tokens <- {Usdc}, Amounts <- {Total}, Fees <- {0}, MaxIntents <- 1,
  state <- escrow, proposal <- onChain

Intent == 0
Kind == {"RELEASE", "SETTLE", "ABANDONMENT"}
NoPayments == [toCustomer |-> 0, toProvider |-> 0]

\* A job that was just funded.
Init ==
  /\ state = "FUNDED" /\ fundedAge = 0
  /\ dispute = "NONE" /\ proposal = "NONE" /\ split = 0 /\ accepted = {}
  /\ rows = [k \in Kind |-> "NONE"]
  /\ pass = "idle"
  /\ payments = NoPayments
  /\ logs = {}
  /\ nextIntentId = 1
  /\ terms = [i \in {Intent} |->
       [customer |-> Customer, provider |-> Provider, token |-> Usdc, totalAmount |-> Total]]
  /\ escrow = [i \in {Intent} |-> "FUNDED"]
  /\ idle = [i \in {Intent} |-> 0]
  /\ onChain = [i \in {Intent} |-> Contract!NoProposal]
  /\ appealFee = 0
  /\ appealStakes = [i \in {Intent} |-> 0]
  /\ appellants = [i \in {Intent} |-> NoOne]
  /\ pool = [t \in {Usdc} |-> Total]
  /\ ether = 0
  /\ spendable = [a \in {Customer, Provider, Arbitrator, Human} |-> [t \in {Usdc} |-> 0]]
  /\ ledger = [i \in {Intent} |-> [deposited |-> Total, toCustomer |-> 0, toProvider |-> 0]]
  /\ settledBy = [i \in {Intent} |-> "nothing"]
  /\ stakeSentTo = [i \in {Intent} |-> NoOne]

\* machine.apply, and the same when handle_log catches the refusal.
Apply(event) == Can(state, event) /\ state' = NextState(state, event)
ApplyIfLegal(event) == state' = IF Can(state, event) THEN NextState(state, event) ELSE state

Queue(kind) == rows' = [rows EXCEPT ![kind] = "QUEUED"]
InFlight(kind) == rows[kind] \in {"QUEUED", "SENT", "MINED"}

(***************************************************************************)
(* The parties.                                                            *)
(***************************************************************************)

\* The work, as far as its delivery (module JobLife).
Deliver ==
  /\ state = "FUNDED"
  /\ state' = "DELIVERED"
  /\ UNCHANGED <<dispute, proposal, split, accepted, fundedAge, rows, pass, payments, logs, contract>>

\* release_execute: the customer and the arbitrator sign everything to the
\* provider.  Nothing looks for a release that was queued before.
ReleaseExecute ==
  /\ state = "DELIVERED"
  /\ Queue("RELEASE")
  /\ UNCHANGED <<job, fundedAge, pass, payments, logs, contract>>

\* Fault: the job is disputed before the escrow has frozen the money.
FileAndOpen ==
  /\ dispute = "NONE"
  /\ Apply("DISPUTE_OPENED_ONCHAIN")
  /\ dispute' = "OPEN"
  /\ UNCHANGED <<proposal, split, accepted, fundedAge, rows, pass, payments, logs, contract>>

\* file_complaint
FileComplaint ==
  /\ state = "DELIVERED"
  /\ dispute = "NONE"
  /\ dispute' = "OPENING"
  /\ UNCHANGED <<state, proposal, split, accepted, fundedAge, rows, pass, payments, logs, contract>>

\* run_ladder, after the response or without one: a proposal, or a human.
Propose(remedy) ==
  /\ state = "DISPUTED"
  /\ state' = "PROPOSED"
  /\ proposal' = "OPEN" /\ split' = remedy /\ dispute' = "PROPOSED"
  /\ UNCHANGED <<accepted, fundedAge, rows, pass, payments, logs, contract>>

Escalate ==
  /\ state = "DISPUTED"
  /\ state' = "ESCALATED"
  /\ dispute' = "ESCALATED"
  /\ UNCHANGED <<proposal, split, accepted, fundedAge, rows, pass, payments, logs, contract>>

\* accept: the second of the two queues the execution, whatever the contract's state.
Accept(party) ==
  /\ proposal \in {"OPEN", "SETTLING"}
  /\ party \notin accepted
  /\ accepted' = accepted \cup {party}
  /\ IF accepted = {} THEN UNCHANGED <<proposal, rows>>
     ELSE state = "PROPOSED" /\ proposal' = "SETTLING" /\ Queue("SETTLE")
  /\ UNCHANGED <<state, dispute, split, fundedAge, pass, payments, logs, contract>>

\* reject
Reject(party) ==
  /\ proposal \notin {"NONE", "SETTLING"}
  /\ party \notin accepted
  /\ Apply("REJECTED")
  /\ proposal' = "REJECTED" /\ dispute' = "ESCALATED"
  /\ UNCHANGED <<split, accepted, fundedAge, rows, pass, payments, logs, contract>>

(***************************************************************************)
(* Reconciliation.                                                         *)
(***************************************************************************)

\* due_acceptances, of a proposal whose deadline passed.
ReadDueAcceptance ==
  /\ pass = "idle"
  /\ state = "PROPOSED" /\ proposal = "OPEN"
  /\ pass' = "acceptance"
  /\ UNCHANGED <<job, fundedAge, rows, payments, logs, contract>>

\* acceptance_timeouts
ExpireProposal ==
  /\ pass = "acceptance"
  /\ pass' = "idle"
  /\ IF state = "PROPOSED"
     THEN proposal' = "EXPIRED" /\ dispute' = "ESCALATED" /\ Apply("ACCEPT_TIMEOUT")
     ELSE UNCHANGED <<state, proposal, dispute>>
  /\ UNCHANGED <<split, accepted, fundedAge, rows, payments, logs, contract>>

\* funded_since_before: the states it lists are all that hold money but ESCALATED.
FundedSinceBefore ==
  /\ state \in {"FUNDED", "IN_PROGRESS", "EVIDENCE_SUBMITTED", "DELIVERED", "DISPUTED", "RESOLVING", "PROPOSED"}
  /\ fundedAge = ABANDONMENT_TIMEOUT

ReadAbandoned ==
  /\ pass = "idle"
  /\ FundedSinceBefore
  /\ \A k \in Kind : ~ InFlight(k)
  /\ pass' = "abandoned"
  /\ UNCHANGED <<job, fundedAge, rows, payments, logs, contract>>

\* Fault: a row that ended counts as one on its way (has_execute_queued).
ForceAbandonedOnce ==
  /\ pass = "abandoned"
  /\ pass' = "idle"
  /\ IF \E k \in Kind : rows[k] # "NONE" THEN UNCHANGED rows ELSE Queue("ABANDONMENT")
  /\ UNCHANGED <<job, fundedAge, payments, logs, contract>>

\* force_abandoned, under the row lock: the state is not looked at again.
ForceAbandoned ==
  /\ pass = "abandoned"
  /\ pass' = "idle"
  /\ IF \E k \in Kind : InFlight(k) THEN UNCHANGED rows ELSE Queue("ABANDONMENT")
  /\ UNCHANGED <<job, fundedAge, payments, logs, contract>>

(***************************************************************************)
(* The contract, and the logs of its calls.                                *)
(***************************************************************************)

\* _executeSplit pays, and emits what it was asked to pay.
Resolves(toCustomer) ==
  logs' = logs \cup {[name |-> "IntentResolved", toCustomer |-> toCustomer,
                      toProvider |-> Total - toCustomer]}

Execute(toCustomer, a, b) ==
  Contract!ExecuteWithSignatures(Intent, toCustomer, a, b) /\ Resolves(toCustomer)

\* Nobody proposes a split to the escrow, so the customer gets everything back.
Abandon == Contract!ExecuteAbandonment(Intent) /\ Resolves(Total)

\* The call of an outbox row.
Call(kind) ==
  \/ kind = "RELEASE" /\ Execute(0, Customer, Arbitrator)
  \/ kind = "SETTLE" /\ Execute(Total - split, Customer, Provider)
  \/ kind = "ABANDONMENT" /\ Abandon

SetRow(kind, status) == rows' = [rows EXCEPT ![kind] = status]

\* send_next: gas estimation runs the call.
Send(kind) ==
  /\ rows[kind] = "QUEUED"
  /\ SetRow(kind, IF ENABLED Call(kind) THEN "SENT" ELSE "FAILED")
  /\ UNCHANGED <<job, fundedAge, pass, payments, logs, contract>>

\* The transaction is mined: it takes effect, or reverts.
Mine(kind) ==
  /\ rows[kind] = "SENT"
  /\ \/ Call(kind) /\ SetRow(kind, "MINED")
     \/ ~ ENABLED Call(kind) /\ SetRow(kind, "FAILED") /\ UNCHANGED <<logs, contract>>
  /\ UNCHANGED <<job, fundedAge, pass, payments>>

\* No receipt appears.
Lose(kind) ==
  /\ rows[kind] = "SENT"
  /\ SetRow(kind, "STUCK")
  /\ UNCHANGED <<job, fundedAge, pass, payments, logs, contract>>

\* A party freezes the intent, with or without a complaint on file.
RaiseDispute(party) ==
  /\ Contract!RaiseDispute(Intent, party)
  /\ logs' = logs \cup {[name |-> "DisputeRaised"]}
  /\ UNCHANGED <<job, fundedAge, rows, pass, payments>>

\* Anybody relays signatures that are out, the parties sign a split of their
\* own, or somebody else closes the abandoned intent.
Relay ==
  /\ \/ rows["RELEASE"] # "NONE" /\ Execute(0, Customer, Arbitrator)
     \/ \E c \in 0 .. Total : Execute(c, Customer, Provider)
     \/ Abandon
  /\ UNCHANGED <<job, fundedAge, rows, pass, payments>>

Tick ==
  /\ Contract!Tick
  /\ fundedAge' = IF fundedAge < ABANDONMENT_TIMEOUT THEN fundedAge + 1 ELSE fundedAge
  /\ UNCHANGED <<job, rows, pass, payments, logs>>

(***************************************************************************)
(* The watcher.                                                            *)
(***************************************************************************)
Handle(log) ==
  /\ log \in logs
  /\ logs' = logs \ {log}
  /\ UNCHANGED <<split, accepted, fundedAge, rows, pass, contract>>

\* mark_open: also of a dispute that is further on.
MarkOpen == dispute' = "OPEN"

\* _dispute_raised
HandleDisputeRaised(log) ==
  /\ log.name = "DisputeRaised"
  /\ Handle(log)
  /\ IF dispute = "NONE" THEN UNCHANGED <<state, dispute>>
     ELSE MarkOpen /\ ApplyIfLegal("DISPUTE_OPENED_ONCHAIN")
  /\ UNCHANGED <<proposal, payments>>

Record(toCustomer, toProvider) ==
  payments' = [toCustomer |-> toCustomer, toProvider |-> toProvider]

\* settlement_view, and what the amounts of a log are compared with.
Mismatch(log) == proposal # "NONE" /\ log.toProvider # split

\* mark_settled
MarkSettled ==
  /\ dispute' = IF dispute = "NONE" THEN "NONE" ELSE "SETTLED"
  /\ proposal' = IF proposal = "NONE" THEN "NONE" ELSE "SETTLED"

\* Fault: the amounts are not compared with the proposal.
SettleAnyAmounts(log) ==
  /\ Record(log.toCustomer, log.toProvider)
  /\ MarkSettled
  /\ ApplyIfLegal("SETTLED_ONCHAIN")

\* Fault: what is recorded as paid is what was proposed.
SettleAsProposed(log) ==
  IF Mismatch(log)
  THEN UNCHANGED <<state, dispute, proposal, payments>>
  ELSE /\ Record(Total - split, split)
       /\ MarkSettled
       /\ ApplyIfLegal("SETTLED_ONCHAIN")

\* The half of _intent_resolved for a customer who gets something back: amounts
\* other than the proposal's are only noted; the rest stays when the state
\* refuses the event.
SettleOnChain(log) ==
  IF Mismatch(log)
  THEN UNCHANGED <<state, dispute, proposal, payments>>
  ELSE /\ Record(log.toCustomer, log.toProvider)
       /\ MarkSettled
       /\ ApplyIfLegal("SETTLED_ONCHAIN")

\* _intent_resolved: everything to the provider is a release.
HandleIntentResolved(log) ==
  /\ log.name = "IntentResolved"
  /\ Handle(log)
  /\ IF log.toCustomer = 0
     THEN /\ Record(0, log.toProvider)
          /\ ApplyIfLegal("RELEASED_ONCHAIN")
          /\ UNCHANGED <<dispute, proposal>>
     ELSE SettleOnChain(log)

Watch == \E log \in logs : HandleDisputeRaised(log) \/ HandleIntentResolved(log)
Reconcile == ReadAbandoned \/ ForceAbandoned \/ ExpireProposal

Next ==
  \/ Deliver \/ ReleaseExecute \/ FileComplaint \/ Escalate
  \/ \E remedy \in Remedies : Propose(remedy)
  \/ \E party \in {Customer, Provider} : Accept(party) \/ Reject(party) \/ RaiseDispute(party)
  \/ ReadDueAcceptance \/ Reconcile
  \/ \E k \in Kind : Send(k) \/ Mine(k) \/ Lose(k)
  \/ Relay \/ Tick
  \/ Watch

Spec == Init /\ [][Next]_vars

(***************************************************************************)
(* Time passes, reconciliation runs, the outbox is drained, logs are read. *)
(* The chain may lose a transaction, but not each one of a kind that is    *)
(* sent again and again.  The parties owe nothing, but the customer does   *)
(* not ask for one release after the other for ever.                       *)
(***************************************************************************)
Fairness ==
  /\ WF_vars(Tick) /\ WF_vars(Reconcile)
  /\ \A k \in Kind : WF_vars(Send(k)) /\ SF_vars(Mine(k))
  /\ WF_vars(Watch)
  /\ <>[][~ ReleaseExecute]_vars

FairSpec == Spec /\ Fairness

(***************************************************************************)
(* Properties.                                                             *)
(***************************************************************************)

\* The end of a job says what the escrow paid: RELEASED everything to the
\* provider, SETTLED the split that was proposed, whoever made the call, and in
\* whatever order the logs were read (chain_events.py:98-119).
EndIsPaid ==
  /\ state = "RELEASED" => ledger[Intent].toProvider = Total
  /\ state = "SETTLED" => ledger[Intent].toProvider = split /\ ledger[Intent].toCustomer = Total - split

\* The payments on file for a resolution are the escrow's, also when the state
\* refused the event after they were written (chain_events.py:106, 114-115, 165).
PaymentsAreTheEscrows ==
  payments # NoPayments =>
    /\ payments.toCustomer = ledger[Intent].toCustomer
    /\ payments.toProvider = ledger[Intent].toProvider

\* What the backend says became of the money is what the escrow did.
BooksAreTheEscrows == EndIsPaid /\ PaymentsAreTheEscrows

\* While the backend handles a dispute, one party and the arbitrator cannot move
\* the money: the escrow is frozen, or the intent is resolved
\* (chain_events.py:67-73).
DisputedIsFrozen ==
  state \in {"DISPUTED", "RESOLVING", "PROPOSED", "ESCALATED"} => escrow[Intent] # "FUNDED"

HoldsMoney == escrow[Intent] # "RESOLVED"

(***************************************************************************)
(* A statement of the documentation that the code does not meet.           *)
(***************************************************************************)

\* "complaint -> respond -> proposal -> accept x2 ... SETTLED" (backend/README.md:53):
\* a settlement both parties accepted is paid and recorded.
AcceptedIsSettled == proposal = "SETTLING" ~> state = "SETTLED"
=============================================================================
