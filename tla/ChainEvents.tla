---------------------------- MODULE ChainEvents ----------------------------
(***************************************************************************)
(* How money reaches a job: the fund calls the API hands out, the wallets  *)
(* that send these or others and report hashes, and the watcher that turns *)
(* escrow logs into state (orchestration/chain_events.py, domains/payments,*)
(* the funding half of domains/transactions and of reconciliation).        *)
(*                                                                         *)
(* A route, a log handler and a reconciliation item are one database       *)
(* transaction under the row lock each, and one action here.  handle_log   *)
(* inserts the log's primary key first, so of two concurrent readers of a  *)
(* log one waits and then finds it, or fails: handling is one step.        *)
(*                                                                         *)
(* The chain is external.  Transactions are numbered as they are sent, and *)
(* the number is the hash.  One enters the chain, with one escrow log, or  *)
(* fails to when it is sent: until then nobody can read anything of it,    *)
(* and confirmations only delay the sweep.  Blocks are final.  FUNDED      *)
(* stands for itself and the states after it.                              *)
(*                                                                         *)
(* An operator marked Fault is a plausible error in the function that      *)
(* follows it; nothing uses it but the mutation tests of the properties.   *)
(***************************************************************************)
EXTENDS Integers, Sequences, FiniteSetsExt, Machine

CONSTANTS
  Jobs,         \* rows of transactions that are approved
  NoJob,        \* no row
  Amounts,      \* amounts a job may be for; they are only compared (bound)
  LogRange,     \* log_range_blocks: logs a poll reads at most
  MaxTxs,       \* transactions the wallets send (bound)
  MaxFailed,    \* those of them that fail (bound)
  Terms,        \* whose terms the createIntents have; nothing reads them (bound)
  Released,     \* hashes that may be reported by the release route (bound)
  Submitted     \* and by the deliver route (bound)

ASSUME JobsAssumption == NoJob \notin Jobs
ASSUME LimitsAssumption == LogRange \in Nat \ {0} /\ MaxTxs \in Nat /\ MaxFailed \in Nat
ASSUME TermsAssumption == Terms \subseteq Jobs \cup {NoJob}

VARIABLES
  jobState,       \* transactions.state
  amount,      \* transactions.amount_minor
  intentOf,    \* transactions.escrow_intent_id, 0 for none
  expired,     \* the authorization's expires_at has passed
  offered,     \* history: the intents whose fundIntent the API has handed out
  payment,     \* payments, by direction and hash
  seen,        \* blockchain_events, by hash
  cursor,      \* kv_cursors.watcher_block: the first log not yet swept
  sweep,       \* where poll_once is: the next log and the last of its range
  sent,        \* external: the number of transactions sent
  logs,        \* external: the escrow logs, in the order of the chain
  fundedBy,    \* history: the intent whose funding moved the job to FUNDED
  skipped      \* history: logs the sweep jumped over, by hash

jobRows == <<jobState, amount, intentOf, expired>>
chain == <<sent, logs>>
watcher == <<cursor, sweep, skipped>>
fundingVars == <<jobRows, offered, payment, seen, chain, watcher, fundedBy>>

Hashes == 1 .. MaxTxs
Idle == [next |-> 0, last |-> 0]
\* What a hash may be reported as: by the routes fund, release and deliver.
Directions == {"FUND", "RELEASE", "SUBMIT"}
\* A row of payments, or none.
Payment == [job : Jobs \cup {NoJob}, status : {"NONE", "PENDING", "CONFIRMED"}]
NoPayment == [job |-> NoJob, status |-> "NONE"]
\* A log: the intent, whether its customer, provider and token are those of a job
\* (NoJob: of none), and its amount.
Log == [hash : Hashes, name : {"IntentCreated", "IntentFunded"}, intent : Nat \ {0},
        terms : Jobs \cup {NoJob}, amount : Amounts]

Sent == 1 .. sent
Logs == {logs[n] : n \in DOMAIN logs}
Created == {e \in Logs : e.name = "IntentCreated"}
FundedOnChain(i) == \E e \in Logs : e.name = "IntentFunded" /\ e.intent = i
\* has_pending_funding: a hash reported by another route does not count.
HasPendingFunding(j) == \E h \in Hashes : payment["FUND"][h] = [job |-> j, status |-> "PENDING"]

FundingInit ==
  /\ jobState = [j \in Jobs |-> "AUTHORIZED"]
  /\ amount \in [Jobs -> Amounts]
  /\ intentOf = [j \in Jobs |-> 0]
  /\ expired = [j \in Jobs |-> FALSE]
  /\ offered = [j \in Jobs |-> {}]
  /\ payment = [d \in Directions |-> [h \in Hashes |-> NoPayment]]
  /\ seen = {}
  /\ cursor = 1
  /\ sweep = Idle
  /\ sent = 0
  /\ logs = <<>>
  /\ fundedBy = [j \in Jobs |-> 0]
  /\ skipped = {}

\* machine.apply; an event the table refuses raises instead.
ApplyTo(j, event) ==
  /\ Can(jobState[j], event)
  /\ jobState' = [jobState EXCEPT ![j] = NextState(jobState[j], event)]

(***************************************************************************)
(* The routes, and the expiry of reconciliation.                           *)
(***************************************************************************)

\* fund_calls: policy lets AUTHORIZED and FUNDING pass while the authorization
\* stands; the escrow's id decides which of the two calls is returned.
FundCalls(j) ==
  /\ jobState[j] \in {"AUTHORIZED", "FUNDING"}
  /\ ~ expired[j]
  /\ IF jobState[j] = "AUTHORIZED" THEN ApplyTo(j, "FUNDING_STARTED") ELSE UNCHANGED jobState
  /\ offered' = [offered EXCEPT ![j] = @ \cup ({intentOf[j]} \ {0})]
  /\ UNCHANGED <<amount, intentOf, expired, payment, seen, chain, watcher, fundedBy>>

\* report_chain_tx, as each of the three routes calls it: whatever the job's state,
\* and whatever the hash is of.
Report(j, d, h) ==
  /\ h \in Sent
  /\ payment[d][h].status = "NONE"
  /\ d = "RELEASE" => h \in Released
  /\ d = "SUBMIT" => h \in Submitted
  /\ payment' = [payment EXCEPT ![d][h] = [job |-> j, status |-> "PENDING"]]
  /\ UNCHANGED <<jobRows, offered, seen, chain, watcher, fundedBy>>

\* Fault: a reported hash does not stand against cancelling.
CancelAnyTime(j) ==
  /\ ApplyTo(j, "DECLINED")
  /\ UNCHANGED <<amount, intentOf, expired, offered, payment, seen, chain, watcher, fundedBy>>

\* cancel: not while a hash reported as a funding is unconfirmed.
Cancel(j) ==
  /\ ~ HasPendingFunding(j)
  /\ ApplyTo(j, "DECLINED")
  /\ UNCHANGED <<amount, intentOf, expired, offered, payment, seen, chain, watcher, fundedBy>>

\* expire_authorizations, for one row.
ExpireAuthorization(j) ==
  /\ jobState[j] \in {"AUTHORIZED", "FUNDING"}
  /\ expired[j]
  /\ ~ HasPendingFunding(j)
  /\ ApplyTo(j, "AUTHORIZATION_EXPIRED")
  /\ UNCHANGED <<amount, intentOf, expired, offered, payment, seen, chain, watcher, fundedBy>>

(***************************************************************************)
(* handle_log.                                                             *)
(***************************************************************************)

\* Fault: the handlers do not compare the amount.
AnyAmount(j, e) == TRUE

\* The amount of the log is the amount that was authorised.  No other field of a
\* log is compared with the job.
AmountMatches(j, e) == e.amount = amount[j]

\* transaction_for_reported_tx: a job the hash was reported for, as whatever; of
\* two rows, either.
JobsReporting(h) == {payment[d][h].job : d \in Directions} \ {NoJob}

\* lock_by_intent_id: the job an id is bound to.
JobsBoundTo(i) == {j \in Jobs : intentOf[j] = i}

\* bind_intent_id: whatever the job's state, and over an id it had.
BindIntentId(j, i) == intentOf' = [intentOf EXCEPT ![j] = i]

\* _intent_created
IntentCreated(e) ==
  /\ e.name = "IntentCreated"
  /\ \/ JobsReporting(e.hash) = {} /\ UNCHANGED intentOf
     \/ \E j \in JobsReporting(e.hash) :
          IF AmountMatches(j, e) THEN BindIntentId(j, e.intent) ELSE UNCHANGED intentOf
  /\ UNCHANGED <<jobState, payment, fundedBy>>

\* payments.record: the funding row of the hash, or a new one.
RecordPayment(h, j) ==
  payment' = [payment EXCEPT !["FUND"][h] =
    [job |-> IF @.job = NoJob THEN j ELSE @.job, status |-> "CONFIRMED"]]

\* _intent_funded.  A state that refuses the event leaves the payment it recorded.
IntentFunded(e) ==
  LET bound == JobsBoundTo(e.intent) IN
  /\ e.name = "IntentFunded"
  /\ UNCHANGED intentOf
  /\ \/ /\ \A j \in bound : ~ AmountMatches(j, e)
        /\ UNCHANGED <<jobState, payment, fundedBy>>
     \/ \E j \in bound :
          /\ AmountMatches(j, e)
          /\ RecordPayment(e.hash, j)
          /\ \/ /\ ApplyTo(j, "FUNDED_ONCHAIN")
                /\ fundedBy' = [fundedBy EXCEPT ![j] = e.intent]
             \/ /\ ~ Can(jobState[j], "FUNDED_ONCHAIN")
                /\ UNCHANGED <<jobState, fundedBy>>

\* record_event: the row of the log, if it is new.
RecordEvent(e) == seen' = seen \cup {e.hash}

\* Fault: a log whose job is not known yet is not recorded, and raises.
InsistOnJob(e) ==
  /\ e.hash \notin seen => (e.name = "IntentCreated" => JobsReporting(e.hash) # {})
  /\ RecordEvent(e)
  /\ IF e.hash \in seen
     THEN UNCHANGED <<jobState, intentOf, payment, fundedBy>>
     ELSE IntentCreated(e) \/ IntentFunded(e)
  /\ UNCHANGED <<amount, expired, offered, chain>>

\* A log that was recorded before changes nothing; any other is recorded, also
\* when no job or a refusal makes it change nothing.
HandleFundingLog(e) ==
  /\ RecordEvent(e)
  /\ IF e.hash \in seen
     THEN UNCHANGED <<jobState, intentOf, payment, fundedBy>>
     ELSE IntentCreated(e) \/ IntentFunded(e)
  /\ UNCHANGED <<amount, expired, offered, chain>>

(***************************************************************************)
(* The readers of logs.                                                    *)
(***************************************************************************)

\* receipt_logs, without waiting for confirmations.
ReceiptLogs(e) ==
  /\ HandleFundingLog(e)
  /\ UNCHANGED watcher

\* unobserved_reported_hashes: reported, and no log of it has been seen.
Unobserved(h) == h \notin seen /\ \E d \in Directions : payment[d][h].status = "PENDING"

\* observe_reported, and the internal webhook, which is told any hash.
ObserveReported(e) == Unobserved(e.hash) /\ ReceiptLogs(e)
Webhook(e) == ReceiptLogs(e)

\* Fault: the sweep starts after the cursor.
BeginPollLate ==
  /\ sweep = Idle
  /\ cursor <= Len(logs)
  /\ sweep' = [next |-> cursor + 1, last |-> Min({Len(logs), cursor + LogRange - 1})]
  /\ UNCHANGED <<jobRows, offered, payment, seen, chain, cursor, skipped, fundedBy>>

\* poll_once: the range is fixed before its logs are handled one by one.
BeginPoll ==
  /\ sweep = Idle
  /\ cursor <= Len(logs)
  /\ sweep' = [next |-> cursor, last |-> Min({Len(logs), cursor + LogRange - 1})]
  /\ UNCHANGED <<jobRows, offered, payment, seen, chain, cursor, skipped, fundedBy>>

\* handle_raw_log of the next log of the range.
SweepLog ==
  /\ sweep # Idle
  /\ sweep.next <= sweep.last
  /\ HandleFundingLog(logs[sweep.next])
  /\ sweep' = [sweep EXCEPT !.next = @ + 1]
  /\ UNCHANGED <<cursor, skipped>>

\* _set_cursor
SetCursor(position) == cursor' = position

\* Fault: the cursor moves although the poll did not finish.
EndAnyPoll ==
  /\ sweep # Idle
  /\ SetCursor(sweep.last + 1)
  /\ sweep' = Idle
  /\ UNCHANGED <<jobRows, offered, payment, seen, chain, skipped, fundedBy>>

EndPoll ==
  /\ sweep # Idle
  /\ sweep.next > sweep.last
  /\ SetCursor(sweep.last + 1)
  /\ sweep' = Idle
  /\ UNCHANGED <<jobRows, offered, payment, seen, chain, skipped, fundedBy>>

\* An error, or the end of the process: the next poll starts at the cursor.
PollFails ==
  /\ sweep # Idle
  /\ sweep' = Idle
  /\ UNCHANGED <<jobRows, offered, payment, seen, chain, cursor, skipped, fundedBy>>

\* The node no longer has the range: the sweep resumes at the last log.
SkipPruned ==
  /\ sweep = Idle
  /\ cursor <= Len(logs)
  /\ skipped' = skipped \cup {logs[n].hash : n \in cursor .. (Len(logs) - 1)}
  /\ SetCursor(Len(logs))
  /\ UNCHANGED <<jobRows, offered, payment, seen, chain, sweep, fundedBy>>

(***************************************************************************)
(* The wallets, the chain and time.                                        *)
(***************************************************************************)

\* A wallet may send the createIntent it was handed, at any time and more than
\* once, or one of other terms; fundIntent is open to anybody.
Land(e) ==
  /\ sent < MaxTxs
  /\ sent' = sent + 1
  /\ logs' = Append(logs, e)
  /\ UNCHANGED <<jobRows, offered, payment, seen, watcher, fundedBy>>

\* The contract hands out the next id.
CreateIntent(terms, a) ==
  /\ terms \in Jobs => a = amount[terms]
  /\ Land([hash |-> sent + 1, name |-> "IntentCreated", intent |-> Cardinality(Created) + 1,
           terms |-> terms, amount |-> a])

\* It takes the money of an intent once, and all of it.
FundIntent(e) ==
  /\ ~ FundedOnChain(e.intent)
  /\ Land([e EXCEPT !.hash = sent + 1, !.name = "IntentFunded"])

\* A transaction that reverts or is dropped.
SendFails ==
  /\ sent < MaxTxs
  /\ sent - Len(logs) < MaxFailed
  /\ sent' = sent + 1
  /\ UNCHANGED <<logs, jobRows, offered, payment, seen, watcher, fundedBy>>

DeadlinePasses(j) ==
  /\ ~ expired[j]
  /\ expired' = [expired EXCEPT ![j] = TRUE]
  /\ UNCHANGED <<jobState, amount, intentOf, offered, payment, seen, chain, watcher, fundedBy>>

Poll == BeginPoll \/ SweepLog \/ EndPoll

FundingNext ==
  \/ \E j \in Jobs :
       \/ FundCalls(j)
       \/ Cancel(j)
       \/ ExpireAuthorization(j)
       \/ DeadlinePasses(j)
       \/ \E d \in Directions, h \in Hashes : Report(j, d, h)
  \/ \E terms \in Terms, a \in Amounts : CreateIntent(terms, a)
  \/ \E e \in Created : FundIntent(e)
  \/ SendFails
  \/ \E e \in Logs : ObserveReported(e) \/ Webhook(e)
  \/ Poll \/ PollFails \/ SkipPruned

FundingSpec == FundingInit /\ [][FundingNext]_fundingVars

(***************************************************************************)
(* The watcher polls for ever, and not every poll fails: from some time on *)
(* polls finish.  The fast path, the wallets and the customer owe nothing. *)
(***************************************************************************)
FundingFairSpec == FundingSpec /\ WF_fundingVars(Poll) /\ <>[][~ PollFails]_fundingVars

(***************************************************************************)
(* Properties.                                                             *)
(***************************************************************************)

\* Every variable keeps its type, and what is in the chain was sent.
FundingTypeOK ==
  /\ jobState \in [Jobs -> {"AUTHORIZED", "FUNDING", "FUNDED", "CANCELLED"}]
  /\ amount \in [Jobs -> Amounts]
  /\ intentOf \in [Jobs -> Nat]
  /\ expired \in [Jobs -> BOOLEAN]
  /\ offered \in [Jobs -> SUBSET (Nat \ {0})]
  /\ payment \in [Directions -> [Hashes -> Payment]]
  /\ seen \subseteq Hashes
  /\ cursor \in Nat
  /\ sweep \in [next : Nat, last : Nat]
  /\ sent \in 0 .. MaxTxs
  /\ logs \in Seq(Log)
  /\ \A e \in Logs : e.hash \in Sent
  /\ fundedBy \in [Jobs -> Nat]

\* The hash of the intent's createIntent was reported for the job; and by another
\* route than fund.
ReportedAs(d, j, i) == \E e \in Created : e.intent = i /\ payment[d][e.hash].job = j
ReportedElsewhere(j, i) == \E d \in Directions \ {"FUND"} : ReportedAs(d, j, i)

\* A job counts as funded only when the escrow took exactly its amount for an
\* intent that was reported for this job, and no intent funds two jobs, whatever
\* was reported for which job, read twice or bound again later.  Whose money it is
\* and whom the intent will pay is not promised: see FundedAsAgreed
\* (chain_events.py:39-64).
FundedIsBacked ==
  \A j \in Jobs : jobState[j] = "FUNDED" =>
    /\ \E e \in Logs : e.name = "IntentFunded" /\ e.intent = fundedBy[j] /\ e.amount = amount[j]
    /\ \E d \in Directions : ReportedAs(d, j, fundedBy[j])
    /\ \A k \in Jobs \ {j} : jobState[k] = "FUNDED" => fundedBy[k] # fundedBy[j]

\* The sweep loses no log: what lies before the cursor was handled, or the node
\* had pruned it, through polls that fail or die half way (chain_events.py:228-250).
NoLogLost == \A n \in 1 .. (cursor - 1) : logs[n].hash \in seen \cup skipped

\* A job whose wallet was told to fund an intent is neither cancelled nor expired
\* afterwards, unless the intent was also reported by another route than fund: the
\* hash that bound it is a funding that stays unconfirmed, and stands against both
\* (transactions/service.py:137-144, payments/service.py:36-38).
OfferedStands ==
  \A j \in Jobs : jobState[j] = "CANCELLED" => \A i \in offered[j] : ReportedElsewhere(j, i)

\* The money of a job that is being funded is noticed: an IntentFunded log that is
\* read after the job was bound to its intent ends FUNDING, unless the job is bound
\* to another intent meanwhile.
IsBoundTo(j, h) == \E e \in Logs : e.hash = h /\ e.intent = intentOf[j]
Unnoticed(j, h) ==
  /\ jobState[j] = "FUNDING" /\ IsBoundTo(j, h)
  /\ h \notin seen
  /\ \E e \in Logs : e.hash = h /\ e.name = "IntentFunded"
FundingIsRecorded ==
  \A j \in Jobs, h \in Hashes :
    Unnoticed(j, h) ~> jobState[j] # "FUNDING" \/ ~ IsBoundTo(j, h) \/ h \in skipped

\* A createIntent whose hash is reported before its log is read gets its job
\* bound, however late the sweep is, unless another job reports it too.
ReportedUnread(j, h) ==
  /\ h \notin seen
  /\ JobsReporting(h) = {j}
  /\ \E e \in Created : e.hash = h /\ AmountMatches(j, e)
ReportedIntentIsBound ==
  \A j \in Jobs, h \in Hashes :
    ReportedUnread(j, h) ~> IsBoundTo(j, h) \/ h \in skipped \/ JobsReporting(h) # {j}

(***************************************************************************)
(* Statements of the documentation that the code does not meet.            *)
(***************************************************************************)

\* "A funding tx that reverts or never lands can still be cancelled; so can
\* anything before money moves" (states.py:82): what stands against cancelling a
\* job goes away, or the job's money does reach the escrow.
UnfundedCanBeCancelled ==
  \A j \in Jobs :
    jobState[j] \in PRE_FUNDING ~>
      \/ ~ HasPendingFunding(j)
      \/ jobState[j] \notin PRE_FUNDING
      \/ FundedOnChain(intentOf[j])

\* "Money states commit on chain events only [...] after checking every field of
\* the event" (backend/README.md:60-61): the intent that funds a job has the
\* customer, the provider and the token of the job.
FundedAsAgreed ==
  \A j \in Jobs, e \in Logs :
    jobState[j] = "FUNDED" /\ e.name = "IntentFunded" /\ e.intent = fundedBy[j] => e.terms = j
=============================================================================
