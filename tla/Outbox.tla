------------------------------- MODULE Outbox -------------------------------
(***************************************************************************)
(* The resolver's outbox: backend/app/domains/payments/outbox.py and the   *)
(* loop that drains it, workers/blockchain.py.                             *)
(*                                                                         *)
(* A process runs two tasks that touch the rows.  The sender rechecks the  *)
(* SENT rows once, then sends the oldest QUEUED row, waits for its receipt *)
(* and goes on.  The reconciler rechecks the SENT rows on every pass.  A   *)
(* step ends where the code awaits the chain or commits, so every crash,   *)
(* failed call and interleaving falls between two steps.                   *)
(*                                                                         *)
(* The row being sent is held FOR UPDATE from the choice to the commit:    *)
(* it is the row a sender is "built" or "sent" at.  A block is final here; *)
(* reorganisations are the watcher's subject.  A call is effective once:   *)
(* the contract refuses it afterwards.                                     *)
(*                                                                         *)
(* An operator marked Fault is a plausible error in the function that      *)
(* follows it; nothing uses it but the mutation tests of the properties.   *)
(***************************************************************************)
EXTENDS Integers, Sequences, FiniteSets

CONSTANTS
  Instances,    \* processes that run the workers
  MaxRows,      \* rows the table may reach (bound)
  Retired,      \* rows of kinds this backend no longer sends
  MaxErrors,    \* calls to the chain or the database that fail (bound)
  MaxCrashes    \* process crashes (bound)

ASSUME RowsAssumption == MaxRows \in Nat /\ Retired \subseteq 1 .. MaxRows
ASSUME FaultsAssumption == MaxErrors \in Nat /\ MaxCrashes \in Nat

VARIABLES
  status,    \* chain_txs.status of each row, ABSENT before it is queued
  sentAs,    \* chain_txs.tx_hash: the place in txs of the recorded transaction
  overdue,   \* sent_at is more than stuck_after_seconds ago
  txs,       \* external: transactions the chain was given, in order
  accepts,   \* external: the contract would accept the call of the row
  pc,        \* where each task is
  at,        \* the row each task works on
  todo,      \* rows a recheck has yet to look up
  hash,      \* a sender's local nonce, then tx_hash
  lost,      \* history: transactions of a row whose hash was never recorded
  errors,    \* failed calls so far
  crashes    \* crashes so far

rows == <<status, sentAs, overdue>>
chain == <<txs, accepts>>
tasks == <<pc, at, todo, hash>>
faults == <<lost, errors, crashes>>
vars == <<rows, chain, tasks, faults>>

Rows == 1 .. MaxRows
Status == {"ABSENT", "QUEUED", "SENT", "MINED", "FAILED", "STUCK"}
Sender(p) == <<p, "sender">>
Reconciler(p) == <<p, "reconciler">>
Workers == Instances \X {"sender", "reconciler"}
IsSender(w) == w[2] = "sender"

\* Where a task begins, and where its recheck leaves it.
Beginning(w) == IF IsSender(w) THEN "start" ELSE "idle"
AfterRecheck(w) == IF IsSender(w) THEN "loop" ELSE "idle"

Locked(r) == \E p \in Instances : pc[Sender(p)] \in {"built", "sent"} /\ at[Sender(p)] = r
TxsOf(r) == {h \in DOMAIN txs : txs[h].row = r}
Mined(h) == txs[h].outcome \in {"success", "reverted"}
Succeeded(r) == \E h \in TxsOf(r) : txs[h].outcome = "success"

\* get_transaction_count(address, "pending").
Nonce == Cardinality({h \in DOMAIN txs : txs[h].outcome # "dropped"})

Init ==
  /\ status = [r \in Rows |-> IF r \in Retired THEN "QUEUED" ELSE "ABSENT"]
  /\ sentAs = [r \in Rows |-> 0]
  /\ overdue = [r \in Rows |-> FALSE]
  /\ txs = <<>>
  /\ accepts = [r \in Rows |-> FALSE]
  /\ pc = [w \in Workers |-> Beginning(w)]
  /\ at = [w \in Workers |-> 0]
  /\ todo = [w \in Workers |-> {}]
  /\ hash = [p \in Instances |-> 0]
  /\ lost = [r \in Rows |-> 0]
  /\ errors = 0
  /\ crashes = 0

Goto(w, place, r) ==
  /\ pc' = [pc EXCEPT ![w] = place]
  /\ at' = [at EXCEPT ![w] = r]

\* The local nonce and hash go out of scope.
Forget(p) == hash' = [hash EXCEPT ![p] = 0]

ErrorHappens ==
  /\ errors < MaxErrors
  /\ errors' = errors + 1

SetStatus(r, s) == status' = [status EXCEPT ![r] = s]

(***************************************************************************)
(* queue: the decision of another domain commits together with its row.    *)
(***************************************************************************)
Queue(r, acceptable) ==
  /\ status[r] = "ABSENT"
  /\ \A q \in 1 .. (r - 1) : status[q] # "ABSENT"
  /\ SetStatus(r, "QUEUED")
  /\ accepts' = [accepts EXCEPT ![r] = acceptable]
  /\ UNCHANGED <<sentAs, overdue, txs, tasks, faults>>

(***************************************************************************)
(* send_next.                                                              *)
(***************************************************************************)

\* Fault: with_for_update without its lock, so two senders choose one row.
OldestUnlocked(r) ==
  /\ status[r] = "QUEUED"
  /\ \A q \in 1 .. (r - 1) : status[q] # "QUEUED"

\* The oldest QUEUED row nobody holds (FOR UPDATE SKIP LOCKED LIMIT 1).
Oldest(r) ==
  /\ status[r] = "QUEUED"
  /\ ~ Locked(r)
  /\ \A q \in 1 .. (r - 1) : status[q] = "QUEUED" => Locked(q)

\* Fault: an unknown kind raises instead of failing its row.
RaiseOnRetired(p, r) ==
  /\ pc[Sender(p)] = "loop"
  /\ Oldest(r)
  /\ r \in Retired
  /\ UNCHANGED vars

Retire(p, r) ==
  /\ pc[Sender(p)] = "loop"
  /\ Oldest(r)
  /\ r \in Retired
  /\ SetStatus(r, "FAILED")
  /\ UNCHANGED <<sentAs, overdue, chain, tasks, faults>>

\* Gas estimation runs the call against the latest block.
Refuse(p, r) ==
  /\ pc[Sender(p)] = "loop"
  /\ Oldest(r)
  /\ r \notin Retired
  /\ ~ accepts[r]
  /\ SetStatus(r, "FAILED")
  /\ UNCHANGED <<sentAs, overdue, chain, tasks, faults>>

Build(p, r) ==
  /\ pc[Sender(p)] = "loop"
  /\ Oldest(r)
  /\ r \notin Retired
  /\ accepts[r]
  /\ Goto(Sender(p), "built", r)
  /\ hash' = [hash EXCEPT ![p] = Nonce]
  /\ UNCHANGED <<rows, chain, todo, faults>>

\* The chain takes the transaction when its nonce is still the next one.
Send(p) ==
  LET r == at[Sender(p)] IN
  /\ pc[Sender(p)] = "built"
  /\ Nonce = hash[p]
  /\ txs' = Append(txs, [row |-> r, outcome |-> "pending"])
  /\ Goto(Sender(p), "sent", r)
  /\ hash' = [hash EXCEPT ![p] = Len(txs) + 1]
  /\ UNCHANGED <<rows, accepts, todo, faults>>

\* Any other failure leaves the row QUEUED for the next round.
SendFails(p) ==
  /\ pc[Sender(p)] = "built"
  /\ \/ Nonce # hash[p] /\ UNCHANGED errors
     \/ ErrorHappens
  /\ Goto(Sender(p), "loop", 0)
  /\ Forget(p)
  /\ UNCHANGED <<rows, chain, todo, lost, crashes>>

\* The transaction is out, but its answer or the commit of the row is lost.
AnswerLost(p) ==
  /\ pc[Sender(p)] = "sent"
  /\ ErrorHappens
  /\ Goto(Sender(p), "loop", 0)
  /\ lost' = [lost EXCEPT ![at[Sender(p)]] = @ + 1]
  /\ Forget(p)
  /\ UNCHANGED <<rows, chain, todo, crashes>>

CommitSent(p) ==
  LET r == at[Sender(p)] IN
  /\ pc[Sender(p)] = "sent"
  /\ SetStatus(r, "SENT")
  /\ sentAs' = [sentAs EXCEPT ![r] = hash[p]]
  /\ Goto(Sender(p), "waiting", r)
  /\ Forget(p)
  /\ UNCHANGED <<overdue, chain, todo, faults>>

(***************************************************************************)
(* confirm.                                                                *)
(***************************************************************************)

\* Fault: the receipt's status is not looked at.
RecordAnyReceipt(r) ==
  /\ Mined(sentAs[r])
  /\ SetStatus(r, "MINED")

\* The receipt decides, whatever the row says by then.
RecordReceipt(r) ==
  /\ Mined(sentAs[r])
  /\ SetStatus(r, IF txs[sentAs[r]].outcome = "success" THEN "MINED" ELSE "FAILED")

Confirm(p) ==
  /\ pc[Sender(p)] = "waiting"
  /\ RecordReceipt(at[Sender(p)])
  /\ Goto(Sender(p), "loop", 0)
  /\ UNCHANGED <<sentAs, overdue, chain, todo, hash, faults>>

\* No receipt within 30 seconds, or the call for it fails: the row stays SENT.
ConfirmGivesUp(p) ==
  /\ pc[Sender(p)] = "waiting"
  /\ \/ ~ Mined(sentAs[at[Sender(p)]]) /\ UNCHANGED errors
     \/ ErrorHappens
  /\ Goto(Sender(p), "loop", 0)
  /\ UNCHANGED <<rows, chain, todo, hash, lost, crashes>>

(***************************************************************************)
(* recheck_sent, by the sender before its loop and by every pass of        *)
(* reconciliation.                                                         *)
(***************************************************************************)
BeginRecheck(w) ==
  /\ pc[w] \in {"start", "idle"}
  /\ todo' = [todo EXCEPT ![w] = {r \in Rows : status[r] = "SENT"}]
  /\ pc[w] = "idle" => todo'[w] # {}
  /\ Goto(w, "rechecking", 0)
  /\ UNCHANGED <<rows, chain, hash, faults>>

\* The receipt of a row; a failed call for it counts as none.
LookUp(w, r) ==
  /\ pc[w] = "rechecking"
  /\ r \in todo[w]
  /\ todo' = [todo EXCEPT ![w] = @ \ {r}]
  /\ \/ /\ Mined(sentAs[r])
        /\ Goto(w, "found", r)
        /\ UNCHANGED errors
     \/ /\ \/ ~ Mined(sentAs[r]) /\ UNCHANGED errors
           \/ ErrorHappens
        /\ \/ overdue[r] /\ Goto(w, "givingUp", r)
           \/ ~ overdue[r] /\ UNCHANGED <<pc, at>>
  /\ UNCHANGED <<rows, chain, hash, lost, crashes>>

RecheckConfirms(w) ==
  /\ pc[w] = "found"
  /\ RecordReceipt(at[w])
  /\ Goto(w, "rechecking", 0)
  /\ UNCHANGED <<sentAs, overdue, chain, todo, hash, faults>>

\* Fault: the stuck row is logged but not marked.
LogStuck(w) ==
  /\ pc[w] = "givingUp"
  /\ Goto(w, "rechecking", 0)
  /\ UNCHANGED <<rows, chain, todo, hash, faults>>

\* The row is written without another look at its status.
MarkStuck(w) ==
  /\ pc[w] = "givingUp"
  /\ SetStatus(at[w], "STUCK")
  /\ Goto(w, "rechecking", 0)
  /\ UNCHANGED <<sentAs, overdue, chain, todo, hash, faults>>

EndRecheck(w) ==
  /\ pc[w] = "rechecking"
  /\ todo[w] = {}
  /\ Goto(w, AfterRecheck(w), 0)
  /\ UNCHANGED <<rows, chain, todo, hash, faults>>

\* Reading the rows, or writing one, fails.  Reconciliation catches the error
\* and tries again on its next pass; the sender's recheck is outside its try,
\* and the task ends.
RecheckFails(w) ==
  /\ pc[w] \in {"start", "found", "givingUp"}
  /\ ErrorHappens
  /\ Goto(w, IF IsSender(w) THEN "dead" ELSE "idle", 0)
  /\ todo' = [todo EXCEPT ![w] = {}]
  /\ UNCHANGED <<rows, chain, hash, lost, crashes>>

(***************************************************************************)
(* The environment: the chain, other callers of the contract, time, and    *)
(* the process that runs the tasks.                                        *)
(***************************************************************************)
Mine(h) ==
  LET r == txs[h].row IN
  /\ txs[h].outcome = "pending"
  /\ txs' = [txs EXCEPT ![h].outcome = IF accepts[r] THEN "success" ELSE "reverted"]
  /\ accepts' = [accepts EXCEPT ![r] = FALSE]
  /\ UNCHANGED <<rows, tasks, faults>>

Drop(h) ==
  /\ txs[h].outcome = "pending"
  /\ txs' = [txs EXCEPT ![h].outcome = "dropped"]
  /\ UNCHANGED <<rows, accepts, tasks, faults>>

\* Somebody else's call leaves the contract in a state that refuses this one.
Overtake(r) ==
  /\ accepts[r]
  /\ accepts' = [accepts EXCEPT ![r] = FALSE]
  /\ UNCHANGED <<rows, txs, tasks, faults>>

\* The sender waits for 30 seconds, the recheck for 120.
BecomeOverdue(r) ==
  /\ status[r] = "SENT"
  /\ ~ overdue[r]
  /\ \A p \in Instances : ~ (pc[Sender(p)] = "waiting" /\ at[Sender(p)] = r)
  /\ overdue' = [overdue EXCEPT ![r] = TRUE]
  /\ UNCHANGED <<status, sentAs, chain, tasks, faults>>

\* The process stops and another takes over: what was not committed is gone.
Crash(p) ==
  LET mine == {Sender(p), Reconciler(p)} IN
  /\ crashes < MaxCrashes
  /\ crashes' = crashes + 1
  /\ lost' = [r \in Rows |->
       IF pc[Sender(p)] = "sent" /\ at[Sender(p)] = r THEN lost[r] + 1 ELSE lost[r]]
  /\ pc' = [w \in Workers |-> IF w \in mine THEN Beginning(w) ELSE pc[w]]
  /\ at' = [w \in Workers |-> IF w \in mine THEN 0 ELSE at[w]]
  /\ todo' = [w \in Workers |-> IF w \in mine THEN {} ELSE todo[w]]
  /\ Forget(p)
  /\ UNCHANGED <<rows, chain, errors>>

SendNext(p) ==
  \/ \E r \in Rows : Retire(p, r) \/ Refuse(p, r) \/ Build(p, r)
  \/ Send(p)
  \/ SendFails(p)
  \/ CommitSent(p)
  \/ Confirm(p)
  \/ ConfirmGivesUp(p)

RecheckSent(w) ==
  \/ BeginRecheck(w)
  \/ \E r \in Rows : LookUp(w, r)
  \/ RecheckConfirms(w)
  \/ MarkStuck(w)
  \/ EndRecheck(w)

Next ==
  \/ \E r \in Rows, b \in BOOLEAN : Queue(r, b)
  \/ \E p \in Instances : SendNext(p) \/ AnswerLost(p) \/ Crash(p)
  \/ \E w \in Workers : RecheckSent(w) \/ RecheckFails(w)
  \/ \E h \in DOMAIN txs : Mine(h) \/ Drop(h)
  \/ \E r \in Rows : Overtake(r) \/ BecomeOverdue(r)

Spec == Init /\ [][Next]_vars

(***************************************************************************)
(* The event loop runs every task that can go on, and time passes.  The    *)
(* chain owes nothing: a transaction may stay pending for ever.            *)
(***************************************************************************)
Fairness ==
  /\ \A p \in Instances : WF_vars(SendNext(p))
  /\ \A w \in Workers : WF_vars(RecheckSent(w))
  /\ \A r \in Rows : WF_vars(BecomeOverdue(r))

FairSpec == Spec /\ Fairness

(***************************************************************************)
(* Properties.                                                             *)
(***************************************************************************)

\* A row is sent once, and once more for every time its transaction went out
\* and the hash was lost: neither a second sender nor a recheck sends it again
\* (outbox.py:69-104).
OneTransactionPerLoss == \A r \in Rows : Cardinality(TxsOf(r)) <= 1 + lost[r]

\* The verdict on a row is the chain's: MINED only if its call took effect, and
\* FAILED, unless a transaction of it went missing, only if it did not
\* (outbox.py:91-95, 107-119).
VerdictMatchesChain ==
  \A r \in Rows :
    /\ status[r] = "MINED" => Succeeded(r)
    /\ status[r] = "FAILED" /\ lost[r] = 0 => ~ Succeeded(r)

\* While a sender lives, every queued row is sent or retired, past crashes,
\* failed calls and rows of kinds nobody sends any more.
QueueDrains ==
  \A r \in Rows :
    status[r] = "QUEUED" ~> (status[r] # "QUEUED" \/ \A p \in Instances : pc[Sender(p)] = "dead")

\* A sent row gets a verdict even when its sender died or the process crashed
\* before the receipt (outbox.py:122-141, reconciliation.py:141).
SentRowsAreJudged ==
  \A r \in Rows : status[r] = "SENT" ~> status[r] \in {"MINED", "FAILED", "STUCK"}
=============================================================================
