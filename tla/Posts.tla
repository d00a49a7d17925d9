-------------------------------- MODULE Posts --------------------------------
(***************************************************************************)
(* How a POST that changes a job runs: its Idempotency-Key, its database   *)
(* transaction, the lock of the row and the audit trail it extends         *)
(* (core/idempotency.py, core/db.py, audit/service.py, machine.py).        *)
(*                                                                         *)
(* The key is reserved and completed in the transaction of its request, so *)
(* until that one commits or rolls back nobody else can insert it.  A      *)
(* trail entry stands for its hash.  The unique index over the numbers of  *)
(* a trail is left out: the row lock alone keeps them apart.  Refusals by  *)
(* policy, which write on a second connection, are in RequestLocks.        *)
(*                                                                         *)
(* An operator marked Fault is a plausible error in the function that      *)
(* follows it; nothing uses it but the mutation tests of the properties.   *)
(***************************************************************************)
EXTENDS Naturals, Sequences, FiniteSets

CONSTANTS
  Requests,    \* requests of one user to one route
  Key,         \* Key[r]: its Idempotency-Key, NoKey when the route lets it be left out
  Payload,     \* Payload[r]: what request_hash is of
  NoKey,
  Nothing      \* no answer, no row, no holder

ASSUME KeysAssumption ==
  /\ Nothing \notin Requests
  /\ \A r \in Requests : Nothing # [payload |-> Payload[r], answer |-> r]

VARIABLES
  pc,          \* where each request is
  answer,      \* the request whose answer was returned, or "reuse" or "error"
  record,      \* idempotency_keys as committed
  keyHolder,   \* the request whose uncommitted insert holds the key
  rowHolder,   \* the request that holds the job FOR UPDATE
  read,        \* the audit row each request read last, under the lock
  trail        \* audit_events of the job as committed

vars == <<pc, answer, record, keyHolder, rowHolder, read, trail>>

Keys == {Key[r] : r \in Requests} \ {NoKey}
ZERO_HASH == [seq |-> 0, by |-> Nothing]

Init ==
  /\ pc = [r \in Requests |-> "new"]
  /\ answer = [r \in Requests |-> Nothing]
  /\ record = [k \in Keys |-> Nothing]
  /\ keyHolder = [k \in Keys |-> Nothing]
  /\ rowHolder = Nothing
  /\ read = [r \in Requests |-> ZERO_HASH]
  /\ trail = <<>>

Goto(r, place) == pc' = [pc EXCEPT ![r] = place]

\* The request ends: what it holds is released.
End(r, result) ==
  /\ Goto(r, "done")
  /\ answer' = [answer EXCEPT ![r] = result]
  /\ keyHolder' = [k \in Keys |-> IF keyHolder[k] = r THEN Nothing ELSE keyHolder[k]]
  /\ rowHolder' = IF rowHolder = r THEN Nothing ELSE rowHolder

\* A row that is there answers for itself: another payload is a reuse.
FromRecord(r) == IF record[Key[r]].payload # Payload[r] THEN "reuse" ELSE record[Key[r]].answer
Recorded(r) == Key[r] # NoKey /\ record[Key[r]] # Nothing

\* _completed, in a session of its own.
Completed(r) ==
  /\ pc[r] = "new"
  /\ IF Recorded(r) THEN End(r, FromRecord(r))
     ELSE Goto(r, "preparing") /\ UNCHANGED <<answer, keyHolder, rowHolder>>
  /\ UNCHANGED <<record, read, trail>>

\* prepare: the calls to World and others, with no transaction open.
Prepare(r) ==
  /\ pc[r] = "preparing"
  /\ Goto(r, "prepared")
  /\ UNCHANGED <<answer, record, keyHolder, rowHolder, read, trail>>

\* Fault: whether the insert did anything is not looked at.
ReserveAnyway(r) ==
  /\ pc[r] = "prepared"
  /\ Key[r] # NoKey => keyHolder[Key[r]] = Nothing
  /\ Goto(r, "reserved")
  /\ keyHolder' = IF Key[r] = NoKey THEN keyHolder ELSE [keyHolder EXCEPT ![Key[r]] = r]
  /\ UNCHANGED <<answer, record, rowHolder, read, trail>>

\* Fault: the reservation is committed by itself.
ReserveAlone(r) ==
  /\ pc[r] = "prepared"
  /\ IF Recorded(r) THEN End(r, FromRecord(r)) /\ UNCHANGED record
     ELSE /\ Goto(r, "reserved")
          /\ record' = IF Key[r] = NoKey THEN record
                       ELSE [record EXCEPT ![Key[r]] = [payload |-> Payload[r], answer |-> "empty"]]
          /\ UNCHANGED <<answer, keyHolder, rowHolder>>
  /\ UNCHANGED <<read, trail>>

\* _reserve: the insert waits while another request holds the key; then it finds
\* the completed row, or none.
Reserve(r) ==
  /\ pc[r] = "prepared"
  /\ Key[r] # NoKey => keyHolder[Key[r]] = Nothing
  /\ IF Recorded(r) THEN End(r, FromRecord(r))
     ELSE /\ Goto(r, "reserved")
          /\ keyHolder' = IF Key[r] = NoKey THEN keyHolder ELSE [keyHolder EXCEPT ![Key[r]] = r]
          /\ UNCHANGED <<answer, rowHolder>>
  /\ UNCHANGED <<record, read, trail>>

LastRow == IF trail = <<>> THEN ZERO_HASH ELSE [seq |-> Len(trail), by |-> trail[Len(trail)].by]

\* Fault: the row is read without FOR UPDATE.
LockNothing(r) ==
  /\ pc[r] = "reserved"
  /\ Goto(r, "locked")
  /\ read' = [read EXCEPT ![r] = LastRow]
  /\ UNCHANGED <<answer, record, keyHolder, rowHolder, trail>>

\* lock, and the first read of append.
Lock(r) ==
  /\ pc[r] = "reserved"
  /\ rowHolder = Nothing
  /\ rowHolder' = r
  /\ Goto(r, "locked")
  /\ read' = [read EXCEPT ![r] = LastRow]
  /\ UNCHANGED <<answer, record, keyHolder, trail>>

\* append: the next number, chained to the row read.
Append1(r) == Append(trail, [seq |-> read[r].seq + 1, prev |-> read[r], by |-> r])

\* The end of execute: the effect, its audit row and the completed key commit together.
Commit(r) ==
  /\ pc[r] = "locked"
  /\ trail' = Append1(r)
  /\ record' = IF Key[r] = NoKey THEN record
               ELSE [record EXCEPT ![Key[r]] = [payload |-> Payload[r], answer |-> r]]
  /\ End(r, r)
  /\ UNCHANGED read

\* session_scope: an error, or the end of the process, rolls everything back.
Fail(r) ==
  /\ pc[r] \in {"preparing", "prepared", "reserved", "locked"}
  /\ End(r, "error")
  /\ UNCHANGED <<record, read, trail>>

Next ==
  \E r \in Requests :
    Completed(r) \/ Prepare(r) \/ Reserve(r) \/ Lock(r) \/ Commit(r) \/ Fail(r)

Spec == Init /\ [][Next]_vars

(***************************************************************************)
(* Properties.                                                             *)
(***************************************************************************)

Effects == {trail[n].by : n \in DOMAIN trail}

\* Two requests with one key never both take effect.
EffectOnce ==
  \A q, r \in Effects : q # r => Key[q] = NoKey \/ Key[q] # Key[r]

\* An answer is that of the request with this key that took effect, for the same payload.
AnswersAreTheirs ==
  \A r \in Requests :
    answer[r] \notin {Nothing, "reuse", "error"} =>
      /\ answer[r] \in Effects
      /\ Payload[answer[r]] = Payload[r]
      /\ answer[r] # r => Key[answer[r]] = Key[r]

\* However requests race with each other and with a rollback, one of those with a
\* key takes effect, and the others get its answer: neither a stranger's nor one
\* that was never given (idempotency.py:26-73).
KeysAreIdempotent == EffectOnce /\ AnswersAreTheirs

\* verify_chain
VerifyChain(events) ==
  \A n \in DOMAIN events :
    /\ events[n].seq = n
    /\ events[n].prev = IF n = 1 THEN ZERO_HASH ELSE [seq |-> n - 1, by |-> events[n - 1].by]

\* The trail of a job is one chain without a gap or a fork, and says exactly
\* what took effect (audit/service.py:21-51).
TrailIsChained == VerifyChain(trail) /\ Cardinality(Effects) = Len(trail)
=============================================================================
