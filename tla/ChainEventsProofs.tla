------------------------- MODULE ChainEventsProofs -------------------------
(***************************************************************************)
(* For any jobs, amounts, terms, reported hashes and polls that fail: a    *)
(* job is funded by the amount it is for, in an intent that was reported   *)
(* for it and funds no other; a job that was told to fund stays open,      *)
(* unless its intent was reported by another route as well; and the sweep  *)
(* passes no log by.                                                       *)
(*                                                                         *)
(* The invariant follows an intent from the one log that tells of its      *)
(* creation to the one that tells of its funding.  A hash that bound an    *)
(* intent to its job as a funding stays unconfirmed for ever, because only *)
(* a log of a funding confirms one, and a transaction has one log here:    *)
(* that is what keeps the job from being cancelled (Stands).               *)
(***************************************************************************)
EXTENDS ChainEvents, FiniteSetTheorems, SequenceTheorems, TLAPS

Funds(e, i) == e \in Logs /\ e.name = "IntentFunded" /\ e.intent = i
Pending(j) == [job |-> j, status |-> "PENDING"]

\* The intent was reported for the job, and a report as a funding still stands.
Stands(j, i) ==
  \E e \in Created :
    /\ e.intent = i
    /\ \/ payment["FUND"][e.hash] = Pending(j)
       \/ \E d \in Directions \ {"FUND"} : payment[d][e.hash].job = j

\* A transaction has one log; the chain gives every intent an id of its own, and
\* takes its money once.
ChainOK ==
  /\ \A e \in Created : e.intent \in 1 .. Cardinality(Created)
  /\ \A e, f \in Logs : e.name = f.name /\ e.intent = f.intent => e = f
  /\ \A e, f \in Logs : e.hash = f.hash => e = f

\* Only a log that funds confirms a funding.
PaymentsOK ==
  /\ \A d \in Directions, h \in Hashes : payment[d][h].status = "NONE" <=> payment[d][h].job = NoJob
  /\ \A h \in Hashes : payment["FUND"][h].status = "CONFIRMED" =>
       \E e \in Logs : e.hash = h /\ e.name = "IntentFunded"

\* The intent a job is bound to was reported for it.
BoundOK == \A j \in Jobs : intentOf[j] # 0 => Stands(j, intentOf[j])

\* So was the intent a job was told to fund; when the job is closed, by another route.
OfferedOK ==
  \A j \in Jobs : \A i \in offered[j] :
    /\ Stands(j, i)
    /\ jobState[j] = "CANCELLED" => ReportedElsewhere(j, i)

\* A funded job has a log that was handled, of its amount and of nobody else's.
Backed(j) ==
  /\ \E e \in Logs : e.hash \in seen /\ Funds(e, fundedBy[j]) /\ e.amount = amount[j]
  /\ \E d \in Directions : ReportedAs(d, j, fundedBy[j])
FundedOK ==
  \A j \in Jobs : jobState[j] = "FUNDED" =>
    /\ Backed(j)
    /\ \A k \in Jobs \ {j} : jobState[k] = "FUNDED" => fundedBy[k] # fundedBy[j]

\* What lies before the cursor, or before the next log of the sweep, was handled.
SweepOK ==
  /\ cursor >= 1 /\ cursor <= Len(logs) + 1
  /\ \A n \in 1 .. (cursor - 1) : logs[n].hash \in seen \cup skipped
  /\ sweep # Idle =>
       /\ cursor <= sweep.next /\ sweep.next <= Len(logs) + 1 /\ sweep.last <= Len(logs)
       /\ \A n \in 1 .. (sweep.next - 1) : logs[n].hash \in seen \cup skipped

RowsOK == FundingTypeOK /\ ChainOK /\ PaymentsOK /\ BoundOK /\ OfferedOK /\ FundedOK
ChainInv == RowsOK /\ SweepOK

JobState == {"AUTHORIZED", "FUNDING", "FUNDED", "CANCELLED"}

\* The rows of the table for a job that is funded or cancelled.
LEMMA Table ==
  \A move \in TRANSITIONS :
    /\ move[2] = "FUNDING_STARTED" => move[1] = "AUTHORIZED" /\ move[3] = "FUNDING"
    /\ move[2] = "FUNDED_ONCHAIN" => move[1] = "FUNDING" /\ move[3] = "FUNDED"
    /\ move[2] \in {"DECLINED", "AUTHORIZATION_EXPIRED"} =>
         move[1] \in PRE_FUNDING /\ move[3] = "CANCELLED"
BY DEF TRANSITIONS

\* What an event does to the state of a job.
LEMMA Applied ==
  ASSUME FundingTypeOK, NEW j \in Jobs, NEW event, ApplyTo(j, event)
  PROVE  /\ \A k \in Jobs \ {j} : jobState'[k] = jobState[k]
         /\ event = "FUNDING_STARTED" =>
              jobState[j] = "AUTHORIZED" /\ jobState'[j] = "FUNDING" /\ jobState' \in [Jobs -> JobState]
         /\ event = "FUNDED_ONCHAIN" =>
              jobState[j] = "FUNDING" /\ jobState'[j] = "FUNDED" /\ jobState' \in [Jobs -> JobState]
         /\ event \in {"DECLINED", "AUTHORIZATION_EXPIRED"} =>
              jobState[j] # "FUNDED" /\ jobState'[j] = "CANCELLED" /\ jobState' \in [Jobs -> JobState]
<1>1. PICK move \in TRANSITIONS :
        move[1] = jobState[j] /\ move[2] = event /\ move[3] = NextState(jobState[j], event)
  BY DEF ApplyTo, Can, NextState
<1>2. jobState' = [jobState EXCEPT ![j] = move[3]]
  BY <1>1 DEF ApplyTo
<1>3. jobState \in [Jobs -> JobState]
  BY DEF FundingTypeOK, JobState
<1>4. /\ move[2] = "FUNDING_STARTED" => move[1] = "AUTHORIZED" /\ move[3] = "FUNDING"
      /\ move[2] = "FUNDED_ONCHAIN" => move[1] = "FUNDING" /\ move[3] = "FUNDED"
      /\ move[2] \in {"DECLINED", "AUTHORIZATION_EXPIRED"} => move[1] # "FUNDED" /\ move[3] = "CANCELLED"
  BY <1>1, Table DEF PRE_FUNDING
<1> QED
  BY <1>1, <1>2, <1>3, <1>4 DEF JobState

\* There are finitely many logs, and each has the hash of a transaction.
LEMMA LogsTyped == ASSUME FundingTypeOK PROVE Logs \subseteq Log /\ IsFiniteSet(Logs) /\ Sent \subseteq Hashes
<1>1. Logs \subseteq Log
  BY DEF FundingTypeOK, Logs
<1>2. IsFiniteSet(Logs)
  <2>1. DOMAIN logs = 1 .. Len(logs) /\ Len(logs) \in Nat
    BY DEF FundingTypeOK
  <2>2. IsFiniteSet(DOMAIN logs)
    BY <2>1, FS_Interval
  <2>3. logs \in Surjection(DOMAIN logs, Logs)
    BY DEF FundingTypeOK, Logs, Surjection
  <2> QED
    BY <2>2, <2>3, FS_Surjection
<1>3. Sent \subseteq Hashes
  BY LimitsAssumption DEF FundingTypeOK, Sent, Hashes
<1> QED
  BY <1>1, <1>2, <1>3

\* Nothing was sent, offered or read.
LEMMA ChainInvInit == FundingInit => ChainInv
<1> SUFFICES ASSUME FundingInit PROVE ChainInv
  OBVIOUS
<1>1. Logs = {} /\ Created = {} /\ Len(logs) = 0
  BY DEF FundingInit, Logs, Created
<1>2. FundingTypeOK
  <2>1. logs \in Seq(Log)
    BY DEF FundingInit
  <2>2. sent \in 0 .. MaxTxs
    BY LimitsAssumption DEF FundingInit
  <2>3. payment \in [Directions -> [Hashes -> Payment]]
    BY DEF FundingInit, NoPayment, Payment
  <2> QED
    BY <1>1, <2>1, <2>2, <2>3 DEF FundingInit, FundingTypeOK, Idle
<1>3. ChainOK
  BY <1>1 DEF ChainOK
<1>4. PaymentsOK
  BY DEF FundingInit, PaymentsOK, NoPayment, Directions
<1>5. BoundOK /\ OfferedOK /\ FundedOK
  BY DEF FundingInit, BoundOK, OfferedOK, FundedOK
<1>6. SweepOK
  BY <1>1 DEF FundingInit, SweepOK
<1> QED
  BY <1>2, <1>3, <1>4, <1>5, <1>6 DEF ChainInv, RowsOK

(***************************************************************************)
(* Steps that leave most of it alone.                                      *)
(***************************************************************************)

\* What is said of an intent depends on the logs and the payments only.
LEMMA SameReports ==
  ASSUME UNCHANGED <<payment, logs>>
  PROVE  /\ Logs' = Logs /\ Created' = Created
         /\ \A e, i : Funds(e, i)' = Funds(e, i)
         /\ \A j, i : Stands(j, i)' = Stands(j, i)
         /\ \A d, j, i : ReportedAs(d, j, i)' = ReportedAs(d, j, i)
         /\ \A j, i : ReportedElsewhere(j, i)' = ReportedElsewhere(j, i)
<1>1. Logs' = Logs /\ Created' = Created
  BY DEF Logs, Created
<1> QED
  BY <1>1 DEF Funds, Stands, ReportedAs, ReportedElsewhere, Directions

\* The watcher's own steps do not touch the rows.
LEMMA RowsKept ==
  ASSUME RowsOK, UNCHANGED <<jobRows, offered, payment, seen, chain, fundedBy>>,
         cursor' \in Nat, sweep' \in [next : Nat, last : Nat]
  PROVE  RowsOK'
<1>1. /\ UNCHANGED <<jobState, amount, intentOf, expired, offered, payment, seen, sent, logs, fundedBy>>
      /\ Sent' = Sent
  BY DEF jobRows, chain, Sent
<1>2. FundingTypeOK' /\ ChainOK' /\ PaymentsOK'
  BY <1>1, SameReports DEF RowsOK, FundingTypeOK, ChainOK, PaymentsOK
<1>3. BoundOK' /\ OfferedOK'
  BY <1>1, SameReports DEF RowsOK, BoundOK, OfferedOK
<1>4. FundedOK'
  BY <1>1, SameReports DEF RowsOK, FundedOK, Backed
<1> QED
  BY <1>2, <1>3, <1>4 DEF RowsOK

\* Other steps do not touch the watcher: logs are only added, and only handled.
LEMMA SweepKept ==
  ASSUME FundingTypeOK, SweepOK, UNCHANGED watcher, seen \subseteq seen',
         \/ UNCHANGED logs
         \/ \E h : logs' = Append(logs, h)
  PROVE  SweepOK'
<1>1. Len(logs) \in Nat /\ cursor \in Nat /\ sweep.next \in Nat /\ sweep.last \in Nat
  BY DEF FundingTypeOK
<1>2. /\ Len(logs') \in Nat /\ Len(logs') >= Len(logs)
      /\ \A n \in 1 .. Len(logs) : logs'[n] = logs[n]
  <2>1. CASE UNCHANGED logs
    BY <1>1, <2>1
  <2>2. ASSUME NEW h, logs' = Append(logs, h)
        PROVE  /\ Len(logs') = Len(logs) + 1
               /\ \A n \in 1 .. Len(logs) : logs'[n] = logs[n]
    BY <1>1, <2>2 DEF FundingTypeOK
  <2> QED
    BY <1>1, <2>1, <2>2
<1>3. UNCHANGED <<cursor, sweep, skipped>>
  BY DEF watcher
<1>4. \A n \in 1 .. (cursor - 1) : n \in 1 .. Len(logs)
  BY <1>1 DEF SweepOK
<1>5. sweep # Idle => \A n \in 1 .. (sweep.next - 1) : n \in 1 .. Len(logs)
  BY <1>1 DEF SweepOK
<1>6. \A n \in 1 .. (cursor - 1) : logs'[n].hash \in seen' \cup skipped'
  BY <1>2, <1>3, <1>4 DEF SweepOK
<1>7. sweep # Idle => \A n \in 1 .. (sweep.next - 1) : logs'[n].hash \in seen' \cup skipped'
  BY <1>2, <1>3, <1>5 DEF SweepOK
<1> QED
  BY <1>1, <1>2, <1>3, <1>6, <1>7 DEF SweepOK

\* Of a set of two numbers the lesser is meant.
LEMMA MinOfTwo ==
  ASSUME NEW a \in Nat, NEW b \in Nat, NEW m, m = Min({a, b})
  PROVE  m \in Nat /\ m <= a
<1>1. \E x \in {a, b} : \A y \in {a, b} : x <= y
  <2>1. CASE a <= b
    BY <2>1
  <2>2. CASE b <= a
    BY <2>2
  <2> QED
    BY <2>1, <2>2
<1> QED
  BY <1>1 DEF Min

(***************************************************************************)
(* The routes and the wallets.                                             *)
(***************************************************************************)

\* A job that is told to fund its intent has that intent reported for it.
LEMMA FundCallsKeeps ==
  ASSUME ChainInv, NEW j \in Jobs, FundCalls(j)
  PROVE  ChainInv'
<1> USE DEF ChainInv, RowsOK
<1>1. /\ UNCHANGED <<amount, intentOf, expired, payment, seen, sent, logs, cursor, sweep, skipped, fundedBy>>
      /\ Sent' = Sent
  BY DEF FundCalls, chain, watcher, Sent
<1>2. /\ jobState' \in [Jobs -> JobState]
      /\ jobState[j] \in {"AUTHORIZED", "FUNDING"} /\ jobState'[j] \in {"AUTHORIZED", "FUNDING"}
      /\ \A k \in Jobs \ {j} : jobState'[k] = jobState[k]
  <2>1. jobState \in [Jobs -> JobState]
    BY DEF FundingTypeOK, JobState
  <2>2. CASE UNCHANGED jobState
    BY <2>1, <2>2 DEF FundCalls
  <2>3. CASE ApplyTo(j, "FUNDING_STARTED")
    BY <2>3, Applied
  <2> QED
    BY <2>2, <2>3 DEF FundCalls
<1>3. /\ offered' = [offered EXCEPT ![j] = @ \cup ({intentOf[j]} \ {0})]
      /\ offered \in [Jobs -> SUBSET (Nat \ {0})] /\ intentOf[j] \in Nat
  BY DEF FundCalls, FundingTypeOK
<1>4. offered' \in [Jobs -> SUBSET (Nat \ {0})]
  BY <1>3
<1>5. FundingTypeOK'
  BY <1>1, <1>2, <1>4, SameReports DEF FundingTypeOK, JobState
<1>6. ChainOK' /\ PaymentsOK' /\ BoundOK'
  BY <1>1, SameReports DEF ChainOK, PaymentsOK, BoundOK
<1>7. OfferedOK'
  <2> SUFFICES ASSUME NEW k \in Jobs, NEW i \in offered'[k]
               PROVE  /\ Stands(k, i)
                      /\ jobState'[k] = "CANCELLED" => ReportedElsewhere(k, i)
    BY <1>1, SameReports DEF OfferedOK
  <2>1. CASE i \in offered[k]
    BY <1>2, <2>1 DEF OfferedOK
  <2>2. CASE k = j /\ i = intentOf[j] /\ i # 0
    BY <1>2, <2>2 DEF BoundOK
  <2> QED
    BY <1>3, <2>1, <2>2
<1>8. FundedOK'
  BY <1>1, <1>2, SameReports DEF FundedOK, Backed
<1>9. SweepOK'
  BY <1>1, SweepKept DEF watcher
<1> QED
  BY <1>5, <1>6, <1>7, <1>8, <1>9

\* A job is only closed when none of its intents was reported as a funding.
LEMMA CancelKeeps ==
  ASSUME ChainInv, NEW j \in Jobs, NEW event \in {"DECLINED", "AUTHORIZATION_EXPIRED"},
         ApplyTo(j, event), ~ HasPendingFunding(j),
         UNCHANGED <<amount, intentOf, expired, offered, payment, seen, chain, watcher, fundedBy>>
  PROVE  ChainInv'
<1> USE DEF ChainInv, RowsOK
<1>1. /\ UNCHANGED <<amount, intentOf, expired, offered, payment, seen, sent, logs, cursor, sweep, skipped, fundedBy>>
      /\ Sent' = Sent
  BY DEF chain, watcher, Sent
<1>2. /\ jobState' \in [Jobs -> JobState]
      /\ jobState[j] # "FUNDED" /\ jobState'[j] = "CANCELLED"
      /\ \A k \in Jobs \ {j} : jobState'[k] = jobState[k]
  BY Applied
<1>3. FundingTypeOK'
  BY <1>1, <1>2, SameReports DEF FundingTypeOK, JobState
<1>4. ChainOK' /\ PaymentsOK' /\ BoundOK'
  BY <1>1, SameReports DEF ChainOK, PaymentsOK, BoundOK
<1>5. \A i : Stands(j, i) => ReportedElsewhere(j, i)
  <2>1. \A h \in Hashes : payment["FUND"][h] # Pending(j)
    BY DEF HasPendingFunding, Pending
  <2>2. \A e \in Created : e.hash \in Hashes
    BY LogsTyped DEF Created, Log
  <2> QED
    BY <2>1, <2>2 DEF Stands, ReportedAs, ReportedElsewhere
<1>6. OfferedOK'
  <2> SUFFICES ASSUME NEW k \in Jobs, NEW i \in offered[k]
               PROVE  /\ Stands(k, i)
                      /\ jobState'[k] = "CANCELLED" => ReportedElsewhere(k, i)
    BY <1>1, SameReports DEF OfferedOK
  <2> QED
    BY <1>2, <1>5 DEF OfferedOK
<1>7. FundedOK'
  BY <1>1, <1>2, SameReports DEF FundedOK, Backed
<1>8. SweepOK'
  BY <1>1, SweepKept DEF watcher
<1> QED
  BY <1>3, <1>4, <1>6, <1>7, <1>8

\* A hash is reported once as each: the reports that bound an intent stay.
LEMMA ReportKeeps ==
  ASSUME ChainInv, NEW j \in Jobs, NEW d \in Directions, NEW g \in Hashes, Report(j, d, g)
  PROVE  ChainInv'
<1> USE DEF ChainInv, RowsOK
<1>1. /\ UNCHANGED <<jobState, amount, intentOf, expired, offered, seen, sent, logs, cursor, sweep, skipped, fundedBy>>
      /\ Sent' = Sent /\ Logs' = Logs /\ Created' = Created
      /\ \A e, i : Funds(e, i)' = Funds(e, i)
  BY DEF Report, jobRows, chain, watcher, Sent, Logs, Created, Funds
<1>2. /\ payment[d][g].status = "NONE" /\ payment[d][g].job = NoJob
      /\ payment' = [payment EXCEPT ![d][g] = [job |-> j, status |-> "PENDING"]]
  BY DEF Report, PaymentsOK
<1>3. payment' \in [Directions -> [Hashes -> Payment]]
  BY <1>2 DEF FundingTypeOK, Payment
<1>4. /\ \A b \in Directions, h \in Hashes : b # d \/ h # g => payment'[b][h] = payment[b][h]
      /\ payment'[d][g] = Pending(j)
  BY <1>2 DEF FundingTypeOK, Pending
<1>5. /\ \A b \in Directions, h \in Hashes, k \in Jobs : payment[b][h].job = k => payment'[b][h].job = k
      /\ \A h \in Hashes, k \in Jobs : payment["FUND"][h] = Pending(k) => payment'["FUND"][h] = Pending(k)
  <2>1. \A k \in Jobs : payment[d][g].job # k /\ payment[d][g] # Pending(k)
    BY <1>2, JobsAssumption DEF Pending
  <2> QED
    BY <1>4, <2>1 DEF Directions
<1>6. /\ \A k \in Jobs : \A i : Stands(k, i) => Stands(k, i)'
      /\ \A b \in Directions, k \in Jobs : \A i : ReportedAs(b, k, i) => ReportedAs(b, k, i)'
  <2>1. \A e \in Created : e.hash \in Hashes
    BY LogsTyped DEF Created, Log
  <2> QED
    BY <1>1, <1>5, <2>1 DEF Stands, ReportedAs, Directions
<1>7. FundingTypeOK' /\ ChainOK'
  BY <1>1, <1>3 DEF FundingTypeOK, ChainOK
<1>8. PaymentsOK'
  <2>1. \A b \in Directions, h \in Hashes : payment'[b][h].status = "NONE" <=> payment'[b][h].job = NoJob
    BY <1>4, JobsAssumption DEF PaymentsOK, Pending
  <2>2. \A h \in Hashes : payment'["FUND"][h].status = "CONFIRMED" => payment["FUND"][h].status = "CONFIRMED"
    BY <1>4 DEF Pending, Directions
  <2> QED
    BY <1>1, <2>1, <2>2 DEF PaymentsOK
<1>9. BoundOK' /\ OfferedOK'
  BY <1>1, <1>6 DEF BoundOK, OfferedOK, Directions, ReportedElsewhere
<1>10. FundedOK'
  BY <1>1, <1>6 DEF FundedOK, Backed
<1>11. SweepOK'
  BY <1>1, SweepKept DEF watcher
<1> QED
  BY <1>7, <1>8, <1>9, <1>10, <1>11

(***************************************************************************)
(* The logs.                                                               *)
(***************************************************************************)

\* A log of a creation binds a job it was reported for.
LEMMA IntentCreatedKeeps ==
  ASSUME RowsOK, NEW g \in Logs, IntentCreated(g)
  PROVE  /\ intentOf' \in [Jobs -> Nat]
         /\ \A k \in Jobs : intentOf'[k] # 0 => Stands(k, intentOf'[k])
<1> USE DEF RowsOK
<1>1. /\ g.hash \in Hashes /\ g.intent \in Nat /\ g \in Created
      /\ payment \in [Directions -> [Hashes -> Payment]] /\ intentOf \in [Jobs -> Nat]
  BY LogsTyped DEF Log, Created, IntentCreated, FundingTypeOK
<1>2. CASE UNCHANGED intentOf
  BY <1>1, <1>2 DEF BoundOK
<1>3. ASSUME NEW j \in JobsReporting(g.hash), intentOf' = [intentOf EXCEPT ![j] = g.intent]
      PROVE  /\ intentOf' \in [Jobs -> Nat]
             /\ \A k \in Jobs : intentOf'[k] # 0 => Stands(k, intentOf'[k])
  <2>1. PICK d \in Directions : payment[d][g.hash].job = j
    BY <1>3 DEF JobsReporting
  <2>2. j \in Jobs
    BY <1>1, <1>3, <2>1 DEF JobsReporting, Payment
  <2>3. payment["FUND"][g.hash].job = j => payment["FUND"][g.hash] = Pending(j)
    <3> SUFFICES ASSUME payment["FUND"][g.hash].job = j PROVE payment["FUND"][g.hash] = Pending(j)
      OBVIOUS
    <3>1. payment["FUND"][g.hash] \in Payment
      BY <1>1 DEF Directions
    <3>2. payment["FUND"][g.hash].status # "NONE"
      BY <1>1, <2>2, JobsAssumption DEF PaymentsOK, Directions
    <3>3. payment["FUND"][g.hash].status # "CONFIRMED"
      BY <1>1 DEF PaymentsOK, ChainOK, Created
    <3> QED
      BY <3>1, <3>2, <3>3 DEF Payment, Pending
  <2>4. Stands(j, g.intent)
    BY <1>1, <2>1, <2>3 DEF Stands, Directions
  <2> QED
    BY <1>1, <1>3, <2>2, <2>4 DEF BoundOK
<1> QED
  BY <1>2, <1>3 DEF IntentCreated, BindIntentId

\* The payment of a log of a funding is recorded: no report is lost.
LEMMA RecordKeeps ==
  ASSUME RowsOK, NEW g \in Logs, g.name = "IntentFunded", NEW j \in Jobs, RecordPayment(g.hash, j), UNCHANGED logs
  PROVE  /\ payment' \in [Directions -> [Hashes -> Payment]]
         /\ PaymentsOK'
         /\ \A k \in Jobs : \A i : Stands(k, i) => Stands(k, i)'
         /\ \A d \in Directions, k \in Jobs : \A i : ReportedAs(d, k, i) => ReportedAs(d, k, i)'
<1> USE DEF RowsOK
<1>1. /\ g.hash \in Hashes /\ payment \in [Directions -> [Hashes -> Payment]]
      /\ Logs' = Logs /\ Created' = Created
  BY LogsTyped DEF Log, FundingTypeOK, Logs, Created
<1> DEFINE row == [job |-> IF payment["FUND"][g.hash].job = NoJob THEN j ELSE payment["FUND"][g.hash].job,
                   status |-> "CONFIRMED"]
<1>2. payment' = [payment EXCEPT !["FUND"][g.hash] = row]
  BY DEF RecordPayment
<1>3. row \in Payment /\ row.status = "CONFIRMED" /\ row.job # NoJob
  BY <1>1, JobsAssumption DEF Payment, Directions
<1> HIDE DEF row
<1>4. payment' \in [Directions -> [Hashes -> Payment]]
  BY <1>1, <1>2, <1>3
<1>5. /\ payment'["FUND"][g.hash] = row
      /\ \A d \in Directions, h \in Hashes : d # "FUND" \/ h # g.hash => payment'[d][h] = payment[d][h]
  BY <1>1, <1>2 DEF Directions
<1>6. \A e \in Created : e.hash \in Hashes /\ e.hash # g.hash
  BY LogsTyped DEF Created, ChainOK, Log
<1>7. PaymentsOK'
  <2>1. \A d \in Directions, h \in Hashes : payment'[d][h].status = "NONE" <=> payment'[d][h].job = NoJob
    <3> SUFFICES ASSUME NEW d \in Directions, NEW h \in Hashes
                 PROVE  payment'[d][h].status = "NONE" <=> payment'[d][h].job = NoJob
      OBVIOUS
    <3>1. CASE d = "FUND" /\ h = g.hash
      BY <1>3, <1>5, <3>1
    <3>2. CASE d # "FUND" \/ h # g.hash
      BY <1>5, <3>2 DEF PaymentsOK
    <3> QED
      BY <3>1, <3>2
  <2>2. \A h \in Hashes : payment'["FUND"][h].status = "CONFIRMED" =>
          \E e \in Logs : e.hash = h /\ e.name = "IntentFunded"
    <3> SUFFICES ASSUME NEW h \in Hashes, payment'["FUND"][h].status = "CONFIRMED"
                 PROVE  \E e \in Logs : e.hash = h /\ e.name = "IntentFunded"
      OBVIOUS
    <3>1. CASE h = g.hash
      BY <3>1
    <3>2. CASE h # g.hash
      BY <1>5, <3>2 DEF PaymentsOK, Directions
    <3> QED
      BY <3>1, <3>2
  <2> QED
    BY <1>1, <2>1, <2>2 DEF PaymentsOK
<1>8. \A d \in Directions : \A e \in Created : payment'[d][e.hash] = payment[d][e.hash]
  BY <1>5, <1>6
<1> QED
  BY <1>1, <1>4, <1>7, <1>8 DEF Stands, ReportedAs, Directions

\* A log of a funding that its job accepts backs that job, and no other.
LEMMA FundedKeeps ==
  ASSUME RowsOK, NEW g \in Logs, g.name = "IntentFunded", g.hash \notin seen,
         NEW j \in Jobs, intentOf[j] = g.intent, AmountMatches(j, g),
         ApplyTo(j, "FUNDED_ONCHAIN"), fundedBy' = [fundedBy EXCEPT ![j] = g.intent],
         UNCHANGED <<amount, logs>>, seen' = seen \cup {g.hash},
         \A d \in Directions, k \in Jobs : \A i : ReportedAs(d, k, i) => ReportedAs(d, k, i)'
  PROVE  FundedOK'
<1> USE DEF RowsOK
<1>1. /\ jobState[j] = "FUNDING" /\ jobState'[j] = "FUNDED"
      /\ \A k \in Jobs \ {j} : jobState'[k] = jobState[k]
  BY Applied
<1>2. fundedBy'[j] = g.intent /\ \A k \in Jobs \ {j} : fundedBy'[k] = fundedBy[k]
  BY DEF FundingTypeOK
<1>3. g.intent # 0 /\ Logs' = Logs
  BY LogsTyped DEF Log, Logs
<1>4. \A e, i : Funds(e, i)' = Funds(e, i)
  BY <1>3 DEF Funds
<1>5. \A k \in Jobs \ {j} : jobState[k] = "FUNDED" => Backed(k)' /\ fundedBy[k] # g.intent
  <2> SUFFICES ASSUME NEW k \in Jobs \ {j}, jobState[k] = "FUNDED"
               PROVE  Backed(k)' /\ fundedBy[k] # g.intent
    OBVIOUS
  <2>1. PICK e \in Logs : e.hash \in seen /\ Funds(e, fundedBy[k]) /\ e.amount = amount[k]
    BY DEF FundedOK, Backed
  <2>2. fundedBy[k] # g.intent
    BY <2>1 DEF ChainOK, Funds
  <2>3. PICK i : i = fundedBy[k]
    OBVIOUS
  <2>4. PICK d \in Directions : ReportedAs(d, k, i)
    BY <2>3 DEF FundedOK, Backed
  <2>5. ReportedAs(d, k, i)' /\ fundedBy'[k] = i /\ Directions' = Directions
    BY <1>2, <2>3, <2>4 DEF Directions
  <2>6. \E b \in Directions : ReportedAs(b, k, fundedBy[k])'
    BY <2>4, <2>5 DEF ReportedAs
  <2> QED
    BY <1>2, <1>3, <1>4, <2>1, <2>2, <2>6 DEF Backed
<1>6. Backed(j)'
  <2>1. Stands(j, g.intent)
    BY <1>3 DEF BoundOK
  <2>2. \E d \in Directions : ReportedAs(d, j, g.intent)
    BY <2>1 DEF Stands, ReportedAs, Pending, Directions
  <2>3. Funds(g, g.intent) /\ g.amount = amount[j]
    BY DEF Funds, AmountMatches
  <2> QED
    BY <1>2, <1>3, <1>4, <2>2, <2>3 DEF Backed
<1> QED
  BY <1>1, <1>2, <1>5, <1>6 DEF FundedOK

\* A log is handled: it binds a job it was reported for, or funds the job that is
\* bound to it, or changes nothing.
LEMMA HandleKeeps ==
  ASSUME RowsOK, NEW g \in Logs, HandleFundingLog(g),
         cursor' \in Nat, sweep' \in [next : Nat, last : Nat]
  PROVE  RowsOK' /\ seen \subseteq seen' /\ g.hash \in seen' /\ logs' = logs
<1> USE DEF RowsOK
<1>1. /\ UNCHANGED <<amount, expired, offered, sent, logs>>
      /\ seen' = seen \cup {g.hash} /\ seen' \subseteq Hashes
      /\ Logs' = Logs /\ Created' = Created /\ Sent' = Sent
      /\ \A e, i : Funds(e, i)' = Funds(e, i)
  <2>1. UNCHANGED <<amount, expired, offered, sent, logs>> /\ seen' = seen \cup {g.hash}
    BY DEF HandleFundingLog, RecordEvent, chain
  <2>2. Logs' = Logs /\ Created' = Created /\ Sent' = Sent
    BY <2>1 DEF Logs, Created, Sent
  <2>3. g.hash \in Hashes /\ seen \subseteq Hashes
    BY LogsTyped DEF Log, FundingTypeOK
  <2> QED
    BY <2>1, <2>2, <2>3 DEF Funds
<1>2. ChainOK'
  BY <1>1 DEF ChainOK
<1>3. CASE UNCHANGED <<jobState, payment, fundedBy>> /\ (UNCHANGED intentOf \/ IntentCreated(g))
  <2>1. /\ intentOf' \in [Jobs -> Nat]
        /\ \A k \in Jobs : intentOf'[k] # 0 => Stands(k, intentOf'[k])
    BY <1>3, IntentCreatedKeeps DEF BoundOK, FundingTypeOK
  <2>2. FundingTypeOK' /\ PaymentsOK'
    BY <1>1, <1>3, <2>1 DEF FundingTypeOK, PaymentsOK
  <2>3. BoundOK'
    BY <1>1, <1>3, <2>1, SameReports DEF BoundOK
  <2>4. OfferedOK'
    BY <1>1, <1>3, SameReports DEF OfferedOK
  <2>5. FundedOK'
    BY <1>1, <1>3, SameReports DEF FundedOK, Backed
  <2> QED
    BY <1>1, <1>2, <2>2, <2>3, <2>4, <2>5
<1>4. ASSUME NEW j \in JobsBoundTo(g.intent), AmountMatches(j, g), RecordPayment(g.hash, j),
             g.name = "IntentFunded", g.hash \notin seen, UNCHANGED intentOf,
             \/ /\ ApplyTo(j, "FUNDED_ONCHAIN")
                /\ fundedBy' = [fundedBy EXCEPT ![j] = g.intent]
             \/ UNCHANGED <<jobState, fundedBy>>
      PROVE  RowsOK'
  <2>1. j \in Jobs /\ intentOf[j] = g.intent /\ g.intent \in Nat
    BY LogsTyped DEF JobsBoundTo, Log
  <2>2. /\ payment' \in [Directions -> [Hashes -> Payment]]
        /\ PaymentsOK'
        /\ \A k \in Jobs : \A i : Stands(k, i) => Stands(k, i)'
        /\ \A d \in Directions, k \in Jobs : \A i : ReportedAs(d, k, i) => ReportedAs(d, k, i)'
    BY <1>1, <1>4, <2>1, RecordKeeps
  <2>3. BoundOK'
    BY <1>4, <2>2 DEF BoundOK
  <2>4. CASE UNCHANGED <<jobState, fundedBy>>
    <3>1. FundingTypeOK'
      BY <1>1, <1>4, <2>2, <2>4 DEF FundingTypeOK
    <3>2. OfferedOK'
      BY <1>1, <2>2, <2>4 DEF OfferedOK, Directions, ReportedElsewhere
    <3>3. FundedOK'
      BY <1>1, <2>2, <2>4 DEF FundedOK, Backed
    <3> QED
      BY <1>2, <2>2, <2>3, <3>1, <3>2, <3>3
  <2>5. CASE ApplyTo(j, "FUNDED_ONCHAIN") /\ fundedBy' = [fundedBy EXCEPT ![j] = g.intent]
    <3>1. /\ jobState' \in [Jobs -> JobState]
          /\ \A k \in Jobs : jobState'[k] = "CANCELLED" => jobState[k] = "CANCELLED"
      BY <2>1, <2>5, Applied
    <3>2. FundingTypeOK'
      BY <1>1, <1>4, <2>1, <2>2, <2>5, <3>1 DEF FundingTypeOK, JobState
    <3>3. OfferedOK'
      BY <1>1, <2>2, <3>1 DEF OfferedOK, Directions, ReportedElsewhere
    <3>4. FundedOK'
      BY <1>1, <1>4, <2>1, <2>2, <2>5, FundedKeeps
    <3> QED
      BY <1>2, <2>2, <2>3, <3>2, <3>3, <3>4
  <2> QED
    BY <1>4, <2>4, <2>5
<1>5. CASE g.hash \notin seen /\ IntentFunded(g)
  <2>1. ASSUME UNCHANGED <<jobState, payment, fundedBy>> PROVE RowsOK'
    BY <1>3, <1>5, <2>1 DEF IntentFunded
  <2>2. RowsOK'
    BY <1>4, <1>5, <2>1 DEF IntentFunded
  <2> QED
    BY <1>1, <2>2
<1>6. \/ UNCHANGED <<jobState, intentOf, payment, fundedBy>>
      \/ IntentCreated(g)
      \/ g.hash \notin seen /\ IntentFunded(g)
  BY DEF HandleFundingLog
<1>7. IntentCreated(g) => UNCHANGED <<jobState, payment, fundedBy>>
  BY DEF IntentCreated
<1> QED
  BY <1>1, <1>3, <1>5, <1>6, <1>7

\* The fast path and the webhook handle a log beside the sweep.
LEMMA ReceiptKeeps ==
  ASSUME ChainInv, NEW e \in Logs, ReceiptLogs(e)
  PROVE  ChainInv'
<1>1. HandleFundingLog(e) /\ UNCHANGED watcher
  BY DEF ReceiptLogs
<1>2. cursor' \in Nat /\ sweep' \in [next : Nat, last : Nat]
  BY <1>1 DEF ChainInv, RowsOK, FundingTypeOK, watcher
<1>3. RowsOK' /\ seen \subseteq seen' /\ logs' = logs
  BY <1>1, <1>2, HandleKeeps DEF ChainInv
<1>4. SweepOK'
  BY <1>1, <1>3, SweepKept DEF ChainInv, RowsOK
<1> QED
  BY <1>3, <1>4 DEF ChainInv

\* The sweep handles the next log of its range.
LEMMA SweepLogKeeps ==
  ASSUME ChainInv, SweepLog
  PROVE  ChainInv'
<1>1. /\ sweep # Idle /\ sweep.next <= sweep.last
      /\ sweep' = [sweep EXCEPT !.next = @ + 1]
      /\ UNCHANGED <<cursor, skipped>>
      /\ sweep \in [next : Nat, last : Nat] /\ cursor \in Nat /\ Len(logs) \in Nat
  BY DEF SweepLog, ChainInv, RowsOK, FundingTypeOK
<1>2. cursor' \in Nat /\ sweep' \in [next : Nat, last : Nat]
      /\ sweep'.next = sweep.next + 1 /\ sweep'.last = sweep.last
  BY <1>1
<1>3. sweep.next \in 1 .. Len(logs)
  BY <1>1 DEF ChainInv, SweepOK
<1>4. logs[sweep.next] \in Logs
  BY <1>3 DEF ChainInv, RowsOK, FundingTypeOK, Logs
<1>5. HandleFundingLog(logs[sweep.next])
  BY DEF SweepLog
<1>6. RowsOK' /\ seen \subseteq seen' /\ logs[sweep.next].hash \in seen' /\ logs' = logs
  BY <1>2, <1>4, <1>5, HandleKeeps DEF ChainInv
<1>7. SweepOK'
  <2>1. cursor' >= 1 /\ cursor' <= Len(logs') + 1
    BY <1>1, <1>6 DEF ChainInv, SweepOK
  <2>2. \A n \in 1 .. (cursor' - 1) : logs'[n].hash \in seen' \cup skipped'
    BY <1>1, <1>6 DEF ChainInv, SweepOK
  <2>3. cursor' <= sweep'.next /\ sweep'.next <= Len(logs') + 1 /\ sweep'.last <= Len(logs')
    BY <1>1, <1>2, <1>3, <1>6 DEF ChainInv, SweepOK
  <2>4. \A n \in 1 .. (sweep'.next - 1) : logs'[n].hash \in seen' \cup skipped'
    <3> SUFFICES ASSUME NEW n \in 1 .. sweep.next PROVE logs[n].hash \in seen' \cup skipped
      BY <1>1, <1>2, <1>6
    <3>1. CASE n = sweep.next
      BY <1>6, <3>1
    <3>2. CASE n \in 1 .. (sweep.next - 1)
      BY <1>1, <1>6, <3>2 DEF ChainInv, SweepOK
    <3> QED
      BY <1>1, <3>1, <3>2
  <2> QED
    BY <2>1, <2>2, <2>3, <2>4 DEF SweepOK
<1> QED
  BY <1>6, <1>7 DEF ChainInv

\* A poll begins at the cursor, ends after its range, or is given up; what the
\* node has pruned is skipped, and known to be.
LEMMA PollKeeps ==
  ASSUME ChainInv, BeginPoll \/ EndPoll \/ PollFails \/ SkipPruned
  PROVE  ChainInv'
<1>0. /\ cursor \in Nat /\ sweep \in [next : Nat, last : Nat] /\ Len(logs) \in Nat /\ LogRange \in Nat
      /\ SweepOK
  BY LimitsAssumption DEF ChainInv, RowsOK, FundingTypeOK
<1>1. CASE BeginPoll
  <2> DEFINE last == Min({Len(logs), cursor + LogRange - 1})
  <2>1. /\ sweep' = [next |-> cursor, last |-> last]
        /\ cursor <= Len(logs)
        /\ UNCHANGED <<jobRows, offered, payment, seen, chain, cursor, skipped, fundedBy>>
    BY <1>1 DEF BeginPoll
  <2>2. last \in Int /\ last <= Len(logs) /\ last >= 0
    <3>1. PICK a \in Nat, b \in Nat : a = Len(logs) /\ b = cursor + LogRange - 1
      BY <1>0 DEF SweepOK
    <3>2. last = Min({a, b})
      BY <3>1
    <3> HIDE DEF last
    <3>3. last \in Nat /\ last <= a
      BY <3>2, MinOfTwo
    <3> QED
      BY <3>1, <3>3
  <2> HIDE DEF last
  <2>3. sweep' \in [next : Nat, last : Nat] /\ cursor' \in Nat
    BY <1>0, <2>1, <2>2
  <2>4. RowsOK'
    BY <2>1, <2>3, RowsKept DEF ChainInv
  <2>5. SweepOK'
    BY <1>0, <2>1, <2>2 DEF SweepOK, chain
  <2> QED
    BY <2>4, <2>5 DEF ChainInv
<1>2. CASE EndPoll
  <2>1. /\ sweep # Idle /\ sweep.next > sweep.last /\ cursor' = sweep.last + 1 /\ sweep' = Idle
        /\ UNCHANGED <<jobRows, offered, payment, seen, chain, skipped, fundedBy>>
    BY <1>2 DEF EndPoll, SetCursor
  <2>2. RowsOK'
    BY <1>0, <2>1, RowsKept DEF ChainInv, Idle
  <2>3. cursor' >= 1 /\ cursor' <= Len(logs') + 1
    BY <1>0, <2>1 DEF SweepOK, chain
  <2>4. \A n \in 1 .. (cursor' - 1) : logs'[n].hash \in seen' \cup skipped'
    BY <1>0, <2>1 DEF SweepOK, chain
  <2> QED
    BY <2>1, <2>2, <2>3, <2>4 DEF ChainInv, SweepOK
<1>3. CASE PollFails
  <2>1. /\ sweep' = Idle
        /\ UNCHANGED <<jobRows, offered, payment, seen, chain, cursor, skipped, fundedBy>>
    BY <1>3 DEF PollFails
  <2>2. RowsOK'
    BY <1>0, <2>1, RowsKept DEF ChainInv, Idle
  <2>3. SweepOK'
    BY <1>0, <2>1 DEF SweepOK, chain
  <2> QED
    BY <2>2, <2>3 DEF ChainInv
<1>4. CASE SkipPruned
  <2>1. /\ sweep = Idle /\ sweep' = Idle /\ cursor <= Len(logs) /\ cursor' = Len(logs)
        /\ skipped' = skipped \cup {logs[n].hash : n \in cursor .. (Len(logs) - 1)}
        /\ UNCHANGED <<jobRows, offered, payment, seen, chain, fundedBy>>
    BY <1>4 DEF SkipPruned, SetCursor
  <2>2. RowsOK'
    BY <1>0, <2>1, RowsKept DEF ChainInv
  <2>3. cursor' >= 1 /\ cursor' <= Len(logs') + 1
    BY <1>0, <2>1 DEF SweepOK, chain
  <2>4. \A n \in 1 .. (cursor' - 1) : logs'[n].hash \in seen' \cup skipped'
    <3> SUFFICES ASSUME NEW n \in 1 .. (Len(logs) - 1) PROVE logs[n].hash \in seen \cup skipped'
      BY <2>1 DEF chain
    <3>1. CASE n \in 1 .. (cursor - 1)
      BY <1>0, <2>1, <3>1 DEF SweepOK
    <3>2. CASE n \in cursor .. (Len(logs) - 1)
      BY <2>1, <3>2
    <3> QED
      BY <1>0, <3>1, <3>2
  <2> QED
    BY <2>1, <2>2, <2>3, <2>4 DEF ChainInv, SweepOK
<1> QED
  BY <1>1, <1>2, <1>3, <1>4

(***************************************************************************)
(* The chain and time.                                                     *)
(***************************************************************************)

\* A new log: of an intent with an id above all others, or of the funding of an
\* intent that had none.
LEMMA LandKeeps ==
  ASSUME ChainInv, NEW e \in [hash : {sent + 1}, name : {"IntentCreated", "IntentFunded"},
                              intent : Nat \ {0}, terms : Jobs \cup {NoJob}, amount : Amounts],
         Land(e),
         e.name = "IntentCreated" => e.intent = Cardinality(Created) + 1,
         e.name = "IntentFunded" => ~ FundedOnChain(e.intent)
  PROVE  ChainInv'
<1> USE DEF ChainInv, RowsOK
<1>1. /\ sent \in Nat /\ MaxTxs \in Nat /\ sent < MaxTxs
      /\ sent' = sent + 1 /\ logs' = Append(logs, e) /\ logs \in Seq(Log)
      /\ UNCHANGED <<jobState, amount, intentOf, expired, offered, payment, seen, cursor, sweep, skipped, fundedBy>>
  BY LimitsAssumption DEF Land, jobRows, watcher, FundingTypeOK
<1>2. sent + 1 \in Hashes /\ e \in Log
  BY <1>1 DEF Hashes, Log
<1>3. /\ logs' \in Seq(Log) /\ Len(logs) \in Nat
      /\ DOMAIN logs = 1 .. Len(logs) /\ DOMAIN logs' = 1 .. (Len(logs) + 1)
      /\ \A n \in 1 .. Len(logs) : logs'[n] = logs[n]
      /\ logs'[Len(logs) + 1] = e
  BY <1>1, <1>2
<1>4. Logs' = Logs \cup {e}
  <2>1. 1 .. (Len(logs) + 1) = (1 .. Len(logs)) \cup {Len(logs) + 1}
    BY <1>3
  <2>2. Logs = {logs[n] : n \in 1 .. Len(logs)} /\ Logs' = {logs'[n] : n \in 1 .. (Len(logs) + 1)}
    BY <1>3 DEF Logs
  <2>3. Logs' = {logs'[n] : n \in 1 .. Len(logs)} \cup {e}
    BY <1>3, <2>1, <2>2
  <2>4. {logs'[n] : n \in 1 .. Len(logs)} = Logs
    BY <1>3, <2>2
  <2> QED
    BY <2>3, <2>4
<1>5. \A f \in Logs : f.hash \in 1 .. sent /\ f.hash # e.hash
  BY <1>1 DEF FundingTypeOK, Sent
<1>6. Created \subseteq Created' /\ \A f, i : Funds(f, i) => Funds(f, i)'
  BY <1>4 DEF Created, Funds
<1>7. /\ \A k \in Jobs : \A i : Stands(k, i) => Stands(k, i)'
      /\ \A d \in Directions, k \in Jobs : \A i : ReportedAs(d, k, i) => ReportedAs(d, k, i)'
  BY <1>1, <1>6 DEF Stands, ReportedAs
<1>8. FundingTypeOK'
  <2>1. \A f \in Logs' : f.hash \in Sent'
    BY <1>1, <1>4, <1>5 DEF Sent
  <2>2. sent' \in 0 .. MaxTxs
    BY <1>1
  <2> QED
    BY <1>1, <1>3, <2>1, <2>2 DEF FundingTypeOK
<1>9. ChainOK'
  <2>1. \A f, h \in Logs' : f.hash = h.hash => f = h
    BY <1>4, <1>5 DEF ChainOK
  <2>2. IsFiniteSet(Created) /\ Cardinality(Created) \in Nat
    BY LogsTyped, FS_Subset, FS_CardinalityType DEF Created
  <2>3. CASE e.name = "IntentCreated"
    <3>1. Created' = Created \cup {e}
      BY <1>4, <2>3 DEF Created
    <3>2. e \notin Created
      BY <2>2, <2>3 DEF ChainOK
    <3>3. Cardinality(Created') = Cardinality(Created) + 1
      BY <2>2, <3>1, <3>2, FS_AddElement
    <3>4. \A f \in Created' : f.intent \in 1 .. Cardinality(Created')
      BY <2>2, <2>3, <3>1, <3>3 DEF ChainOK
    <3>5. \A f \in Logs : f.name = "IntentCreated" => f.intent # e.intent
      BY <2>2, <2>3 DEF ChainOK, Created
    <3>6. \A f, h \in Logs' : f.name = h.name /\ f.intent = h.intent => f = h
      BY <1>4, <2>3, <3>5 DEF ChainOK
    <3> QED
      BY <2>1, <3>4, <3>6 DEF ChainOK
  <2>4. CASE e.name = "IntentFunded"
    <3>1. Created' = Created
      BY <1>4, <2>4 DEF Created
    <3>2. \A f, h \in Logs' : f.name = h.name /\ f.intent = h.intent => f = h
      BY <1>4, <2>4 DEF ChainOK, FundedOnChain
    <3> QED
      BY <2>1, <3>1, <3>2 DEF ChainOK
  <2> QED
    BY <2>3, <2>4
<1>10. PaymentsOK'
  BY <1>1, <1>4 DEF PaymentsOK
<1>11. BoundOK' /\ OfferedOK'
  BY <1>1, <1>7 DEF BoundOK, OfferedOK, Directions, ReportedElsewhere
<1>12. FundedOK'
  BY <1>1, <1>4, <1>6, <1>7 DEF FundedOK, Backed
<1>13. SweepOK'
  BY <1>1, SweepKept DEF watcher
<1> QED
  BY <1>8, <1>9, <1>10, <1>11, <1>12, <1>13

\* An intent is created, or takes its money.
LEMMA WalletKeeps ==
  ASSUME ChainInv,
         \/ \E terms \in Terms, a \in Amounts : CreateIntent(terms, a)
         \/ \E e \in Created : FundIntent(e)
  PROVE  ChainInv'
<1>1. ASSUME NEW terms \in Terms, NEW a \in Amounts, CreateIntent(terms, a) PROVE ChainInv'
  <2> DEFINE e == [hash |-> sent + 1, name |-> "IntentCreated", intent |-> Cardinality(Created) + 1,
                   terms |-> terms, amount |-> a]
  <2>1. Cardinality(Created) \in Nat
    BY LogsTyped, FS_Subset, FS_CardinalityType DEF Created, ChainInv, RowsOK
  <2>2. Land(e)
    BY <1>1 DEF CreateIntent
  <2> QED
    BY <2>1, <2>2, TermsAssumption, LandKeeps
<1>2. ASSUME NEW f \in Created, FundIntent(f) PROVE ChainInv'
  <2> DEFINE e == [f EXCEPT !.hash = sent + 1, !.name = "IntentFunded"]
  <2>1. f \in Log
    BY LogsTyped DEF Created, ChainInv, RowsOK
  <2>2. e \in [hash : {sent + 1}, name : {"IntentCreated", "IntentFunded"},
               intent : Nat \ {0}, terms : Jobs \cup {NoJob}, amount : Amounts]
        /\ e.name = "IntentFunded" /\ e.intent = f.intent
    BY <2>1 DEF Log
  <2>3. Land(e) /\ ~ FundedOnChain(f.intent)
    BY <1>2 DEF FundIntent
  <2> HIDE DEF e
  <2> QED
    BY <2>2, <2>3, LandKeeps
<1> QED
  BY <1>1, <1>2

\* A transaction that fails leaves no log, and time only passes.
LEMMA OutsideKeeps ==
  ASSUME ChainInv, SendFails \/ \E j \in Jobs : DeadlinePasses(j)
  PROVE  ChainInv'
<1> USE DEF ChainInv, RowsOK
<1>1. /\ UNCHANGED <<jobState, amount, intentOf, offered, payment, seen, logs, cursor, sweep, skipped, fundedBy>>
      /\ expired' \in [Jobs -> BOOLEAN]
      /\ sent' \in 0 .. MaxTxs /\ Sent \subseteq Sent'
  <2>1. CASE SendFails
    BY <2>1, LimitsAssumption DEF SendFails, jobRows, watcher, FundingTypeOK, Sent
  <2>2. CASE \E j \in Jobs : DeadlinePasses(j)
    BY <2>2 DEF DeadlinePasses, watcher, chain, FundingTypeOK, Sent
  <2> QED
    BY <2>1, <2>2
<1>2. FundingTypeOK'
  BY <1>1, SameReports DEF FundingTypeOK
<1>3. ChainOK' /\ PaymentsOK' /\ BoundOK' /\ OfferedOK'
  BY <1>1, SameReports DEF ChainOK, PaymentsOK, BoundOK, OfferedOK
<1>4. FundedOK'
  BY <1>1, SameReports DEF FundedOK, Backed
<1>5. SweepOK'
  BY <1>1, SweepKept DEF watcher
<1> QED
  BY <1>2, <1>3, <1>4, <1>5

(***************************************************************************)
(* The theorems.                                                           *)
(***************************************************************************)

\* Every step keeps the invariant.
LEMMA ChainInvNext == ChainInv /\ [FundingNext]_fundingVars => ChainInv'
<1> SUFFICES ASSUME ChainInv, [FundingNext]_fundingVars PROVE ChainInv'
  OBVIOUS
<1>1. CASE UNCHANGED fundingVars
  <2>1. UNCHANGED <<jobRows, offered, payment, seen, chain, watcher, cursor, sweep, logs, fundedBy>>
    BY <1>1 DEF fundingVars, watcher, chain
  <2>2. cursor' \in Nat /\ sweep' \in [next : Nat, last : Nat]
    BY <2>1 DEF ChainInv, RowsOK, FundingTypeOK
  <2>3. RowsOK'
    BY <2>1, <2>2, RowsKept DEF ChainInv
  <2>4. SweepOK'
    BY <2>1, SweepKept DEF ChainInv, RowsOK
  <2> QED
    BY <2>3, <2>4 DEF ChainInv
<1>2. ASSUME NEW j \in Jobs, FundCalls(j) PROVE ChainInv'
  BY <1>2, FundCallsKeeps
<1>3. ASSUME NEW j \in Jobs, Cancel(j) PROVE ChainInv'
  BY <1>3, CancelKeeps DEF Cancel
<1>4. ASSUME NEW j \in Jobs, ExpireAuthorization(j) PROVE ChainInv'
  BY <1>4, CancelKeeps DEF ExpireAuthorization
<1>5. ASSUME SendFails \/ \E j \in Jobs : DeadlinePasses(j) PROVE ChainInv'
  BY <1>5, OutsideKeeps
<1>6. ASSUME NEW j \in Jobs, NEW d \in Directions, NEW h \in Hashes, Report(j, d, h) PROVE ChainInv'
  BY <1>6, ReportKeeps
<1>7. ASSUME \/ \E terms \in Terms, a \in Amounts : CreateIntent(terms, a)
             \/ \E e \in Created : FundIntent(e)
      PROVE  ChainInv'
  BY <1>7, WalletKeeps
<1>8. ASSUME NEW e \in Logs, ObserveReported(e) \/ Webhook(e) PROVE ChainInv'
  BY <1>8, ReceiptKeeps DEF ObserveReported, Webhook
<1>9. CASE SweepLog
  BY <1>9, SweepLogKeeps
<1>10. CASE BeginPoll \/ EndPoll \/ PollFails \/ SkipPruned
  BY <1>10, PollKeeps
<1> QED
  BY <1>1, <1>2, <1>3, <1>4, <1>5, <1>6, <1>7, <1>8, <1>9, <1>10 DEF FundingNext, Poll

LEMMA ChainInvHolds == FundingSpec => []ChainInv
<1>1. FundingInit => ChainInv
  BY ChainInvInit
<1>2. ChainInv /\ [FundingNext]_fundingVars => ChainInv'
  BY ChainInvNext
<1> QED
  BY <1>1, <1>2, PTL DEF FundingSpec

\* For any jobs, amounts and terms, and whatever was reported for which job: a
\* funded job has behind it a funding of its amount, of an intent that was reported
\* for it and funds no other job (chain_events.py:39-64).  Nothing is said of whom
\* the intent pays.
THEOREM FundingIsBacked == FundingSpec => []FundedIsBacked
<1>1. ChainInv => FundedIsBacked
  BY DEF ChainInv, RowsOK, FundedOK, Backed, Funds, FundedIsBacked
<1> QED
  BY <1>1, ChainInvHolds, PTL

\* A job that was told to fund an intent is neither cancelled nor expired, unless
\* the intent was also reported by another route (transactions/service.py:137-144).
THEOREM ToldToFundStands == FundingSpec => []OfferedStands
<1>1. ChainInv => OfferedStands
  BY DEF ChainInv, RowsOK, OfferedOK, OfferedStands
<1> QED
  BY <1>1, ChainInvHolds, PTL

\* Wherever polls fail or die: every log before the cursor was handled, or the node
\* no longer had it (chain_events.py:228-250).
THEOREM SweepLosesNothing == FundingSpec => []NoLogLost
<1>1. ChainInv => NoLogLost
  BY DEF ChainInv, SweepOK, NoLogLost
<1> QED
  BY <1>1, ChainInvHolds, PTL

\* Every variable keeps its type.
THEOREM ChainTypeOK == FundingSpec => []FundingTypeOK
<1>1. ChainInv => FundingTypeOK
  BY DEF ChainInv, RowsOK
<1> QED
  BY <1>1, ChainInvHolds, PTL
=============================================================================
