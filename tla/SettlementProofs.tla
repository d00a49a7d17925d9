--------------------------- MODULE SettlementProofs ---------------------------
(***************************************************************************)
(* What the backend's books say of the money, for any total and remedies   *)
(* and any timeouts of the contract, however the parties, the outbox, the  *)
(* watcher and reconciliation interleave.                                  *)
(*                                                                         *)
(* The argument goes from the contract outwards.  It pays once, so a log   *)
(* of a payment that is read late still says what the ledger says.  What   *)
(* the backend writes is in such a log, or was compared with it.           *)
(***************************************************************************)
EXTENDS Settlement, TLAPS

JobState == {"FUNDED", "DELIVERED", "DISPUTED", "PROPOSED", "ESCALATED", "RELEASED", "SETTLED"}
Handled == {"DISPUTED", "PROPOSED", "ESCALATED"}
Movements == [deposited : Int, toCustomer : Int, toProvider : Int]

\* The one intent in the contract: it is funded, frozen or paid, nobody has
\* proposed a split to it, and nothing is paid before it is resolved.
EscrowInv ==
  /\ terms = [i \in {Intent} |->
       [customer |-> Customer, provider |-> Provider, token |-> Usdc, totalAmount |-> Total]]
  /\ escrow \in [{Intent} -> {"FUNDED", "IN_DISPUTE", "RESOLVED"}]
  /\ onChain = [i \in {Intent} |-> Contract!NoProposal]
  /\ ledger \in [{Intent} -> Movements]
  /\ HoldsMoney => ledger[Intent].toCustomer = 0 /\ ledger[Intent].toProvider = 0

\* The intent was frozen: nobody is paid yet, or the customer was, everything.
Frozen ==
  \/ escrow[Intent] = "IN_DISPUTE"
  \/ ~ HoldsMoney /\ ledger[Intent].toCustomer = Total /\ ledger[Intent].toProvider = 0

\* The log tells what the escrow did.
SaysPaid(log) ==
  /\ ~ HoldsMoney
  /\ log.toCustomer \in 0 .. Total /\ log.toProvider = Total - log.toCustomer
  /\ log.toCustomer = ledger[Intent].toCustomer /\ log.toProvider = ledger[Intent].toProvider

\* A log that was not handled yet is still true.
LogsInv ==
  \A log \in logs :
    \/ log.name = "DisputeRaised" /\ Frozen
    \/ log.name = "IntentResolved" /\ SaysPaid(log)

\* The job: a split within the total, a proposal where the state speaks of one,
\* a dispute only about a frozen intent.
JobInv ==
  /\ state \in JobState
  /\ split \in 0 .. Total
  /\ state = "PROPOSED" => proposal # "NONE"
  /\ state \in Handled => Frozen
  /\ state = "SETTLED" => split = 0

\* What is on file about a payment was paid.
PaidInv ==
  /\ state \in {"RELEASED", "SETTLED"} \/ payments # NoPayments => ~ HoldsMoney
  /\ BooksAreTheEscrows

BooksInv == EscrowInv /\ LogsInv /\ JobInv /\ PaidInv

USE DEF Intent

(***************************************************************************)
(* What a step does to the escrow.                                         *)
(***************************************************************************)

\* Nothing.
EscrowStays == UNCHANGED <<terms, onChain, escrow, ledger>>

\* The intent is frozen.
Freezes ==
  /\ escrow[Intent] = "FUNDED"
  /\ escrow' = [escrow EXCEPT ![Intent] = "IN_DISPUTE"]
  /\ UNCHANGED <<terms, onChain, ledger>>
  /\ logs' = logs \cup {[name |-> "DisputeRaised"]}

\* The intent is paid out, once, and a log says how.
Pays(c) ==
  /\ HoldsMoney
  /\ escrow' = [escrow EXCEPT ![Intent] = "RESOLVED"]
  /\ ledger' = [ledger EXCEPT ![Intent] =
       [deposited |-> @.deposited, toCustomer |-> @.toCustomer + c,
        toProvider |-> @.toProvider + (Total - c)]]
  /\ UNCHANGED <<terms, onChain>>
  /\ Resolves(c)

\* A split that two signed, of an intent that is not frozen, or everything to the
\* customer.
Payment == \E c \in 0 .. Total : Pays(c) /\ (escrow[Intent] = "FUNDED" \/ c = Total)

EscrowStep == (EscrowStays /\ logs' \subseteq logs) \/ Freezes \/ Payment

\* Two signatures pay out an intent that is not frozen.
LEMMA SignedPays ==
  ASSUME EscrowInv, NEW c \in 0 .. Total, NEW a, NEW b, Execute(c, a, b)
  PROVE  Payment
<1>1. /\ escrow[Intent] = "FUNDED"
      /\ Contract!ExecuteSplit(Intent, c, terms[Intent].totalAmount - c, "signatures")
      /\ UNCHANGED <<terms, onChain>>
  BY DEF Execute, Contract!ExecuteWithSignatures, EscrowInv
<1>2. terms[Intent].totalAmount = Total
  BY DEF EscrowInv
<1>3. Pays(c)
  BY <1>1, <1>2
  DEF Execute, Pays, EscrowInv, HoldsMoney, Contract!ExecuteSplit, Contract!MoveTo, Contract!PayOut
<1> QED
  BY <1>1, <1>3 DEF Payment

\* Abandonment pays the customer everything, since nobody proposed a split.
LEMMA AbandonPays ==
  ASSUME EscrowInv, Abandon
  PROVE  Payment
<1>1. /\ escrow[Intent] \in {"FUNDED", "IN_DISPUTE"}
      /\ Contract!ExecuteSplit(Intent, terms[Intent].totalAmount, 0, "abandonment")
      /\ UNCHANGED <<terms, onChain>>
  BY DEF Abandon, Contract!ExecuteAbandonment, Contract!NoProposal, EscrowInv
<1>2. terms[Intent].totalAmount = Total /\ Total - Total = 0 /\ Total \in 0 .. Total
  BY SharesAssumption DEF EscrowInv
<1>3. Pays(Total)
  BY <1>1, <1>2
  DEF Abandon, Pays, EscrowInv, HoldsMoney, Contract!ExecuteSplit, Contract!MoveTo, Contract!PayOut
<1> QED
  BY <1>2, <1>3 DEF Payment

\* Every call of an outbox row pays.
LEMMA CallPays ==
  ASSUME EscrowInv, JobInv, NEW k \in Kind, Call(k)
  PROVE  Payment
<1>1. CASE k = "RELEASE"
  BY <1>1, SignedPays, SharesAssumption DEF Call
<1>2. CASE k = "SETTLE"
  <2>1. Total - split \in 0 .. Total
    BY SharesAssumption DEF JobInv
  <2>2. Execute(Total - split, Customer, Provider)
    BY <1>2 DEF Call
  <2> QED
    BY <2>1, <2>2, SignedPays
<1>3. CASE k = "ABANDONMENT"
  BY <1>3, AbandonPays, SharesAssumption DEF Call
<1> QED
  BY <1>1, <1>2, <1>3 DEF Kind

\* A relayed transaction pays.
LEMMA RelayPays ==
  ASSUME EscrowInv, Relay
  PROVE  Payment
<1>1. CASE Execute(0, Customer, Arbitrator)
  BY <1>1, SignedPays, SharesAssumption
<1>2. ASSUME NEW c \in 0 .. Total, Execute(c, Customer, Provider)
      PROVE  Payment
  BY <1>2, SignedPays
<1>3. CASE Abandon
  BY <1>3, AbandonPays
<1> QED
  BY <1>1, <1>2, <1>3 DEF Relay

\* The party that raises a dispute freezes the intent.
LEMMA RaiseFreezes ==
  ASSUME EscrowInv, NEW party, RaiseDispute(party)
  PROVE  Freezes
BY DEF RaiseDispute, Contract!RaiseDispute, Contract!MoveTo, Contract!money, Freezes

\* Time changes nothing that is owed.
LEMMA TickStays ==
  ASSUME EscrowInv, Tick
  PROVE  EscrowStays /\ UNCHANGED logs
<1>1. Contract!Intents = {0}
  BY DEF Contract!Intents
<1>2. \A i \in Contract!Intents : escrow[i] # "TIMELOCKED"
  BY <1>1 DEF EscrowInv
<1>3. onChain' = [i \in Contract!Intents |-> onChain[i]]
  BY <1>2 DEF Tick, Contract!Tick
<1>4. onChain' = onChain
  BY <1>1, <1>3 DEF EscrowInv
<1> QED
  BY <1>4 DEF EscrowStays, Tick, Contract!Tick, Contract!money

\* Every step is one of these to the escrow.
LEMMA StepOfEscrow ==
  ASSUME EscrowInv, JobInv, [Next]_vars
  PROVE  EscrowStep
<1> USE DEF EscrowStep
<1>1. CASE UNCHANGED <<logs, contract>>
  BY <1>1 DEF EscrowStays, contract
<1>2. ASSUME NEW k \in Kind, Send(k) \/ Mine(k) \/ Lose(k)
      PROVE  EscrowStep
  <2>1. CASE Mine(k) /\ Call(k)
    BY <2>1, CallPays
  <2>2. CASE UNCHANGED <<logs, contract>>
    BY <2>2, <1>1
  <2> QED
    BY <1>2, <2>1, <2>2 DEF Send, Mine, Lose
<1>3. CASE Watch
  <2>1. PICK log \in logs : Handle(log)
    BY <1>3 DEF Watch, HandleDisputeRaised, HandleIntentResolved
  <2> QED
    BY <2>1 DEF Handle, EscrowStays, contract
<1>4. ASSUME NEW party, Accept(party) \/ Reject(party) \/ RaiseDispute(party)
      PROVE  EscrowStep
  BY <1>1, <1>4, RaiseFreezes DEF Accept, Reject
<1>5. CASE ReadDueAcceptance \/ Reconcile
  BY <1>1, <1>5 DEF ReadDueAcceptance, Reconcile, ReadAbandoned, ForceAbandoned, ExpireProposal
<1>6. CASE Deliver \/ ReleaseExecute \/ FileComplaint \/ Escalate \/ \E r \in Remedies : Propose(r)
  BY <1>1, <1>6 DEF Deliver, ReleaseExecute, FileComplaint, Escalate, Propose
<1>7. CASE UNCHANGED vars
  BY <1>1, <1>7 DEF vars
<1> QED
  BY <1>2, <1>3, <1>4, <1>5, <1>6, <1>7, RelayPays, TickStays DEF Next

(***************************************************************************)
(* What follows for the escrow and its logs.                               *)
(***************************************************************************)

\* After a payment, the ledger says what was paid.
LEMMA Paid ==
  ASSUME EscrowInv, NEW c \in 0 .. Total, Pays(c)
  PROVE  /\ EscrowInv' /\ ~ HoldsMoney'
         /\ ledger'[Intent].toCustomer = c /\ ledger'[Intent].toProvider = Total - c
<1>1. /\ escrow \in [{0} -> {"FUNDED", "IN_DISPUTE", "RESOLVED"}]
      /\ ledger[0] \in Movements /\ ledger \in [{0} -> Movements]
      /\ ledger[0].toCustomer = 0 /\ ledger[0].toProvider = 0
  BY DEF EscrowInv, Pays
<1>2. escrow'[0] = "RESOLVED" /\ escrow' \in [{0} -> {"FUNDED", "IN_DISPUTE", "RESOLVED"}]
  BY <1>1 DEF Pays
<1>3. ledger'[0] = [deposited |-> ledger[0].deposited, toCustomer |-> c, toProvider |-> Total - c]
  BY <1>1, SharesAssumption DEF Pays, Movements
<1>4. ledger' \in [{0} -> Movements]
  BY <1>1, <1>3, SharesAssumption DEF Pays, Movements
<1> QED
  BY <1>2, <1>3, <1>4 DEF EscrowInv, HoldsMoney, Pays

LEMMA EscrowKept ==
  ASSUME EscrowInv, EscrowStep
  PROVE  EscrowInv'
<1>1. CASE EscrowStays
  BY <1>1 DEF EscrowStays, EscrowInv, HoldsMoney
<1>2. CASE Freezes
  BY <1>2 DEF Freezes, EscrowInv, HoldsMoney
<1>3. CASE Payment
  BY <1>3, Paid DEF Payment
<1> QED
  BY <1>1, <1>2, <1>3 DEF EscrowStep

\* What was frozen stays so until the customer has everything; who was paid
\* stays paid.
LEMMA FrozenKept ==
  ASSUME EscrowInv, EscrowStep
  PROVE  /\ Frozen => Frozen'
         /\ ~ HoldsMoney => ~ HoldsMoney' /\ UNCHANGED ledger
<1>1. CASE EscrowStays
  BY <1>1 DEF EscrowStays, Frozen, HoldsMoney
<1>2. CASE Freezes
  BY <1>2 DEF Freezes, EscrowInv, Frozen, HoldsMoney
<1>3. ASSUME NEW c \in 0 .. Total, Pays(c), escrow[Intent] = "FUNDED" \/ c = Total
      PROVE  /\ Frozen => Frozen'
             /\ HoldsMoney
  <2>1. CASE escrow[Intent] = "FUNDED"
    BY <1>3, <2>1 DEF Pays, Frozen, HoldsMoney
  <2>2. CASE c = Total
    <3>1. Total \in 0 .. Total /\ Total - Total = 0
      BY SharesAssumption
    <3> QED
      BY <1>3, <2>2, <3>1, Paid DEF Pays, Frozen
  <2> QED
    BY <1>3, <2>1, <2>2
<1> QED
  BY <1>1, <1>2, <1>3 DEF EscrowStep, Payment

LEMMA LogsKept ==
  ASSUME EscrowInv, LogsInv, EscrowStep
  PROVE  LogsInv'
<1>1. \A log \in logs : (log.name = "DisputeRaised" /\ Frozen')
                        \/ (log.name = "IntentResolved" /\ SaysPaid(log)')
  BY FrozenKept DEF LogsInv, SaysPaid
<1>2. CASE logs' \subseteq logs
  BY <1>1, <1>2 DEF LogsInv
<1>3. CASE Freezes
  BY <1>1, <1>3 DEF LogsInv, Freezes, Frozen, EscrowInv
<1>4. ASSUME NEW c \in 0 .. Total, Pays(c)
      PROVE  LogsInv'
  <2> DEFINE new == [name |-> "IntentResolved", toCustomer |-> c, toProvider |-> Total - c]
  <2>1. logs' = logs \cup {new}
    BY <1>4 DEF Pays, Resolves
  <2>2. SaysPaid(new)'
    BY <1>4, Paid DEF SaysPaid
  <2>3. new.name = "IntentResolved"
    OBVIOUS
  <2> HIDE DEF new
  <2> QED
    BY <1>1, <2>1, <2>2, <2>3 DEF LogsInv
<1> QED
  BY <1>2, <1>3, <1>4 DEF EscrowStep, Payment

(***************************************************************************)
(* What a step does to the job.                                            *)
(***************************************************************************)

\* The rows of the table that jobs with funded money follow here.
LEMMA LegalMove ==
  ASSUME NEW s, NEW event, Can(s, event)
  PROVE  /\ event = "DISPUTE_OPENED_ONCHAIN" => s = "DELIVERED" /\ NextState(s, event) = "DISPUTED"
         /\ event = "RELEASED_ONCHAIN" => s = "DELIVERED" /\ NextState(s, event) = "RELEASED"
         /\ event = "SETTLED_ONCHAIN" => s = "PROPOSED" /\ NextState(s, event) = "SETTLED"
         /\ event \in {"REJECTED", "ACCEPT_TIMEOUT"} => s = "PROPOSED" /\ NextState(s, event) = "ESCALATED"
<1>1. PICK move \in TRANSITIONS : move[1] = s /\ move[2] = event /\ NextState(s, event) = move[3]
  BY DEF Can, NextState
<1> QED
  BY <1>1 DEF TRANSITIONS, PRE_FUNDING

JobStays == UNCHANGED <<state, split, proposal, payments>>

\* A step of the escrow leaves what is said of the job true.
LEMMA JobKept ==
  ASSUME BooksInv, EscrowStep, JobStays
  PROVE  JobInv' /\ PaidInv'
BY FrozenKept
DEF BooksInv, JobStays, JobInv, PaidInv, BooksAreTheEscrows, EndIsPaid, PaymentsAreTheEscrows, HoldsMoney

\* The job moves on while the escrow stays, nothing is on file yet, and no end
\* is reached.
JobMoves ==
  /\ EscrowStays
  /\ UNCHANGED payments
  /\ state \notin {"RELEASED", "SETTLED"} /\ state' \in JobState \ {"RELEASED", "SETTLED"}
  /\ split' \in 0 .. Total
  /\ state' = "PROPOSED" => proposal' # "NONE"
  /\ state' \in Handled => Frozen

LEMMA MoveKept ==
  ASSUME BooksInv, JobMoves
  PROVE  JobInv' /\ PaidInv'
<1>1. Frozen => Frozen'
  BY DEF JobMoves, EscrowStays, Frozen, HoldsMoney
<1> QED
  BY <1>1
  DEF BooksInv, JobMoves, EscrowStays, JobInv, PaidInv, BooksAreTheEscrows, EndIsPaid,
      PaymentsAreTheEscrows, HoldsMoney

\* The parties and reconciliation.
LEMMA PartiesStep ==
  ASSUME BooksInv,
         \/ Deliver \/ FileComplaint \/ Escalate \/ ExpireProposal
         \/ \E remedy \in Remedies : Propose(remedy)
         \/ \E party \in {Customer, Provider} : Accept(party) \/ Reject(party)
  PROVE  JobMoves \/ JobStays
<1> USE DEF BooksInv, JobInv, JobMoves, JobStays, JobState, Handled, EscrowStays, contract
<1>1. CASE Deliver \/ FileComplaint
  BY <1>1 DEF Deliver, FileComplaint
<1>2. CASE Escalate
  BY <1>2 DEF Escalate
<1>3. ASSUME NEW remedy \in Remedies, Propose(remedy)
      PROVE  JobMoves
  BY <1>3, SharesAssumption DEF Propose
<1>4. ASSUME NEW party, Accept(party)
      PROVE  JobMoves \/ JobStays
  BY <1>4 DEF Accept
<1>5. ASSUME NEW party, Reject(party)
      PROVE  JobMoves
  BY <1>5, LegalMove DEF Reject, Apply
<1>6. CASE ExpireProposal
  BY <1>6, LegalMove DEF ExpireProposal, Apply
<1> QED
  BY <1>1, <1>2, <1>3, <1>4, <1>5, <1>6

\* The watcher: a freeze.
LEMMA FreezeRecorded ==
  ASSUME BooksInv, NEW log, HandleDisputeRaised(log)
  PROVE  JobMoves \/ JobStays
<1>1. Frozen
  BY DEF BooksInv, LogsInv, HandleDisputeRaised, Handle
<1>2. CASE Can(state, "DISPUTE_OPENED_ONCHAIN") /\ dispute # "NONE"
  BY <1>1, <1>2, LegalMove
  DEF BooksInv, JobInv, HandleDisputeRaised, Handle, ApplyIfLegal, JobMoves, JobState, Handled,
      EscrowStays, contract
<1> QED
  BY <1>2 DEF HandleDisputeRaised, Handle, ApplyIfLegal, JobStays

\* The watcher: a payment.
LEMMA PaymentRecorded ==
  ASSUME BooksInv, NEW log, HandleIntentResolved(log)
  PROVE  JobInv' /\ PaidInv'
<1>1. SaysPaid(log)
  BY DEF BooksInv, LogsInv, HandleIntentResolved, Handle
<1>2. EscrowStays /\ UNCHANGED split
  BY DEF HandleIntentResolved, Handle, EscrowStays, contract
<1>3. /\ ledger'[Intent].toCustomer = log.toCustomer /\ ledger'[Intent].toProvider = log.toProvider
      /\ ~ HoldsMoney /\ ~ HoldsMoney' /\ (Frozen <=> Frozen')
  BY <1>1, <1>2 DEF SaysPaid, EscrowStays, HoldsMoney, Frozen
<1>4. CASE JobStays
  <2>1. EscrowStep
    BY <1>2 DEF HandleIntentResolved, Handle, EscrowStep
  <2> QED
    BY <1>4, <2>1, JobKept
<1>5. CASE log.toCustomer = 0 /\ Record(0, log.toProvider) /\ ApplyIfLegal("RELEASED_ONCHAIN") /\ UNCHANGED proposal
  <2>1. state' = state \/ state' = "RELEASED"
    BY <1>5, LegalMove DEF ApplyIfLegal
  <2>2. log.toProvider = Total
    BY <1>1, <1>5, SharesAssumption DEF SaysPaid
  <2>3. PaymentsAreTheEscrows'
    BY <1>3, <1>5 DEF Record, PaymentsAreTheEscrows
  <2>4. JobInv'
    BY <1>2, <1>3, <1>5, <2>1 DEF BooksInv, JobInv, JobState, Handled
  <2>5. EndIsPaid'
    BY <1>2, <1>3, <2>1, <2>2 DEF BooksInv, PaidInv, BooksAreTheEscrows, EndIsPaid, EscrowStays
  <2> QED
    BY <1>3, <2>3, <2>4, <2>5 DEF PaidInv, BooksAreTheEscrows
<1>6. CASE /\ ~ Mismatch(log)
           /\ Record(log.toCustomer, log.toProvider) /\ MarkSettled
           /\ ApplyIfLegal("SETTLED_ONCHAIN")
  <2>1. state' = state \/ (state = "PROPOSED" /\ state' = "SETTLED")
    BY <1>6, LegalMove DEF ApplyIfLegal
  <2>2. proposal = "NONE" \/ log.toProvider = split
    BY <1>6 DEF Mismatch
  <2>3. PaymentsAreTheEscrows'
    BY <1>3, <1>6 DEF Record, PaymentsAreTheEscrows
  <2>4. JobInv'
    <3>1. state = "PROPOSED" => log.toProvider = 0
      BY <1>1 DEF BooksInv, JobInv, Handled, Frozen, SaysPaid, HoldsMoney
    <3>2. state = "PROPOSED" => split = 0 /\ proposal # "NONE"
      BY <2>2, <3>1 DEF BooksInv, JobInv
    <3>3. proposal' = "NONE" <=> proposal = "NONE"
      BY <1>6 DEF MarkSettled
    <3> QED
      BY <1>2, <1>3, <2>1, <3>2, <3>3 DEF BooksInv, JobInv, JobState, Handled
  <2>5. EndIsPaid'
    BY <1>1, <1>2, <1>3, <2>1, <2>2, SharesAssumption
    DEF BooksInv, JobInv, PaidInv, BooksAreTheEscrows, EndIsPaid, EscrowStays, SaysPaid
  <2> QED
    BY <1>3, <2>3, <2>4, <2>5 DEF PaidInv, BooksAreTheEscrows
<1> QED
  BY <1>2, <1>4, <1>5, <1>6 DEF HandleIntentResolved, SettleOnChain, JobStays

(***************************************************************************)
(* The invariant.                                                          *)
(***************************************************************************)

LEMMA InvInit == Init => BooksInv
<1> SUFFICES ASSUME Init
             PROVE  BooksInv
  OBVIOUS
<1>1. ledger[0] = [deposited |-> Total, toCustomer |-> 0, toProvider |-> 0] /\ ledger \in [{0} -> Movements]
  BY SharesAssumption DEF Init, Movements
<1>2. EscrowInv
  BY <1>1 DEF Init, EscrowInv, HoldsMoney
<1>3. JobInv
  BY SharesAssumption DEF Init, JobInv, JobState, Handled
<1> QED
  BY <1>2, <1>3 DEF Init, BooksInv, LogsInv, PaidInv, BooksAreTheEscrows, EndIsPaid, PaymentsAreTheEscrows

LEMMA InvNext == BooksInv /\ [Next]_vars => BooksInv'
<1> SUFFICES ASSUME BooksInv, [Next]_vars
             PROVE  BooksInv'
  OBVIOUS
<1>1. EscrowStep
  BY StepOfEscrow DEF BooksInv
<1>2. EscrowInv' /\ LogsInv'
  BY <1>1, EscrowKept, LogsKept DEF BooksInv
<1>3. CASE JobMoves \/ JobStays
  BY <1>1, <1>2, <1>3, JobKept, MoveKept DEF BooksInv
<1>4. CASE \/ Deliver \/ FileComplaint \/ Escalate \/ ExpireProposal
           \/ \E remedy \in Remedies : Propose(remedy)
           \/ \E party \in {Customer, Provider} : Accept(party) \/ Reject(party)
  BY <1>3, <1>4, PartiesStep
<1>5. CASE Watch
  <2>1. PICK log \in logs : HandleDisputeRaised(log) \/ HandleIntentResolved(log)
    BY <1>5 DEF Watch
  <2> QED
    BY <1>2, <1>3, <2>1, FreezeRecorded, PaymentRecorded DEF BooksInv
<1>6. CASE \/ ReleaseExecute \/ ReadDueAcceptance \/ ReadAbandoned \/ ForceAbandoned \/ Relay \/ Tick
           \/ \E party \in {Customer, Provider} : RaiseDispute(party)
           \/ \E k \in Kind : Send(k) \/ Mine(k) \/ Lose(k)
           \/ UNCHANGED vars
  <2>1. JobStays
    BY <1>6
    DEF ReleaseExecute, ReadDueAcceptance, ReadAbandoned, ForceAbandoned, Relay, Tick, RaiseDispute,
        Send, Mine, Lose, vars, job, JobStays
  <2> QED
    BY <1>3, <2>1
<1> QED
  BY <1>4, <1>5, <1>6 DEF Next, Reconcile

LEMMA Invariant == Spec => []BooksInv
BY InvInit, InvNext, PTL DEF Spec

\* What the backend says became of the money is what the escrow did, for every
\* total and every split (chain_events.py:98-119).
THEOREM BooksAgree == Spec => []BooksAreTheEscrows
<1>1. BooksInv => BooksAreTheEscrows
  BY DEF BooksInv, PaidInv
<1> QED
  BY <1>1, Invariant, PTL

\* A job the backend handles as disputed holds money nobody can move by two
\* signatures (chain_events.py:67-73).
THEOREM DisputedStaysFrozen == Spec => []DisputedIsFrozen
<1>1. BooksInv => DisputedIsFrozen
  BY DEF BooksInv, JobInv, JobState, Handled, Frozen, DisputedIsFrozen, HoldsMoney
<1> QED
  BY <1>1, Invariant, PTL

\* Nobody proposes a split to the escrow (disputes/service.py:315 goes straight to
\* two signatures), so an intent that was frozen pays the customer everything,
\* whatever the parties accept ...
FrozenIsRefunded ==
  escrow[Intent] = "IN_DISPUTE" /\ escrow'[Intent] # "IN_DISPUTE" =>
    ledger'[Intent].toCustomer = Total /\ ledger'[Intent].toProvider = 0

\* The step that ends a dispute on chain pays the customer everything (sol:394-428).
THEOREM DisputesAreRefunded == Spec => [][FrozenIsRefunded]_vars
<1>1. BooksInv /\ [Next]_vars => [FrozenIsRefunded]_vars
  <2> SUFFICES ASSUME BooksInv, Next
               PROVE  FrozenIsRefunded
    BY DEF FrozenIsRefunded, vars, contract
  <2>1. EscrowInv /\ (Frozen => Frozen') /\ EscrowInv'
    BY StepOfEscrow, FrozenKept, EscrowKept DEF BooksInv
  <2> QED
    BY <2>1 DEF FrozenIsRefunded, Frozen
<1> QED
  BY <1>1, Invariant, PTL DEF Spec

\* ... and a job that ends SETTLED is one whose proposal gave the provider nothing.
SettledIsRefunded == state = "SETTLED" => split = 0 /\ ledger[Intent].toCustomer = Total

\* For every total and every remedy, SETTLED means that the customer got it all back
\* (disputes/service.py:315, chain_events.py:98-119).
THEOREM SettlementsAreRefunds == Spec => []SettledIsRefunded
<1>1. BooksInv => SettledIsRefunded
  BY SharesAssumption DEF BooksInv, JobInv, PaidInv, BooksAreTheEscrows, EndIsPaid, SettledIsRefunded
<1> QED
  BY <1>1, Invariant, PTL

(***************************************************************************)
(* The contract under the backend is the contract of IntentraEscrow.       *)
(***************************************************************************)

\* A payment of two signers is a call of the contract.
LEMMA ExecuteIsACall ==
  ASSUME EscrowInv, NEW c \in 0 .. Total,
         NEW a \in {Customer, Provider, Arbitrator}, NEW b \in {Customer, Provider, Arbitrator},
         Execute(c, a, b)
  PROVE  Contract!Next
<1>1. 0 \in Contract!Intents /\ c \in Contract!Splits(0)
  BY DEF Contract!Intents, Contract!Splits, EscrowInv
<1>2. Contract!ExecuteWithSignatures(0, c, a, b)
  BY DEF Execute
<1> QED
  BY <1>1, <1>2 DEF Contract!Next

LEMMA AbandonIsACall ==
  ASSUME Abandon
  PROVE  Contract!Next
<1>1. 0 \in Contract!Intents /\ Contract!ExecuteAbandonment(0)
  BY DEF Contract!Intents, Abandon
<1> QED
  BY <1>1 DEF Contract!Next

\* Whatever the backend and the parties do, the escrow takes its own steps only: no
\* step of the model pays in a way the contract has no function for.
THEOREM OnlyCallsMoveMoney == Spec => [][Contract!Next]_contract
<1>1. BooksInv /\ [Next]_vars => [Contract!Next]_contract
  <2> SUFFICES ASSUME BooksInv, [Next]_vars, contract' # contract
               PROVE  Contract!Next
    OBVIOUS
  <2>1. EscrowInv /\ JobInv /\ 0 \in 0 .. Total
    BY SharesAssumption DEF BooksInv
  <2>2. ASSUME NEW k \in Kind, Call(k)
        PROVE  Contract!Next
    <3>1. Total - split \in 0 .. Total
      BY <2>1, SharesAssumption DEF JobInv
    <3> QED
      BY <2>1, <2>2, <3>1, ExecuteIsACall, AbandonIsACall DEF Call
  <2>3. CASE \E k \in Kind : Send(k) \/ Mine(k) \/ Lose(k)
    BY <2>2, <2>3 DEF Send, Mine, Lose
  <2>4. CASE Relay
    BY <2>1, <2>4, ExecuteIsACall, AbandonIsACall DEF Relay
  <2>5. ASSUME NEW party \in {Customer, Provider}, RaiseDispute(party)
        PROVE  Contract!Next
    <3>1. 0 \in Contract!Intents /\ Contract!RaiseDispute(0, party)
      BY <2>5 DEF Contract!Intents, RaiseDispute
    <3> QED
      BY <3>1 DEF Contract!Next
  <2>6. CASE Tick
    BY <2>6 DEF Tick, Contract!Next
  <2>7. CASE \/ Deliver \/ ReleaseExecute \/ FileComplaint \/ Escalate
             \/ \E remedy \in Remedies : Propose(remedy)
             \/ \E party \in {Customer, Provider} : Accept(party) \/ Reject(party)
             \/ ReadDueAcceptance \/ Reconcile \/ Watch \/ UNCHANGED vars
    BY <2>7
    DEF Deliver, ReleaseExecute, FileComplaint, Escalate, Propose, Accept, Reject, ReadDueAcceptance,
        Reconcile, ReadAbandoned, ForceAbandoned, ExpireProposal, Watch, HandleDisputeRaised,
        HandleIntentResolved, Handle, vars
  <2> QED
    BY <2>3, <2>4, <2>5, <2>6, <2>7 DEF Next
<1> QED
  BY <1>1, Invariant, PTL DEF Spec
=============================================================================
