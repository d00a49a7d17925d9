--------------------------- MODULE DisputesProofs ---------------------------
(***************************************************************************)
(* What Disputes promises for every number of requests, processes and      *)
(* failures, and every set of splits.                                      *)
(***************************************************************************)
EXTENDS Disputes, TLAPS

(***************************************************************************)
(* The table.                                                              *)
(***************************************************************************)

\* A legal event leads where one of its moves leads (states.py:100-106).
LEMMA NextIsAMove ==
  ASSUME NEW s, NEW event, Can(s, event)
  PROVE  \E move \in TRANSITIONS : move[1] = s /\ move[2] = event /\ NextState(s, event) = move[3]
BY DEF Can, NextState

\* No legal event takes a delivered job back before its delivery, or cancels it
\* (states.py:62-89).
LEMMA JobStateClosed ==
  ASSUME NEW s \in JobState, NEW event, Can(s, event)
  PROVE  NextState(s, event) \in JobState
<1>1. \A move \in TRANSITIONS : move[1] \in JobState => move[3] \in JobState
  BY DEF TRANSITIONS, JobState, PRE_FUNDING
<1>2. QED
  BY <1>1, NextIsAMove

\* No legal event leaves an end state: what the machine promises as long as it is
\* asked about the state the job is in (states.py:91-92).
THEOREM NothingLeavesTerminal ==
  ASSUME NEW s \in TERMINAL, NEW event
  PROVE  ~ Can(s, event)
BY DEF Can, TRANSITIONS, TERMINAL, PRE_FUNDING

LEMMA ApplyType ==
  ASSUME NEW s \in JobState, NEW event, Apply(s, event)
  PROVE  state' \in JobState
BY JobStateClosed DEF Apply

LEMMA ApplyIfLegalType ==
  ASSUME state \in JobState, NEW event, ApplyIfLegal(event)
  PROVE  state' \in JobState
BY JobStateClosed DEF ApplyIfLegal

(***************************************************************************)
(* Type correctness.                                                       *)
(***************************************************************************)
LadderState == {"none", "scheduled", "deciding"}

LEMMA ScheduleLadderType ==
  ASSUME TypeOK, NEW p \in Procs, ScheduleLadder(p)
  PROVE  ladder' \in [Procs -> LadderState]
BY DEF TypeOK, ScheduleLadder, LadderState

LEMMA LoadType ==
  ASSUME TypeOK, NEW r \in Requests, NEW kind \in {"respond", "accept", "reject"},
         NEW party \in Parties, Load(r, kind, party)
  PROVE  TypeOK'
<1> DEFINE w == [pc |-> "loaded", kind |-> kind, party |-> party, seen |-> state]
<1>1. w \in Work
  BY DEF TypeOK, Work
<1>2. request' = [request EXCEPT ![r] = w]
  BY DEF Load
<1>3. request' \in [Requests -> {NoWork} \cup Work]
  BY <1>1, <1>2 DEF TypeOK
<1>4. QED
  BY <1>3 DEF Load, TypeOK, job

\* What a request is when it is not idle.
LEMMA BusyIsWork ==
  ASSUME TypeOK, NEW r \in Requests, request[r].pc # "idle"
  PROVE  request[r] \in Work
BY DEF TypeOK, NoWork

LEMMA AcquireType ==
  ASSUME TypeOK, NEW r \in Requests, Acquire(r)
  PROVE  TypeOK'
<1> DEFINE w == [request[r] EXCEPT !.pc = "locked"]
<1>1. request[r] \in Work
  BY BusyIsWork DEF Acquire
<1>2. w \in Work
  BY <1>1 DEF Work
<1>3. request' = [request EXCEPT ![r] = w] \/ request' = [request EXCEPT ![r] = NoWork]
  BY DEF Acquire
<1>4. request' \in [Requests -> {NoWork} \cup Work]
  BY <1>2, <1>3 DEF TypeOK
<1>5. holder' \in Requests \cup {NoRequest}
  BY DEF TypeOK, Acquire
<1>6. QED
  BY <1>4, <1>5 DEF Acquire, TypeOK, job

LEMMA CommitType ==
  ASSUME TypeOK, NEW r \in Requests, NEW kind \in {"respond", "accept", "reject"}, Commit(r, kind)
  PROVE  /\ request' \in [Requests -> {NoWork} \cup Work]
         /\ holder' \in Requests \cup {NoRequest}
BY DEF TypeOK, Commit

LEMMA HolderIsWork ==
  ASSUME TypeOK, OneHolder, NEW r \in Requests, holder = r
  PROVE  request[r] \in Work /\ request[r].pc = "locked"
BY BusyIsWork DEF OneHolder

LEMMA WorkFields ==
  ASSUME NEW w \in Work
  PROVE  w.party \in Parties /\ w.seen \in JobState
BY DEF Work

LEMMA RespondType ==
  ASSUME TypeOK, OneHolder, NEW r \in Requests, Respond(r)
  PROVE  TypeOK'
<1>1. request[r].seen \in JobState
  BY HolderIsWork, WorkFields DEF Respond, Commit
<1>2. state' \in JobState
  BY <1>1, ApplyType DEF Respond
<1>3. At[r] \in Procs
  BY ProcsAssumption
<1>4. ladder' \in [Procs -> LadderState]
  BY <1>3, ScheduleLadderType DEF Respond
<1>5. request' \in [Requests -> {NoWork} \cup Work] /\ holder' \in Requests \cup {NoRequest}
  BY CommitType DEF Respond
<1>6. QED
  BY <1>2, <1>4, <1>5 DEF Respond, TypeOK, DisputeStatus, LadderState

\* An answer goes on record for the party of the request.
LEMMA RecordDecisionType ==
  ASSUME TypeOK, NEW q \in Work, NEW decision \in {"ACCEPT", "REJECT"}, RecordDecision(q, decision)
  PROVE  /\ answers' \in [Parties -> {"NONE", "ACCEPT", "REJECT"}]
         /\ answers'[q.party] = decision
         /\ \A p \in Parties \ {q.party} : answers'[p] = answers[p]
BY WorkFields DEF TypeOK, RecordDecision

LEMMA RejectType ==
  ASSUME TypeOK, OneHolder, NEW r \in Requests, Reject(r)
  PROVE  TypeOK'
<1>1. request[r] \in Work
  BY HolderIsWork DEF Reject, Commit
<1>2. state' \in JobState
  BY <1>1, WorkFields, ApplyType DEF Reject
<1>3. answers' \in [Parties -> {"NONE", "ACCEPT", "REJECT"}]
  BY <1>1, RecordDecisionType DEF Reject
<1>4. request' \in [Requests -> {NoWork} \cup Work] /\ holder' \in Requests \cup {NoRequest}
  BY CommitType DEF Reject
<1>5. QED
  BY <1>2, <1>3, <1>4 DEF Reject, TypeOK, DisputeStatus, ProposalStatus

\* A party that has not answered means that nothing was paid out.
LEMMA UnansweredIsUnpaid ==
  ASSUME TypeOK, ExecutedOnceByBoth, NEW p \in Parties, answers[p] = "NONE"
  PROVE  executed = 0
BY DEF TypeOK, ExecutedOnceByBoth

\* What is known of an answer that is about to be committed.
LEMMA AnswerIsFirst ==
  ASSUME TypeOK, OneHolder, NotYetAnswered, ExecutedOnceByBoth, NEW r \in Requests,
         holder = r, request[r].kind # "respond"
  PROVE  executed = 0 /\ answers[request[r].party] = "NONE"
<1>1. request[r] \in Work /\ request[r].pc = "locked"
  BY HolderIsWork
<1>2. answers[request[r].party] = "NONE"
  BY <1>1 DEF NotYetAnswered
<1>3. QED
  BY <1>1, <1>2, WorkFields, UnansweredIsUnpaid

LEMMA AcceptType ==
  ASSUME TypeOK, OneHolder, NotYetAnswered, ExecutedOnceByBoth, NEW r \in Requests, Accept(r)
  PROVE  TypeOK'
<1>1. request[r] \in Work
  BY HolderIsWork DEF Accept, Commit
<1>2. answers' \in [Parties -> {"NONE", "ACCEPT", "REJECT"}]
  BY <1>1, RecordDecisionType DEF Accept
<1>3. executed = 0
  BY AnswerIsFirst DEF Accept, Commit
<1>4. executed' \in 0 .. 1 /\ proposal' \in ProposalStatus
  BY <1>3 DEF Accept, TypeOK, ProposalStatus
<1>5. request' \in [Requests -> {NoWork} \cup Work] /\ holder' \in Requests \cup {NoRequest}
  BY CommitType DEF Accept
<1>6. QED
  BY <1>2, <1>4, <1>5 DEF Accept, TypeOK

LEMMA LadderType ==
  ASSUME TypeOK, NEW p \in Procs, BeginLadder(p) \/ Decide(p) \/ LadderFails(p)
  PROVE  TypeOK'
<1>1. ASSUME BeginLadder(p) PROVE TypeOK'
  BY <1>1 DEF BeginLadder, TypeOK, job
<1>2. ASSUME LadderEnds(p) PROVE ladder' \in [Procs -> LadderState]
  BY <1>2 DEF LadderEnds, TypeOK, LadderState
<1>3. ASSUME NEW remedy \in Remedies, Propose(p, remedy) PROVE TypeOK'
  <2>1. state' \in JobState
    BY <1>3, ApplyType DEF Propose, TypeOK
  <2>2. split' \in 0 .. Whole
    BY <1>3, SharesAssumption DEF Propose
  <2>3. ladder' \in [Procs -> LadderState]
    BY <1>2, <1>3 DEF Propose
  <2>4. QED
    BY <1>3, <2>1, <2>2, <2>3
    DEF Propose, LadderEnds, TypeOK, LadderState, DisputeStatus, ProposalStatus, Clock
<1>4. ASSUME Escalate(p) PROVE TypeOK'
  <2>1. state' \in JobState
    BY <1>4, ApplyType DEF Escalate, TypeOK
  <2>2. ladder' \in [Procs -> LadderState]
    BY <1>2, <1>4 DEF Escalate
  <2>3. QED
    BY <1>4, <2>1, <2>2 DEF Escalate, LadderEnds, TypeOK, LadderState, DisputeStatus
<1>5. ASSUME ComesTooLate(p) PROVE TypeOK'
  <2>1. ladder' \in [Procs -> LadderState]
    BY <1>2, <1>5 DEF ComesTooLate
  <2>2. QED
    BY <1>5, <2>1 DEF ComesTooLate, LadderEnds, TypeOK, LadderState
<1>6. ASSUME LadderFails(p) PROVE TypeOK'
  BY <1>6, BoundsAssumption DEF LadderFails, TypeOK, job
<1>7. QED
  BY <1>1, <1>3, <1>4, <1>5, <1>6 DEF Decide

LEMMA ReconciliationType ==
  ASSUME TypeOK,
         \/ ReadDueResponses \/ TimeOutResponse
         \/ ReadDueAcceptances \/ ExpireProposal
         \/ RunPendingLadders
         \/ ReadLateDisputes \/ CloseLateDispute
  PROVE  TypeOK'
<1>1. ASSUME NEW item \in {"response", "acceptance", "late"}, ReadList(item) PROVE TypeOK'
  BY <1>1 DEF ReadList, TypeOK, job
<1>2. ASSUME TimeOutResponse PROVE TypeOK'
  <2>1. state' \in JobState
    BY <1>2, ApplyType DEF TimeOutResponse, TypeOK
  <2>2. ladder' \in [Procs -> LadderState]
    BY <1>2, ProcsAssumption, ScheduleLadderType DEF TimeOutResponse, TypeOK, LadderState
  <2>3. QED
    BY <1>2, <2>1, <2>2 DEF TimeOutResponse, MarkNoResponse, ActOn, TypeOK, LadderState, DisputeStatus
<1>3. ASSUME ExpireProposal PROVE TypeOK'
  <2>1. state' \in JobState
    BY <1>3, ApplyType DEF ExpireProposal, TypeOK
  <2>2. QED
    BY <1>3, <2>1 DEF ExpireProposal, MarkExpired, ActOn, TypeOK, DisputeStatus, ProposalStatus
<1>4. ASSUME RunPendingLadders PROVE TypeOK'
  <2>1. ladder' \in [Procs -> LadderState]
    BY <1>4, ProcsAssumption, ScheduleLadderType DEF RunPendingLadders
  <2>2. QED
    BY <1>4, <2>1 DEF RunPendingLadders, TypeOK, LadderState, job
<1>5. ASSUME CloseLateDispute PROVE TypeOK'
  BY <1>5 DEF CloseLateDispute, MarkTooLate, ActOn, TypeOK, DisputeStatus
<1>6. QED
  BY <1>1, <1>2, <1>3, <1>4, <1>5 DEF ReadDueResponses, ReadDueAcceptances, ReadLateDisputes

(***************************************************************************)
(* A handler of a log writes the five variables below and nothing else.    *)
(***************************************************************************)
HandledType ==
  /\ state \in JobState
  /\ dispute \in DisputeStatus
  /\ proposal \in ProposalStatus
  /\ responseDue \in Clock
  /\ acceptDue \in Clock

LEMMA HandlerType ==
  ASSUME TypeOK, NEW share \in 0 .. Whole,
         DisputeRaised \/ AIProposalSubmitted(share) \/ AppealEscalated \/ IntentResolved(share)
  PROVE  HandledType'
<1>1. state' \in JobState
  BY ApplyIfLegalType
  DEF TypeOK, DisputeRaised, AIProposalSubmitted, AppealEscalated, IntentResolved
<1>2. dispute' \in DisputeStatus /\ proposal' \in ProposalStatus
  BY DEF TypeOK, DisputeRaised, AIProposalSubmitted, AppealEscalated, IntentResolved,
         MarkOpen, MarkTimelocked, MarkAppealed, MarkSettled, DisputeStatus, ProposalStatus
<1>3. responseDue' \in Clock /\ acceptDue' \in Clock
  BY DEF TypeOK, DisputeRaised, AIProposalSubmitted, AppealEscalated, IntentResolved,
         MarkOpen, MarkTimelocked, Clock
<1>4. QED
  BY <1>1, <1>2, <1>3 DEF HandledType

\* What every branch of Watch does.
Handled ==
  /\ HandledType'
  /\ escrow' \in {"FUNDED", "IN_DISPUTE", "TIMELOCKED", "APPEALED", "RESOLVED"}
  /\ UNCHANGED <<split, answers, executed, tasks>>

LEMMA WatchHandles ==
  ASSUME TypeOK, Watch
  PROVE  Handled
<1>1. 0 \in 0 .. Whole
  BY SharesAssumption
<1>2. CASE HandleLog({"FUNDED"}, "IN_DISPUTE", DisputeRaised)
  BY <1>1, <1>2, HandlerType DEF HandleLog, Handled
<1>3. ASSUME NEW share \in 0 .. Whole,
             HandleLog({"IN_DISPUTE"}, "TIMELOCKED", AIProposalSubmitted(share))
      PROVE  Handled
  BY <1>3, HandlerType DEF HandleLog, Handled
<1>4. ASSUME NEW share \in 0 .. Whole,
             HandleLog({"FUNDED", "TIMELOCKED", "APPEALED"}, "RESOLVED", IntentResolved(share))
      PROVE  Handled
  BY <1>4, HandlerType DEF HandleLog, Handled
<1>5. CASE HandleLog({"TIMELOCKED"}, "APPEALED", AppealEscalated)
  BY <1>1, <1>5, HandlerType DEF HandleLog, Handled
<1>6. CASE HandleLog({"IN_DISPUTE"}, "RESOLVED", IntentResolved(0))
  BY <1>1, <1>6, HandlerType DEF HandleLog, Handled
<1>7. QED
  BY <1>2, <1>3, <1>4, <1>5, <1>6 DEF Watch

LEMMA CrashType ==
  ASSUME TypeOK, NEW p \in Procs, Crash(p)
  PROVE  TypeOK'
<1>1. request' \in [Requests -> {NoWork} \cup Work]
  BY DEF TypeOK, Crash
<1>2. holder' \in Requests \cup {NoRequest}
  BY DEF TypeOK, Crash
<1>3. ladder' \in [Procs -> LadderState]
  BY DEF TypeOK, Crash, LadderState
<1>4. failures' \in 0 .. MaxFailures
  BY BoundsAssumption DEF TypeOK, Crash
<1>5. pass' \in {"idle", "response", "acceptance", "late"}
  BY DEF TypeOK, Crash
<1>6. UNCHANGED <<state, dispute, proposal, split, answers, responseDue, acceptDue, executed, escrow>>
  BY DEF Crash, job
<1>7. QED
  BY <1>1, <1>2, <1>3, <1>4, <1>5, <1>6 DEF TypeOK, LadderState

(***************************************************************************)
(* Paid out once, by both.  The property alone is not inductive: that an   *)
(* acceptance is the first of its party is checked when the row is locked  *)
(* and used when the answer is committed, and nobody else may come between *)
(* because the row has one holder.                                         *)
(***************************************************************************)
Locking == OneHolder /\ NotYetAnswered /\ ExecutedOnceByBoth
IInv == TypeOK /\ Locking

LEMMA QuietStep ==
  ASSUME Locking, UNCHANGED <<answers, executed, request, holder>>
  PROVE  Locking'
BY DEF Locking, OneHolder, NotYetAnswered, ExecutedOnceByBoth

LEMMA LoadLocking ==
  ASSUME IInv, NEW r \in Requests, NEW kind \in {"respond", "accept", "reject"},
         NEW party \in Parties, Load(r, kind, party)
  PROVE  Locking'
<1>1. \A s \in Requests \ {r} : request'[s] = request[s]
  BY DEF IInv, TypeOK, Load
<1>2. request'[r].pc = "loaded" /\ request[r].pc = "idle"
  BY DEF IInv, TypeOK, Load, NoWork
<1>3. UNCHANGED <<answers, executed, holder>>
  BY DEF Load, job
<1>4. OneHolder'
  BY <1>1, <1>2, <1>3 DEF IInv, Locking, OneHolder
<1>5. NotYetAnswered'
  BY <1>1, <1>2, <1>3 DEF IInv, Locking, NotYetAnswered
<1>6. QED
  BY <1>3, <1>4, <1>5 DEF IInv, Locking, ExecutedOnceByBoth

\* Who may answer has not answered.
LEMMA AdmittedOnce ==
  ASSUME NEW q, Admitted(q), q.kind # "respond"
  PROVE  answers[q.party] = "NONE"
BY DEF Admitted

LEMMA AcquireLocking ==
  ASSUME IInv, NEW r \in Requests, Acquire(r)
  PROVE  Locking'
<1>1. request[r] \in Work /\ request[r].pc = "loaded" /\ holder = NoRequest
  BY BusyIsWork DEF IInv, Acquire, RowIsFree
<1>2. \A s \in Requests \ {r} : request'[s] = request[s]
  BY DEF IInv, TypeOK, Acquire
<1>3. \A s \in Requests : request[s].pc # "locked"
  BY <1>1, RequestsAssumption DEF IInv, Locking, OneHolder
<1>4. UNCHANGED <<answers, executed>>
  BY DEF Acquire, job
<1>5. CASE Admitted(request[r])
  <2>1. request' = [request EXCEPT ![r] = [request[r] EXCEPT !.pc = "locked"]] /\ holder' = r
    BY <1>5 DEF Acquire
  <2>2. request'[r] = [request[r] EXCEPT !.pc = "locked"]
    BY <2>1 DEF IInv, TypeOK
  <2>3. /\ request'[r].pc = "locked"
        /\ request'[r].kind = request[r].kind
        /\ request'[r].party = request[r].party
    BY <1>1, <2>2 DEF Work
  <2>4. OneHolder'
    BY <1>2, <1>3, <2>1, <2>3 DEF OneHolder
  <2>5. request[r].kind # "respond" => answers[request[r].party] = "NONE"
    BY <1>5, AdmittedOnce
  <2>6. NotYetAnswered'
    BY <1>2, <1>3, <1>4, <2>3, <2>5 DEF NotYetAnswered
  <2>7. QED
    BY <1>4, <2>4, <2>6 DEF IInv, Locking, ExecutedOnceByBoth
<1>6. CASE ~ Admitted(request[r])
  <2>1. request'[r] = NoWork /\ holder' = NoRequest
    BY <1>1, <1>6 DEF IInv, TypeOK, Acquire
  <2>2. \A s \in Requests : request'[s].pc # "locked"
    BY <1>2, <1>3, <2>1 DEF NoWork
  <2>3. OneHolder' /\ NotYetAnswered'
    BY <2>1, <2>2, RequestsAssumption DEF OneHolder, NotYetAnswered
  <2>4. QED
    BY <1>4, <2>3 DEF IInv, Locking, ExecutedOnceByBoth
<1>7. QED
  BY <1>5, <1>6

\* When the holder is done nobody is past the lock.
LEMMA CommitLocking ==
  ASSUME IInv, NEW r \in Requests, NEW kind, Commit(r, kind)
  PROVE  OneHolder' /\ NotYetAnswered'
<1>1. \A s \in Requests \ {r} : request'[s] = request[s] /\ request[s].pc # "locked"
  BY DEF IInv, TypeOK, Locking, OneHolder, Commit
<1>2. request'[r] = NoWork /\ holder' = NoRequest
  BY DEF IInv, TypeOK, Commit
<1>3. \A s \in Requests : request'[s].pc # "locked"
  BY <1>1, <1>2 DEF NoWork
<1>4. QED
  BY <1>2, <1>3, RequestsAssumption DEF OneHolder, NotYetAnswered

LEMMA FinishLocking ==
  ASSUME IInv, NEW r \in Requests, Finish(r)
  PROVE  Locking'
<1>1. OneHolder' /\ NotYetAnswered'
  BY CommitLocking DEF Finish, Respond, Accept, Reject
<1>2. CASE Respond(r)
  BY <1>1, <1>2 DEF Respond, IInv, Locking, ExecutedOnceByBoth
<1>3. CASE Accept(r)
  <2>1. request[r] \in Work /\ request[r].kind = "accept" /\ holder = r
    BY <1>3, HolderIsWork DEF Accept, Commit, IInv, Locking
  <2>2. executed = 0
    BY <2>1, AnswerIsFirst DEF IInv, Locking
  <2>3. /\ answers'[request[r].party] = "ACCEPT"
        /\ \A p \in Parties \ {request[r].party} : answers'[p] = answers[p]
    BY <1>3, <2>1, RecordDecisionType DEF Accept, IInv
  <2>4. CASE answers[Other(request[r].party)] = "ACCEPT"
    <3>1. executed' = 1
      BY <1>3, <2>2, <2>4 DEF Accept
    <3>2. \A p \in Parties \ {request[r].party} : p = Other(request[r].party)
      BY <2>1, WorkFields DEF Parties, Other
    <3>3. \A p \in Parties : answers'[p] = "ACCEPT"
      BY <2>3, <2>4, <3>2
    <3>4. QED
      BY <1>1, <3>1, <3>3 DEF Locking, ExecutedOnceByBoth
  <2>5. CASE answers[Other(request[r].party)] # "ACCEPT"
    <3>1. executed' = 0
      BY <1>3, <2>2, <2>5 DEF Accept
    <3>2. QED
      BY <1>1, <3>1 DEF Locking, ExecutedOnceByBoth
  <2>6. QED
    BY <2>4, <2>5
<1>4. CASE Reject(r)
  <2>1. request[r].kind = "reject" /\ holder = r
    BY <1>4 DEF Reject, Commit
  <2>2. executed' = 0
    BY <1>4, <2>1, AnswerIsFirst DEF Reject, IInv, Locking
  <2>3. QED
    BY <1>1, <2>2 DEF Locking, ExecutedOnceByBoth
<1>5. QED
  BY <1>2, <1>3, <1>4 DEF Finish

LEMMA CrashLocking ==
  ASSUME IInv, NEW p \in Procs, Crash(p)
  PROVE  Locking'
<1> DEFINE lost == {r \in Requests : request[r] # NoWork /\ At[r] = p}
<1>1. \A r \in Requests : request'[r] = IF r \in lost THEN NoWork ELSE request[r]
  BY DEF Crash
<1>2. holder' = IF holder \in lost THEN NoRequest ELSE holder
  BY DEF Crash
<1>3. UNCHANGED <<answers, executed>>
  BY DEF Crash, job
<1>4. OneHolder'
  BY <1>1, <1>2, RequestsAssumption DEF IInv, Locking, OneHolder, NoWork
<1>5. NotYetAnswered'
  BY <1>1, <1>3 DEF IInv, Locking, NotYetAnswered, NoWork
<1>6. QED
  BY <1>3, <1>4, <1>5 DEF IInv, Locking, ExecutedOnceByBoth

(***************************************************************************)
(* The invariant holds at the start and is kept by every step.             *)
(***************************************************************************)
LEMMA InitIInv == Init => IInv
<1> SUFFICES ASSUME Init PROVE IInv
  OBVIOUS
<1>1. TypeOK
  BY SharesAssumption, BoundsAssumption
  DEF Init, TypeOK, JobState, DisputeStatus, ProposalStatus, Clock
<1>2. Locking
  BY RequestsAssumption DEF Init, Locking, OneHolder, NotYetAnswered, ExecutedOnceByBoth, NoWork
<1>3. QED
  BY <1>1, <1>2 DEF IInv

LEMMA NextIInv == IInv /\ [Next]_vars => IInv'
<1> SUFFICES ASSUME IInv, [Next]_vars PROVE IInv'
  OBVIOUS
<1> USE DEF IInv
<1>1. CASE FileComplaint
  <2>1. TypeOK'
    BY <1>1 DEF FileComplaint, TypeOK, DisputeStatus, tasks
  <2>2. QED
    BY <1>1, <2>1, QuietStep DEF FileComplaint, tasks
<1>2. ASSUME NEW r \in Requests, NEW kind \in {"respond", "accept", "reject"},
             NEW party \in Parties, Load(r, kind, party)
      PROVE  IInv'
  BY <1>2, LoadType, LoadLocking
<1>3. ASSUME NEW r \in Requests, Acquire(r) PROVE IInv'
  BY <1>3, AcquireType, AcquireLocking
<1>4. ASSUME NEW r \in Requests, Finish(r) PROVE IInv'
  BY <1>4, RespondType, AcceptType, RejectType, FinishLocking DEF Finish, Locking
<1>5. ASSUME NEW p \in Procs, BeginLadder(p) \/ Decide(p) \/ LadderFails(p) PROVE IInv'
  <2>1. UNCHANGED <<answers, executed, request, holder>>
    BY <1>5 DEF BeginLadder, Decide, Propose, Escalate, ComesTooLate, LadderEnds, LadderFails, job
  <2>2. QED
    BY <1>5, <2>1, LadderType, QuietStep
<1>6. ASSUME NEW p \in Procs, Crash(p) PROVE IInv'
  BY <1>6, CrashType, CrashLocking
<1>7. CASE \/ ReadDueResponses \/ TimeOutResponse
           \/ ReadDueAcceptances \/ ExpireProposal
           \/ RunPendingLadders
           \/ ReadLateDisputes \/ CloseLateDispute
  <2>1. UNCHANGED <<answers, executed, request, holder>>
    BY <1>7 DEF ReadDueResponses, TimeOutResponse, ReadDueAcceptances, ExpireProposal,
                RunPendingLadders, ReadLateDisputes, CloseLateDispute, ReadList, ActOn, job
  <2>2. QED
    BY <1>7, <2>1, ReconciliationType, QuietStep
<1>8. CASE Watch
  <2>1. Handled
    BY <1>8, WatchHandles
  <2>2. TypeOK'
    BY <2>1 DEF Handled, HandledType, TypeOK, tasks
  <2>3. QED
    BY <2>1, <2>2, QuietStep DEF Handled, tasks
<1>9. CASE ResponseDeadlinePasses \/ AcceptDeadlinePasses
  <2>1. TypeOK'
    BY <1>9 DEF ResponseDeadlinePasses, AcceptDeadlinePasses, TypeOK, Clock, tasks
  <2>2. QED
    BY <1>9, <2>1, QuietStep DEF ResponseDeadlinePasses, AcceptDeadlinePasses, tasks
<1>10. CASE UNCHANGED vars
  <2>1. TypeOK'
    BY <1>10 DEF vars, job, tasks, TypeOK
  <2>2. QED
    BY <1>10, <2>1, QuietStep DEF vars, job, tasks
<1>11. QED
  BY <1>1, <1>2, <1>3, <1>4, <1>5, <1>6, <1>7, <1>8, <1>9, <1>10 DEF Next

LEMMA Inductive == Spec => []IInv
BY InitIInv, NextIInv, PTL DEF Spec

\* Every variable keeps its type (the tables of domains/disputes/models.py).
THEOREM DisputesTyped == Spec => []TypeOK
<1>1. IInv => TypeOK
  BY DEF IInv
<1>2. QED
  BY <1>1, Inductive, PTL

\* The money of a dispute is paid out once at most and only when both parties
\* accepted, however many requests they send at once, in however many processes
\* (disputes/service.py:287-338).
THEOREM PaidOnceByBoth == Spec => []ExecutedOnceByBoth
<1>1. IInv => ExecutedOnceByBoth
  BY DEF IInv, Locking
<1>2. QED
  BY <1>1, Inductive, PTL

(***************************************************************************)
(* A proposal keeps its split: only a ladder writes one, and it looks for  *)
(* a proposal under the lock.                                              *)
(***************************************************************************)
LEMMA OnlyTheFirstLadderSplits ==
  ASSUME [Next]_vars, proposal # "NONE"
  PROVE  split' = split
<1>1. CASE FileComplaint \/ ResponseDeadlinePasses \/ AcceptDeadlinePasses \/ UNCHANGED vars
  BY <1>1 DEF FileComplaint, ResponseDeadlinePasses, AcceptDeadlinePasses, vars, job
<1>2. ASSUME NEW r \in Requests, NEW kind, NEW party, Load(r, kind, party) PROVE split' = split
  BY <1>2 DEF Load, job
<1>3. ASSUME NEW r \in Requests, Acquire(r) \/ Finish(r) PROVE split' = split
  BY <1>3 DEF Acquire, Finish, Respond, Accept, Reject, job
<1>4. ASSUME NEW p \in Procs, BeginLadder(p) \/ Decide(p) \/ LadderFails(p) \/ Crash(p)
      PROVE  split' = split
  <2>1. ASSUME NEW remedy, Propose(p, remedy) PROVE FALSE
    BY <2>1 DEF Propose, AwaitsProposal
  <2>2. QED
    BY <1>4, <2>1 DEF BeginLadder, Decide, Escalate, ComesTooLate, LadderFails, Crash, job
<1>5. CASE \/ ReadDueResponses \/ TimeOutResponse
           \/ ReadDueAcceptances \/ ExpireProposal
           \/ RunPendingLadders
           \/ ReadLateDisputes \/ CloseLateDispute
  BY <1>5 DEF ReadDueResponses, TimeOutResponse, ReadDueAcceptances, ExpireProposal,
              RunPendingLadders, ReadLateDisputes, CloseLateDispute, ReadList, ActOn, job
<1>6. CASE Watch
  BY <1>6 DEF Watch, HandleLog
<1>7. QED
  BY <1>1, <1>2, <1>3, <1>4, <1>5, <1>6 DEF Next

\* No ladder replaces the split the parties were shown, however many run
\* (disputes/service.py:178-218).
THEOREM ProposalStands == Spec => ProposalIsFinal
<1>1. [Next]_vars => [proposal # "NONE" => split' = split]_vars
  BY OnlyTheFirstLadderSplits
<1>2. QED
  BY <1>1, PTL DEF Spec, ProposalIsFinal
=============================================================================
