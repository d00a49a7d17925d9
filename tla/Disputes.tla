------------------------------ MODULE Disputes ------------------------------
(***************************************************************************)
(* A delivered job from complaint to settlement: the requests of the two   *)
(* parties, the ladder that proposes a split, the deadlines, and the logs  *)
(* of the escrow (domains/disputes, the dispute half of chain_events and   *)
(* of reconciliation).                                                     *)
(*                                                                         *)
(* Respond, accept and reject load the job, then lock its row: the lock    *)
(* does not refresh what the session has loaded, so they go by the state   *)
(* they saw.  The proposal is read under the lock.  Every other change is  *)
(* one database transaction that locks the row first, and one action.  A   *)
(* refusal changes nothing; what it waits for is the subject of            *)
(* RequestLocks.                                                           *)
(*                                                                         *)
(* A split is the provider's share of the whole.  The contract is external *)
(* here: which logs can follow which.  It asks nothing of the backend, so  *)
(* a call whose log waits to be handled is a call made later.              *)
(*                                                                         *)
(* An operator marked Fault is a plausible error in the function that      *)
(* follows it; nothing uses it but the mutation tests of the properties.   *)
(***************************************************************************)
EXTENDS Integers, Machine

CONSTANTS
  Requests,    \* requests that may be under way at once
  NoRequest,   \* no request
  Procs,       \* processes of the API
  Leader,      \* the one that runs reconciliation
  At,          \* the process a request comes to
  Remedies,    \* splits a proposal may have
  Whole,       \* the provider's share when it gets everything
  MaxFailures  \* crashes and failed ladders (bound)

ASSUME RequestsAssumption == NoRequest \notin Requests
ASSUME ProcsAssumption == Leader \in Procs /\ At \in [Requests -> Procs]
ASSUME BoundsAssumption == MaxFailures \in Nat
ASSUME SharesAssumption == Whole \in Nat \ {0} /\ Remedies \subseteq 0 .. Whole

VARIABLES
  state,        \* transactions.state
  dispute,      \* disputes.status, or "NONE"
  proposal,     \* resolution_proposals.status, or "NONE"
  split,        \* the proposal's to_provider_minor
  answers,      \* resolution_acceptances, by role
  responseDue,  \* disputes.response_deadline: "none", "running" or "passed"
  acceptDue,    \* resolution_proposals.accept_deadline, likewise
  executed,     \* EXECUTE rows queued by accept
  request,      \* where each request is
  holder,       \* the request that holds the job's row
  ladder,       \* by process: "none", "scheduled" or "deciding"
  pass,         \* what reconciliation has read and not yet acted on
  failures,     \* crashes and failed ladders so far
  escrow        \* external: the intent's state in the contract after these logs

job == <<state, dispute, proposal, split, answers, responseDue, acceptDue, executed>>
tasks == <<request, holder, ladder, pass, failures>>
vars == <<job, tasks, escrow>>

Parties == {"customer", "provider"}
Other(party) == CHOOSE p \in Parties : p # party
NoWork == [pc |-> "idle"]

Init ==
  /\ state = "DELIVERED"
  /\ dispute = "NONE"
  /\ proposal = "NONE"
  /\ split = 0
  /\ answers = [p \in Parties |-> "NONE"]
  /\ responseDue = "none"
  /\ acceptDue = "none"
  /\ executed = 0
  /\ request = [r \in Requests |-> NoWork]
  /\ holder = NoRequest
  /\ ladder = [p \in Procs |-> "none"]
  /\ pass = "idle"
  /\ failures = 0
  /\ escrow = "FUNDED"

RowIsFree == holder = NoRequest

\* machine.apply from a given state, and the same when a refusal is caught.
Apply(from, event) == Can(from, event) /\ state' = NextState(from, event)
ApplyIfLegal(event) == state' = IF Can(state, event) THEN NextState(state, event) ELSE state

\* schedule_ladder: run_ladder returns at once when one is running here.
ScheduleLadder(p) == ladder' = [ladder EXCEPT ![p] = IF @ = "none" THEN "scheduled" ELSE @]

(***************************************************************************)
(* The parties.                                                            *)
(***************************************************************************)

\* file_complaint: one per job, and only of a delivered one.
FileComplaint ==
  /\ RowIsFree
  /\ state = "DELIVERED"
  /\ dispute = "NONE"
  /\ dispute' = "OPENING"
  /\ UNCHANGED <<state, proposal, split, answers, responseDue, acceptDue, executed, tasks, escrow>>

\* _load: nothing is locked yet.
Load(r, kind, party) ==
  /\ request[r] = NoWork
  /\ dispute # "NONE"
  /\ kind = "respond" => party = "provider"
  /\ request' = [request EXCEPT ![r] =
       [pc |-> "loaded", kind |-> kind, party |-> party, seen |-> state]]
  /\ UNCHANGED <<job, holder, ladder, pass, failures, escrow>>

\* Fault: nothing keeps a party from answering twice.
AdmittedAgain(q) ==
  \/ q.kind = "respond" /\ q.seen = "DISPUTED"
  \/ /\ q.kind = "accept"
     /\ proposal \in {"OPEN", "SETTLING"}
     /\ acceptDue # "passed"
     /\ answers[Other(q.party)] = "ACCEPT" => q.seen = "PROPOSED"
  \/ /\ q.kind = "reject"
     /\ proposal \notin {"NONE", "SETTLING"}
     /\ Can(q.seen, "REJECTED")

\* What respond, accept and reject check under the lock: an answer is given
\* once, and the second acceptance is a settlement, which policy allows from
\* PROPOSED.
Admitted(q) ==
  \/ q.kind = "respond" /\ q.seen = "DISPUTED"
  \/ /\ q.kind = "accept"
     /\ proposal \in {"OPEN", "SETTLING"}
     /\ acceptDue # "passed"
     /\ answers[q.party] = "NONE"
     /\ answers[Other(q.party)] = "ACCEPT" => q.seen = "PROPOSED"
  \/ /\ q.kind = "reject"
     /\ proposal \notin {"NONE", "SETTLING"}
     /\ answers[q.party] = "NONE"
     /\ Can(q.seen, "REJECTED")

Acquire(r) ==
  /\ RowIsFree
  /\ request[r].pc = "loaded"
  /\ IF Admitted(request[r])
     THEN /\ holder' = r
          /\ request' = [request EXCEPT ![r].pc = "locked"]
     ELSE /\ request' = [request EXCEPT ![r] = NoWork]
          /\ UNCHANGED holder
  /\ UNCHANGED <<job, ladder, pass, failures, escrow>>

Commit(r, kind) ==
  /\ holder = r
  /\ request[r].kind = kind
  /\ holder' = NoRequest
  /\ request' = [request EXCEPT ![r] = NoWork]

\* The answer goes on record, and the ladder starts when it is committed.
Respond(r) ==
  /\ Commit(r, "respond")
  /\ Apply(request[r].seen, "RESPONSE_RECEIVED")
  /\ dispute' = "RESPONDED"
  /\ ScheduleLadder(At[r])
  /\ UNCHANGED <<proposal, split, answers, responseDue, acceptDue, executed, pass, failures, escrow>>

RecordDecision(q, decision) == answers' = [answers EXCEPT ![q.party] = decision]

\* The second of two acceptances queues the execution.
Accept(r) ==
  LET q == request[r] IN
  /\ Commit(r, "accept")
  /\ RecordDecision(q, "ACCEPT")
  /\ IF answers[Other(q.party)] = "ACCEPT"
     THEN executed' = executed + 1 /\ proposal' = "SETTLING"
     ELSE UNCHANGED <<executed, proposal>>
  /\ UNCHANGED <<state, dispute, split, responseDue, acceptDue, ladder, pass, failures, escrow>>

Reject(r) ==
  /\ Commit(r, "reject")
  /\ RecordDecision(request[r], "REJECT")
  /\ proposal' = "REJECTED"
  /\ dispute' = "ESCALATED"
  /\ Apply(request[r].seen, "REJECTED")
  /\ UNCHANGED <<split, responseDue, acceptDue, executed, ladder, pass, failures, escrow>>

(***************************************************************************)
(* run_ladder: look, decide outside the database, look again and write.    *)
(***************************************************************************)

\* Fault: the ladder does not look for the proposal of another ladder.
AwaitsLadder == state = "RESOLVING"

AwaitsProposal == state = "RESOLVING" /\ proposal = "NONE"

BeginLadder(p) ==
  /\ ladder[p] = "scheduled"
  /\ ladder' = [ladder EXCEPT ![p] = IF AwaitsProposal THEN "deciding" ELSE "none"]
  /\ UNCHANGED <<job, request, holder, pass, failures, escrow>>

LadderEnds(p) ==
  /\ RowIsFree
  /\ ladder[p] = "deciding"
  /\ ladder' = [ladder EXCEPT ![p] = "none"]
  /\ UNCHANGED <<answers, responseDue, executed, request, holder, pass, failures, escrow>>

\* The remedy decides the split; the clock of the acceptance starts.
Propose(p, remedy) ==
  /\ LadderEnds(p)
  /\ AwaitsProposal
  /\ proposal' = "OPEN"
  /\ split' = remedy
  /\ acceptDue' = "running"
  /\ dispute' = "PROPOSED"
  /\ Apply(state, "PROPOSAL_MADE")

Escalate(p) ==
  /\ LadderEnds(p)
  /\ AwaitsProposal
  /\ dispute' = "ESCALATED"
  /\ Apply(state, "ESCALATION_REQUIRED")
  /\ UNCHANGED <<proposal, split, acceptDue>>

ComesTooLate(p) ==
  /\ LadderEnds(p)
  /\ ~ AwaitsProposal
  /\ UNCHANGED <<state, dispute, proposal, split, acceptDue>>

Decide(p) ==
  \/ \E remedy \in Remedies : Propose(p, remedy)
  \/ Escalate(p)
  \/ ComesTooLate(p)

\* An error is logged and the task ends.
LadderFails(p) ==
  /\ ladder[p] = "deciding"
  /\ failures < MaxFailures
  /\ failures' = failures + 1
  /\ ladder' = [ladder EXCEPT ![p] = "none"]
  /\ UNCHANGED <<job, request, holder, pass, escrow>>

(***************************************************************************)
(* Reconciliation: each item is read from a list first, and acted on under *)
(* the row lock later.                                                     *)
(***************************************************************************)
ReadList(item) ==
  /\ pass = "idle"
  /\ pass' = item
  /\ UNCHANGED <<job, request, holder, ladder, failures, escrow>>

ActOn(item) ==
  /\ RowIsFree
  /\ pass = item
  /\ pass' = "idle"
  /\ UNCHANGED <<answers, split, responseDue, acceptDue, executed, request, holder, failures, escrow>>

\* due_responses.
ReadDueResponses ==
  /\ state = "DISPUTED"
  /\ responseDue = "passed"
  /\ ReadList("response")

\* mark_no_response
MarkNoResponse == dispute' = "NO_RESPONSE"

\* response_timeouts: the state is looked at again, and the ladder starts.
TimeOutResponse ==
  /\ ActOn("response")
  /\ IF state = "DISPUTED"
     THEN /\ MarkNoResponse
          /\ Apply(state, "RESPONSE_TIMEOUT")
          /\ ScheduleLadder(Leader)
     ELSE UNCHANGED <<state, dispute, ladder>>
  /\ UNCHANGED proposal

\* due_acceptances.
ReadDueAcceptances ==
  /\ state = "PROPOSED"
  /\ proposal = "OPEN"
  /\ acceptDue = "passed"
  /\ ReadList("acceptance")

\* expire_proposal: whatever became of the proposal.
MarkExpired == proposal' = "EXPIRED" /\ dispute' = "ESCALATED"

\* acceptance_timeouts: the state is looked at again, the proposal is not.
ExpireProposal ==
  /\ ActOn("acceptance")
  /\ IF state = "PROPOSED"
     THEN /\ MarkExpired
          /\ Apply(state, "ACCEPT_TIMEOUT")
     ELSE UNCHANGED <<state, dispute, proposal>>
  /\ UNCHANGED ladder

\* Fault: only the ladders of answered complaints are started again.
RunAnsweredLadders ==
  /\ pass = "idle"
  /\ AwaitsProposal
  /\ dispute = "RESPONDED"
  /\ ScheduleLadder(Leader)
  /\ UNCHANGED <<job, request, holder, pass, failures, escrow>>

\* awaiting_ladder: a ladder was lost, or is running somewhere.
AwaitingLadder == state = "RESOLVING" /\ proposal = "NONE"

\* run_pending_ladders
RunPendingLadders ==
  /\ pass = "idle"
  /\ AwaitingLadder
  /\ ScheduleLadder(Leader)
  /\ UNCHANGED <<job, request, holder, pass, failures, escrow>>

\* Fault: a released job is forgotten.
ReadSettledDisputes ==
  /\ dispute = "OPENING"
  /\ state = "SETTLED"
  /\ ReadList("late")

\* opening_on_closed.
ReadLateDisputes ==
  /\ dispute = "OPENING"
  /\ state \in {"RELEASED", "SETTLED"}
  /\ ReadList("late")

\* mark_too_late
MarkTooLate == dispute' = "TOO_LATE"

\* close_late_disputes: the state is not looked at again.
CloseLateDispute ==
  /\ ActOn("late")
  /\ MarkTooLate
  /\ UNCHANGED <<state, proposal, ladder>>

(***************************************************************************)
(* The watcher handles the logs of the escrow in their order: a state      *)
(* that refuses the event keeps what the handler wrote before.             *)
(***************************************************************************)

\* Fault: the clock of the response is not started.
OpenWithoutDeadline ==
  /\ dispute' = IF dispute = "NONE" THEN "NONE" ELSE "OPEN"
  /\ IF dispute = "NONE" THEN UNCHANGED state ELSE ApplyIfLegal("DISPUTE_OPENED_ONCHAIN")
  /\ UNCHANGED <<responseDue, proposal, acceptDue>>

\* mark_open: also of a dispute that is further on.
MarkOpen == dispute' = "OPEN" /\ responseDue' = "running"

\* _dispute_raised: without a complaint on file the log is ignored.
DisputeRaised ==
  /\ IF dispute = "NONE"
     THEN UNCHANGED <<state, dispute, responseDue>>
     ELSE /\ MarkOpen
          /\ ApplyIfLegal("DISPUTE_OPENED_ONCHAIN")
  /\ UNCHANGED <<proposal, acceptDue>>

\* settlement_view: another split than this one is on file, or none.
Differs(share) == proposal = "NONE" \/ share # split

\* mark_timelocked: the contract's appeal window takes the place of the deadline.
MarkTimelocked ==
  /\ dispute' = "TIMELOCKED"
  /\ proposal' = "TIMELOCKED"
  /\ acceptDue' = "running"

\* _ai_proposal_submitted: only the split on file counts.
AIProposalSubmitted(share) ==
  /\ IF Differs(share) THEN UNCHANGED <<dispute, proposal, acceptDue>> ELSE MarkTimelocked
  /\ UNCHANGED <<state, responseDue>>

\* mark_appealed
MarkAppealed ==
  /\ dispute' = IF dispute = "NONE" THEN "NONE" ELSE "APPEALED"
  /\ proposal' = IF proposal = "NONE" THEN "NONE" ELSE "APPEALED"

\* _appeal_escalated
AppealEscalated ==
  /\ MarkAppealed
  /\ ApplyIfLegal("ESCALATION_REQUIRED")
  /\ UNCHANGED <<responseDue, acceptDue>>

\* mark_settled
MarkSettled ==
  /\ dispute' = IF dispute = "NONE" THEN "NONE" ELSE "SETTLED"
  /\ proposal' = IF proposal = "NONE" THEN "NONE" ELSE "SETTLED"

\* _intent_resolved: all to the provider is a release, anything else settles
\* the dispute, unless the proposal on file says otherwise.
IntentResolved(share) ==
  /\ IF share = Whole
     THEN /\ ApplyIfLegal("RELEASED_ONCHAIN")
          /\ UNCHANGED <<dispute, proposal>>
     ELSE IF proposal # "NONE" /\ share # split
          THEN UNCHANGED <<state, dispute, proposal>>
          ELSE /\ MarkSettled
               /\ ApplyIfLegal("SETTLED_ONCHAIN")
  /\ UNCHANGED <<responseDue, acceptDue>>

\* The contract takes a call in one of the states from, and its log is handled.
HandleLog(from, to, Handler) ==
  /\ RowIsFree
  /\ escrow \in from
  /\ escrow' = to
  /\ Handler
  /\ UNCHANGED <<split, answers, executed, tasks>>

\* A party freezes the money, with a complaint on file or without; the
\* arbitrator proposes; a party appeals; two signers, the owner or, with a full
\* refund, anybody after two weeks resolves.
Watch ==
  \/ HandleLog({"FUNDED"}, "IN_DISPUTE", DisputeRaised)
  \/ \E share \in 0 .. Whole :
       \/ HandleLog({"IN_DISPUTE"}, "TIMELOCKED", AIProposalSubmitted(share))
       \/ HandleLog({"FUNDED", "TIMELOCKED", "APPEALED"}, "RESOLVED", IntentResolved(share))
  \/ HandleLog({"TIMELOCKED"}, "APPEALED", AppealEscalated)
  \/ HandleLog({"IN_DISPUTE"}, "RESOLVED", IntentResolved(0))

(***************************************************************************)
(* Time and crashes.                                                       *)
(***************************************************************************)
ResponseDeadlinePasses ==
  /\ responseDue = "running"
  /\ responseDue' = "passed"
  /\ UNCHANGED <<state, dispute, proposal, split, answers, acceptDue, executed, tasks, escrow>>

AcceptDeadlinePasses ==
  /\ acceptDue = "running"
  /\ acceptDue' = "passed"
  /\ UNCHANGED <<state, dispute, proposal, split, answers, responseDue, executed, tasks, escrow>>

\* A process dies: its requests roll back, its ladder and its pass are lost.
Crash(p) ==
  LET lost == {r \in Requests : request[r] # NoWork /\ At[r] = p} IN
  /\ failures < MaxFailures
  /\ failures' = failures + 1
  /\ request' = [r \in Requests |-> IF r \in lost THEN NoWork ELSE request[r]]
  /\ holder' = IF holder \in lost THEN NoRequest ELSE holder
  /\ ladder' = [ladder EXCEPT ![p] = "none"]
  /\ pass' = IF p = Leader THEN "idle" ELSE pass
  /\ UNCHANGED <<job, escrow>>

Finish(r) == Respond(r) \/ Accept(r) \/ Reject(r)

Next ==
  \/ FileComplaint
  \/ \E r \in Requests :
       \/ \E kind \in {"respond", "accept", "reject"}, party \in Parties : Load(r, kind, party)
       \/ Acquire(r)
       \/ Finish(r)
  \/ \E p \in Procs : BeginLadder(p) \/ Decide(p) \/ LadderFails(p) \/ Crash(p)
  \/ ReadDueResponses \/ TimeOutResponse
  \/ ReadDueAcceptances \/ ExpireProposal
  \/ RunPendingLadders
  \/ ReadLateDisputes \/ CloseLateDispute
  \/ Watch
  \/ ResponseDeadlinePasses \/ AcceptDeadlinePasses

Spec == Init /\ [][Next]_vars

(***************************************************************************)
(* The event loop runs every task that can go on and time passes.  The row *)
(* lock serves its waiters in order and a pass of reconciliation gets to   *)
(* each of its lists: strong fairness.  The parties and the chain owe      *)
(* nothing.                                                                *)
(***************************************************************************)
Fairness ==
  /\ \A r \in Requests : WF_vars(Finish(r))
  /\ \A p \in Procs : WF_vars(BeginLadder(p)) /\ SF_vars(Decide(p))
  /\ SF_vars(ReadDueResponses) /\ SF_vars(TimeOutResponse)
  /\ SF_vars(ReadDueAcceptances) /\ SF_vars(ExpireProposal)
  /\ SF_vars(RunPendingLadders)
  /\ SF_vars(ReadLateDisputes) /\ SF_vars(CloseLateDispute)
  /\ WF_vars(ResponseDeadlinePasses) /\ WF_vars(AcceptDeadlinePasses)

FairSpec == Spec /\ Fairness

(***************************************************************************)
(* Properties.                                                             *)
(***************************************************************************)
\* The states of a job from its delivery on.
JobState ==
  {"DELIVERED", "RELEASED", "DISPUTED", "RESOLVING", "PROPOSED", "SETTLED", "ESCALATED"}
DisputeStatus ==
  {"NONE", "OPENING", "OPEN", "RESPONDED", "NO_RESPONSE", "PROPOSED",
   "ESCALATED", "TIMELOCKED", "APPEALED", "SETTLED", "TOO_LATE"}
ProposalStatus ==
  {"NONE", "OPEN", "SETTLING", "REJECTED", "EXPIRED", "TIMELOCKED", "APPEALED", "SETTLED"}
Clock == {"none", "running", "passed"}
Work == [pc : {"loaded", "locked"}, kind : {"respond", "accept", "reject"},
         party : Parties, seen : JobState]

\* Every variable keeps its type.
TypeOK ==
  /\ state \in JobState
  /\ dispute \in DisputeStatus
  /\ proposal \in ProposalStatus
  /\ split \in 0 .. Whole
  /\ answers \in [Parties -> {"NONE", "ACCEPT", "REJECT"}]
  /\ responseDue \in Clock
  /\ acceptDue \in Clock
  /\ executed \in 0 .. 1
  /\ request \in [Requests -> {NoWork} \cup Work]
  /\ holder \in Requests \cup {NoRequest}
  /\ ladder \in [Procs -> {"none", "scheduled", "deciding"}]
  /\ pass \in {"idle", "response", "acceptance", "late"}
  /\ failures \in 0 .. MaxFailures
  /\ escrow \in {"FUNDED", "IN_DISPUTE", "TIMELOCKED", "APPEALED", "RESOLVED"}

\* The row has one holder, which is the request that is past the lock.
OneHolder == \A r \in Requests : request[r].pc = "locked" <=> holder = r

\* A party that is past the lock with an answer to the proposal has not given one.
NotYetAnswered ==
  \A r \in Requests :
    request[r].pc = "locked" /\ request[r].kind # "respond" => answers[request[r].party] = "NONE"

\* The money of a dispute is paid out once at most, and only when both parties
\* accepted: whatever they send at once or again, from whatever state they saw
\* (disputes/service.py:287-338).
ExecutedOnceByBoth ==
  executed > 0 => executed = 1 /\ \A p \in Parties : answers[p] = "ACCEPT"

\* The split the parties sign is the one they were shown: no second ladder, of
\* this process or another, replaces it (disputes/service.py:178-218).
ProposalIsFinal == [][proposal # "NONE" => split' = split]_vars

AwaitsAnswers == state = "PROPOSED" /\ proposal = "OPEN"
LostTheRace == dispute = "OPENING" /\ state = "RELEASED"

\* Silence does not hold up a dispute: a missing response and a missing answer
\* to an open proposal are timed out, past crashes (reconciliation.py:85-113).
SilenceEnds ==
  /\ state = "DISPUTED" ~> state # "DISPUTED"
  /\ AwaitsAnswers ~> ~ AwaitsAnswers

\* A ladder that was lost in a crash or failed is run again until there is a
\* proposal or an escalation (disputes/service.py:364-370).
LaddersEnd == AwaitsProposal ~> ~ AwaitsProposal

\* A complaint that lost the race with the release is closed.
LateComplaintsClose == LostTheRace ~> dispute = "TOO_LATE"

(***************************************************************************)
(* A statement of the documentation that the code does not meet.           *)
(***************************************************************************)

\* "End states: nothing leaves these, so the machine refuses any further event"
\* (core/states.py:91).
TerminalIsFinal == [][(state \in TERMINAL) => (state' = state)]_vars
=============================================================================
