------------------------------- MODULE Ladder -------------------------------
(***************************************************************************)
(* How a dispute gets its proposal: the evidence of both sides, the two    *)
(* calls to the model with their retry and their time budget, the rules    *)
(* that need no model, and the checks that what the model says must pass   *)
(* (domains/disputes ladder.py, coverage.py, proposer.py, run_ladder;      *)
(* integrations/llm/client.py).                                            *)
(*                                                                         *)
(* The model is external: it answers anything its schema lets pass, fails, *)
(* or refuses.  The notes on coverage only go into the next call and are   *)
(* left out.  Races of ladders with each other and with the parties are in *)
(* Disputes; here one ladder runs, and its process may die.  Its names are *)
(* its own, so that it can stand beside other components.                  *)
(*                                                                         *)
(* An operator marked Fault is a plausible error in the function that      *)
(* follows it; nothing uses it but the mutation tests of the properties.   *)
(***************************************************************************)
EXTENDS FiniteSets, Money

CONSTANTS
  OwnFiles,      \* photos of this job's parties (bound)
  ForeignFiles,  \* evidence of other jobs the model might name
  Amounts,       \* amounts a job may have
  L2_MAX_AMOUNT,
  L2_MIN_CONFIDENCE,
  Confidences,   \* answers of the model
  BUDGET,        \* ai_timeout_seconds, in ticks
  MIN_RETRY,     \* MIN_RETRY_SECONDS, in ticks
  MaxCrashes,    \* times the process may die (bound)
  None

ASSUME BudgetAssumption == BUDGET \in Nat \ {0} /\ MIN_RETRY \in Nat \ {0}
ASSUME AmountsAssumption == Amounts \subseteq Nat

VARIABLES
  state,         \* transactions.state
  amount,        \* transactions.amount_minor
  category,      \* complaints.category
  evidence,      \* evidence rows
  stage,         \* where run_ladder is
  data,          \* LadderInput: the evidence it read
  call,          \* the model call under way: attempt and time spent
  result,        \* LadderResult: what decide returned
  waited,        \* history: the time decide has taken
  proposal,      \* the resolution_proposals row
  crashes

ladderVars == <<state, amount, category, evidence, stage, data, call, result, waited, proposal, crashes>>

\* A delivered job: its checklist has photos of the provider.
LadderInit ==
  /\ state = "DELIVERED"
  /\ amount \in Amounts
  /\ category \in {"NO_SHOW", "INCOMPLETE"}
  /\ \E f \in OwnFiles : evidence = {[file |-> f, kind |-> "AFTER_PHOTO", by |-> "provider"]}
  /\ stage = "idle" /\ data = {} /\ call = None /\ result = None /\ proposal = None /\ waited = 0
  /\ crashes = 0

(***************************************************************************)
(* The parties.                                                            *)
(***************************************************************************)
Upload(kind, by, file) ==
  /\ \A e \in evidence : e.file # file
  /\ evidence' = evidence \cup {[file |-> file, kind |-> kind, by |-> by]}
  /\ UNCHANGED <<state, amount, category, stage, data, call, result, waited, proposal, crashes>>

\* Fault: the provider's photos are welcome until there is a proposal.
AddCounterLate(file) == state \in {"DISPUTED", "RESOLVING"} /\ Upload("COUNTER", "provider", file)

\* check_allowed, by the rules for the two kinds a dispute has.
AddComplaintPhoto(file) == state = "DELIVERED" /\ Upload("COMPLAINT", "customer", file)
AddCounter(file) == state = "DISPUTED" /\ Upload("COUNTER", "provider", file)

\* file_complaint, and the freeze on chain: there is a photo of some kind.
Complain ==
  /\ state = "DELIVERED"
  /\ evidence # {}
  /\ state' = "DISPUTED"
  /\ UNCHANGED <<amount, category, evidence, stage, data, call, result, waited, proposal, crashes>>

\* respond, or the response timeout.
Respond ==
  /\ state = "DISPUTED"
  /\ state' = "RESOLVING"
  /\ UNCHANGED <<amount, category, evidence, stage, data, call, result, waited, proposal, crashes>>

(***************************************************************************)
(* run_ladder and decide.                                                  *)
(***************************************************************************)
NewCall == [attempt |-> 1, spent |-> 0]
Go(place) == stage' = place

\* _input: the evidence on file, with its catalog and the ids that may be cited.
ReadInput == data' = evidence

\* schedule_ladder or run_pending_ladders: the input is read, coverage_notes begins.
RunLadder ==
  /\ state = "RESOLVING"
  /\ stage = "idle"
  /\ ReadInput
  /\ Go("coverage")
  /\ call' = NewCall /\ waited' = 0
  /\ UNCHANGED <<state, amount, category, evidence, result, proposal, crashes>>

Escalated == [remedy |-> None, level |-> "L2"]
NoProviderPhotos == \A e \in data : e.kind # "AFTER_PHOTO" \/ e.by # "provider"
FilesOf(party) == {e.file : e \in {d \in data : d.by = party}}

\* l1: full refund when nobody came and the customer has shown it.
L1Decides == category = "NO_SHOW" /\ NoProviderPhotos /\ FilesOf("customer") # {}
L1Result == [remedy |-> "REFUND_FULL", level |-> "L1", cited |-> FilesOf("customer"), confidence |-> 10]

Conclude(verdict) == Go("decided") /\ result' = verdict /\ call' = None

\* The coverage call is over, whatever came of it.
AfterCoverage ==
  \/ L1Decides /\ Conclude(L1Result)
  \/ ~ L1Decides /\ amount > L2_MAX_AMOUNT /\ Conclude(Escalated)
  \/ ~ L1Decides /\ amount <= L2_MAX_AMOUNT /\ Go("resolve") /\ call' = NewCall /\ UNCHANGED result

\* RemedyProposal: what the schema lets pass.
Answers ==
  [remedy : Remedy, cited : (SUBSET (OwnFiles \cup ForeignFiles)) \ {{}}, confidence : Confidences]

\* Fault: the evidence is not looked up.
JudgeUncited(answer) ==
  IF answer.confidence < L2_MIN_CONFIDENCE THEN Escalated
  ELSE [remedy |-> answer.remedy, level |-> "L2", cited |-> answer.cited, confidence |-> answer.confidence]

\* decide, on what the model proposed: evidence of this job only, and some confidence.
Judge(answer) ==
  IF answer.cited \subseteq {e.file : e \in data} /\ answer.confidence >= L2_MIN_CONFIDENCE
  THEN [remedy |-> answer.remedy, level |-> "L2", cited |-> answer.cited, confidence |-> answer.confidence]
  ELSE Escalated

Calling == stage \in {"coverage", "resolve"}

\* The time an attempt takes, up to the timeout it was given.
Attempt(t) ==
  /\ Calling
  /\ t \in 1 .. (BUDGET - call.spent)
  /\ waited' = waited + t

CallAnswers(t) ==
  /\ Attempt(t)
  /\ IF stage = "coverage" THEN AfterCoverage
     ELSE \E answer \in Answers : Conclude(Judge(answer))
  /\ UNCHANGED <<state, amount, category, evidence, data, proposal, crashes>>

\* AIUnavailable: the tags stand in for the notes, or a human for the proposal.
Unavailable == IF stage = "coverage" THEN AfterCoverage ELSE Conclude(Escalated)

\* A refusal is final.
CallRefused(t) ==
  /\ Attempt(t)
  /\ Unavailable
  /\ UNCHANGED <<state, amount, category, evidence, data, proposal, crashes>>

\* Fault: the second attempt has the whole budget.
RetryAnew(t) ==
  /\ Attempt(t)
  /\ IF call.attempt = 1 THEN call' = [attempt |-> 2, spent |-> 0] /\ UNCHANGED <<stage, result>>
     ELSE Unavailable
  /\ UNCHANGED <<state, amount, category, evidence, data, proposal, crashes>>

\* run: a timeout, an error or an answer that is no answer is tried once more, if
\* enough of the budget is left.
CallFails(t) ==
  /\ Attempt(t)
  /\ IF call.attempt = 1 /\ BUDGET - (call.spent + t) >= MIN_RETRY
     THEN call' = [attempt |-> 2, spent |-> call.spent + t] /\ UNCHANGED <<stage, result>>
     ELSE Unavailable
  /\ UNCHANGED <<state, amount, category, evidence, data, proposal, crashes>>

\* The second transaction of run_ladder, and _build: the table says the split.
Finish ==
  /\ stage = "decided"
  /\ state = "RESOLVING" /\ proposal = None
  /\ IF result.remedy = None THEN state' = "ESCALATED" /\ UNCHANGED proposal
     ELSE /\ state' = "PROPOSED"
          /\ proposal' = [remedy |-> result.remedy, level |-> result.level, cited |-> result.cited,
                          confidence |-> result.confidence, split |-> Split(amount, REMEDY_BPS[result.remedy])]
  /\ Go("idle") /\ result' = None
  /\ UNCHANGED <<amount, category, evidence, data, call, waited, crashes>>

\* The process dies, or run_ladder fails: reconciliation starts it again.
Crash ==
  /\ stage # "idle"
  /\ crashes < MaxCrashes
  /\ crashes' = crashes + 1
  /\ Go("idle") /\ call' = None /\ result' = None
  /\ UNCHANGED <<state, amount, category, evidence, data, waited, proposal>>

Model == \E t \in 1 .. BUDGET : CallAnswers(t) \/ CallRefused(t) \/ CallFails(t)

LadderNext ==
  \/ \E f \in OwnFiles : AddComplaintPhoto(f) \/ AddCounter(f)
  \/ Complain \/ Respond
  \/ RunLadder \/ Model \/ Finish \/ Crash

LadderSpec == LadderInit /\ [][LadderNext]_ladderVars

(***************************************************************************)
(* Properties.                                                             *)
(***************************************************************************)

\* What is proposed passed the checks: evidence of this job is cited, the model
\* was sure, the job is not too big for one, and the shares are all of the money.
ProposalIsAdmissible ==
  proposal # None =>
    /\ proposal.cited # {} /\ proposal.cited \subseteq {e.file : e \in evidence}
    /\ proposal.level = "L2" => amount <= L2_MAX_AMOUNT /\ proposal.confidence >= L2_MIN_CONFIDENCE
    /\ proposal.split.toProvider + proposal.split.toCustomer = amount

\* What the ladder read is all the evidence there is.
EvidenceIsAllSeen == stage # "idle" \/ proposal # None => data = evidence

\* A proposal passed its checks and rests on all the evidence: no upload adds to
\* what was read outside the database transaction, however long the model takes
\* and however often the ladder starts again (ladder.py:60-81,
\* disputes/service.py:184-239, evidence/service.py:21-25).
ProposalIsSound == ProposalIsAdmissible /\ EvidenceIsAllSeen

\* Both calls together, with their retries, take at most twice the budget of one
\* (client.py:76-81).
LadderIsPrompt == waited <= 2 * BUDGET
=============================================================================
