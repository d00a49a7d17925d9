------------------------------ MODULE JobLife ------------------------------
(***************************************************************************)
(* A job from the sentence that asks for it to its delivery: intents,      *)
(* quotes, the approval the customer signs, the calls that fund the escrow *)
(* and the work with its photos (domains/intents, transactions,            *)
(* authorization, fulfillment, evidence and the fund route of payments).   *)
(*                                                                         *)
(* A request that reads before it locks the row of the job is two actions  *)
(* here, Begin and End, and keeps what it read in req; any other route is  *)
(* one database transaction and one action.  A request in flight may also  *)
(* be refused, fail or die (Drop).  A refusal changes nothing here.        *)
(*                                                                         *)
(* A scope stands for its hash too.  The escrow's logs are external and    *)
(* arrive in order: late and repeated ones are the matter of ChainEvents,  *)
(* as is what stands against cancelling.                                   *)
(*                                                                         *)
(* An operator marked Fault is a plausible error in the function that      *)
(* follows it; nothing uses it but the mutation tests of the properties.   *)
(***************************************************************************)
EXTENDS FiniteSets, Policy

CONSTANTS
  Specs,       \* structured requests the model may read out of a sentence
  Rooms,       \* Rooms[spec]: the rooms of a request, its checklist
  Providers,   \* verified providers
  BaseRate,    \* BaseRate[p]: kobo per room
  Rate,        \* naira per USDC
  HardCap,     \* policy_hard_cap in micro-USDC
  ToleranceBps,
  Wallets,     \* addresses a provider may sign in with (bound)
  Files,       \* photos, by the hash of what is stored (bound)
  Requests     \* requests that are in flight at once (bound)

ASSUME ConstantsAssumption ==
  /\ Rate \in Nat \ {0} /\ HardCap \in Nat /\ ToleranceBps \in Nat
  /\ BaseRate \in [Providers -> Nat]
  /\ \A s \in Specs : IsFiniteSet(Rooms[s])
  /\ NoData \notin Specs \cup Wallets \cup Providers \cup TxState

VARIABLES
  state,      \* transactions.state, NoData before there is a job
  spec,       \* intents.structured
  quote,      \* quotes.scope by provider: the request it prices
  provider,   \* transactions.provider_id, and with it quote_id
  amount,     \* transactions.amount_minor
  offer,      \* transactions.authorization_offer
  expired,    \* the offer's expires_at has passed
  auth,       \* the authorization signed
  bound,      \* transactions.escrow_intent_id is set
  work,       \* the fulfillments row
  evidence,   \* the evidence rows
  wallet,     \* users.wallet_address of the providers
  req,        \* what each request in flight has read
  calls       \* history: the calls the fund route returned

intent == <<spec, quote>>
job == <<state, provider, amount, offer, auth, bound>>
vars == <<state, spec, quote, provider, amount, offer, expired, auth, bound, work, evidence,
          wallet, req, calls>>

EvidenceKind == {"AFTER_PHOTO", "COMPLAINT", "COUNTER"}
Items == UNION {Rooms[s] : s \in Specs}

\* The tables: what each row can say.
Intent == Specs \cup {NoData}
Quote == Specs \cup {NoData}
Offer == [max : Nat, wallet : Wallets, scope : Specs]
Authorization == Offer
Fulfillment ==
  [items : SUBSET Items, coverage : [Items -> Nat], status : {"NOT_STARTED", "IN_PROGRESS", "DELIVERED"},
   deliverable : (SUBSET Files) \cup {NoData}]
Evidence == [kind : EvidenceKind, item : Items, file : Files]

Init ==
  /\ state = NoData /\ spec = NoData
  /\ quote = [p \in Providers |-> NoData]
  /\ provider = NoData /\ amount = 0
  /\ offer = NoData /\ expired = FALSE /\ auth = NoData
  /\ bound = FALSE
  /\ work = NoData /\ evidence = {}
  /\ wallet = [p \in Providers |-> NoData]
  /\ req = [r \in Requests |-> NoData]
  /\ calls = {}

\* machine.apply; an event the table refuses raises instead.
Apply(event) == Can(state, event) /\ state' = NextState(state, event)

Holds(r, kind) == req[r] # NoData /\ req[r].kind = kind
Finish(r) == req' = [req EXCEPT ![r] = NoData]

\* The request is refused, fails, or its process ends.
Drop(r) ==
  /\ req[r] # NoData
  /\ Finish(r)
  /\ UNCHANGED <<job, intent, expired, work, evidence, wallet, calls>>

\* parse: a structured request whose day is within the next 90, or a question,
\* also when the model cannot answer.
Parsed == Specs \cup {NoData}

(***************************************************************************)
(* Intents and quotes.                                                     *)
(***************************************************************************)

\* open_for_intent: the state a job starts in.
OpenForIntent(parsed) == IF parsed = NoData THEN "CREATED" ELSE NextState("CREATED", "INTENT_STRUCTURED")

\* capture: the job exists whether or not the model could read the sentence.
Capture(parsed) ==
  /\ state = NoData
  /\ spec' = parsed
  /\ state' = OpenForIntent(parsed)
  /\ UNCHANGED <<quote, provider, amount, offer, auth, bound, expired, work, evidence, wallet, req, calls>>

\* refine: the answer replaces the request, also by one that needs a question.
Refine(parsed) ==
  /\ state \in {"CREATED", "INTENT_STRUCTURED"}
  /\ spec' = parsed
  /\ IF parsed # NoData /\ state = "CREATED" THEN Apply("INTENT_STRUCTURED") ELSE UNCHANGED state
  /\ UNCHANGED <<quote, provider, amount, offer, auth, bound, expired, work, evidence, wallet, req, calls>>

\* recommendations reads the request, whatever the state of the job, and ranks.
BeginRecommend(r) ==
  /\ req[r] = NoData
  /\ spec # NoData
  /\ req' = [req EXCEPT ![r] = [kind |-> "recommend", spec |-> spec]]
  /\ UNCHANGED <<job, intent, expired, work, evidence, wallet, calls>>

\* upsert_quote of each provider kept: one row per provider, written in place.
EndRecommend(r) ==
  /\ Holds(r, "recommend")
  /\ \E kept \in SUBSET Providers :
       quote' = [p \in Providers |-> IF p \in kept THEN req[r].spec ELSE quote[p]]
  /\ Finish(r)
  /\ UNCHANGED <<job, spec, expired, work, evidence, wallet, calls>>

(***************************************************************************)
(* Choosing a provider.                                                    *)
(***************************************************************************)

\* price_for, at the demo rate.
PriceFor(p, s) == KoboToMicro(BaseRate[p] * Cardinality(Rooms[s]), Rate)

Context(authorization) ==
  [hardCap |-> HardCap, toleranceBps |-> ToleranceBps, auth |-> authorization]

\* The action policy judges: what the caller does not say is NoData.
Action(kind, inState, a, w, s, human) ==
  [kind |-> kind, state |-> inState, amount |-> a, verified |-> TRUE, wallet |-> w, scope |-> s,
   human |-> human]

\* create reads the quote, then waits for the row.
BeginSelect(r, p) ==
  /\ req[r] = NoData
  /\ state # NoData
  /\ quote[p] # NoData
  /\ req' = [req EXCEPT ![r] = [kind |-> "select", provider |-> p, scope |-> quote[p]]]
  /\ UNCHANGED <<job, intent, expired, work, evidence, wallet, calls>>

\* Fault: the state of the job is not asked for again.
SelectInAnyState(r) ==
  LET p == req[r].provider
      price == PriceFor(p, req[r].scope)
  IN
  /\ Holds(r, "select")
  /\ wallet[p] # NoData
  /\ state \notin {"CREATED", "CANCELLED"}
  /\ provider' = p /\ amount' = price
  /\ offer' = [max |-> price, wallet |-> wallet[p], scope |-> req[r].scope]
  /\ expired' = FALSE
  /\ state' = "AWAITING_AUTHORIZATION"
  /\ Finish(r)
  /\ UNCHANGED <<intent, auth, bound, work, evidence, wallet, calls>>

\* build_offer: what the customer is asked to sign.
BuildOffer(price, providerWallet, scope) == [max |-> price, wallet |-> providerWallet, scope |-> scope]

\* select_quote: bind the quote as it was read, and issue the offer to sign.  One
\* that expired is refused (Drop).
EndSelect(r) ==
  LET p == req[r].provider
      price == PriceFor(p, req[r].scope)
      act(kind, inState, human) == Action(kind, inState, price, wallet[p], req[r].scope, human)
  IN
  /\ Holds(r, "select")
  /\ wallet[p] # NoData
  /\ Allows(act("quote_select", state, NoData), Context(NoData))
  /\ Allows(act("authorize", "AWAITING_AUTHORIZATION", TRUE), Context(NoData))
  /\ provider' = p /\ amount' = price
  /\ offer' = BuildOffer(price, wallet[p], req[r].scope)
  /\ expired' = FALSE
  /\ Can(state, "QUOTE_SELECTED")
  /\ state' = NextState(NextState(state, "QUOTE_SELECTED"), "AUTHORIZATION_ISSUED")
  /\ Finish(r)
  /\ UNCHANGED <<intent, auth, bound, work, evidence, wallet, calls>>

(***************************************************************************)
(* Approval and funding.                                                   *)
(***************************************************************************)

\* verify: the signature over the offer of now, and the human check, unlocked.
BeginApprove(r) ==
  /\ req[r] = NoData
  /\ offer # NoData
  /\ req' = [req EXCEPT ![r] = [kind |-> "approve", digest |-> offer]]
  /\ UNCHANGED <<job, intent, expired, work, evidence, wallet, calls>>

\* record: the offer signed must be the one on file, and still good.
EndApprove(r) ==
  /\ Holds(r, "approve")
  /\ state = "AWAITING_AUTHORIZATION"
  /\ offer = req[r].digest
  /\ ~ expired
  /\ Allows(Action("authorize", state, amount, offer.wallet, offer.scope, TRUE), Context(NoData))
  /\ auth' = offer
  /\ Apply("AUTHORIZED")
  /\ Finish(r)
  /\ UNCHANGED <<intent, provider, amount, offer, bound, expired, work, evidence, wallet, calls>>

\* view: what policy is told of the standing authorization.
AuthorizationView == [max |-> auth.max, wallet |-> auth.wallet, scope |-> auth.scope, expired |-> expired]

\* quote_view: the scope of the provider's quote, as it is now.
QuoteView == quote[provider]

\* fund_calls: createIntent until the escrow's id is known, then fundIntent.
FundCalls(paid) ==
  LET scope == QuoteView IN
  /\ auth # NoData
  /\ Allows(Action("fund", state, amount, paid, scope, NoData),
            Context(AuthorizationView))
  /\ IF state = "AUTHORIZED" THEN Apply("FUNDING_STARTED") ELSE UNCHANGED state
  /\ calls' = calls \cup {[call |-> IF bound THEN "fundIntent" ELSE "createIntent",
                           wallet |-> paid, amount |-> amount, scope |-> scope]}
  /\ UNCHANGED <<intent, provider, amount, offer, auth, bound, expired, work, evidence, wallet, req>>

\* wallet_of: the address the provider signs in with now.
WalletOf(p) == IF p = NoData THEN NoData ELSE wallet[p]

\* The fund route, without a hash to report.
Fund == FundCalls(WalletOf(provider))

\* cancel, in whatever order with the escrow.
Cancel ==
  /\ Apply("DECLINED")
  /\ UNCHANGED <<intent, provider, amount, offer, auth, bound, expired, work, evidence, wallet, req, calls>>

\* expire_authorizations
ExpireAuthorizations ==
  /\ state \in {"AWAITING_AUTHORIZATION", "AUTHORIZED", "FUNDING"}
  /\ expired
  /\ Apply("AUTHORIZATION_EXPIRED")
  /\ UNCHANGED <<intent, provider, amount, offer, auth, bound, expired, work, evidence, wallet, req, calls>>

Called(call) == \E c \in calls : c.call = call

\* _intent_created
IntentCreated ==
  /\ Called("createIntent")
  /\ bound' = TRUE
  /\ UNCHANGED <<state, intent, provider, amount, offer, auth, expired, work, evidence, wallet, req, calls>>

\* build_scope: the checklist of a scope.
Checklist(scope) == Rooms[scope]

\* ensure: the row is made once.
Ensure(items) ==
  work' = IF work # NoData THEN work
          ELSE [items |-> items, coverage |-> [i \in Items |-> 0], status |-> "NOT_STARTED",
                deliverable |-> NoData]

\* _intent_funded: the checklist comes from the quote.
IntentFunded ==
  /\ Called("fundIntent")
  /\ Apply("FUNDED_ONCHAIN")
  /\ Ensure(Checklist(QuoteView))
  /\ UNCHANGED <<intent, provider, amount, offer, auth, bound, expired, evidence, wallet, req, calls>>

(***************************************************************************)
(* The work.                                                               *)
(***************************************************************************)

\* fulfillment.start
Start ==
  /\ Apply("WORK_STARTED")
  /\ work' = [work EXCEPT !.status = "IN_PROGRESS"]
  /\ UNCHANGED <<intent, provider, amount, offer, auth, bound, expired, evidence, wallet, req, calls>>

\* check_allowed, for the party its kind is for.
CheckAllowed(kind, item) ==
  /\ state \in CASE kind = "AFTER_PHOTO" -> {"IN_PROGRESS", "EVIDENCE_SUBMITTED"}
                 [] kind = "COMPLAINT" -> {"DELIVERED"}
                 [] kind = "COUNTER" -> {"DISPUTED"}
  /\ kind = "AFTER_PHOTO" => item \in work.items

\* upload checks before it stores the file.
BeginUpload(r, kind, item, file) ==
  /\ req[r] = NoData
  /\ CheckAllowed(kind, item)
  /\ req' = [req EXCEPT ![r] = [kind |-> "upload", of |-> kind, item |-> item, file |-> file]]
  /\ UNCHANGED <<job, intent, expired, work, evidence, wallet, calls>>

\* cover: one more photo of a room.
Cover(item) == [work EXCEPT !.coverage[item] = @ + 1]

\* record: a file the job has already is left as it is.
Created(file) == \A e \in evidence : e.file # file
Record(kind, item, file) ==
  evidence' = IF Created(file) THEN evidence \cup {[kind |-> kind, item |-> item, file |-> file]} ELSE evidence

\* Fault: what was checked before the file was stored is not checked again.
EndUploadUnchecked(r) ==
  LET kind == req[r].of
      created == Created(req[r].file)
  IN
  /\ Holds(r, "upload")
  /\ Record(kind, req[r].item, req[r].file)
  /\ IF created /\ kind = "AFTER_PHOTO" /\ state = "IN_PROGRESS"
     THEN Apply("EVIDENCE_ADDED") ELSE UNCHANGED state
  /\ work' = IF created /\ kind = "AFTER_PHOTO" THEN Cover(req[r].item) ELSE work
  /\ Finish(r)
  /\ UNCHANGED <<intent, provider, amount, offer, auth, bound, expired, wallet, calls>>

\* Fault: a photo that was there already counts again.
EndUploadCountingAgain(r) ==
  LET kind == req[r].of
      created == Created(req[r].file)
  IN
  /\ Holds(r, "upload")
  /\ CheckAllowed(kind, req[r].item)
  /\ Record(kind, req[r].item, req[r].file)
  /\ IF created /\ kind = "AFTER_PHOTO" /\ state = "IN_PROGRESS"
     THEN Apply("EVIDENCE_ADDED") ELSE UNCHANGED state
  /\ work' = IF kind = "AFTER_PHOTO" /\ work.coverage[req[r].item] < Cardinality(Files)
             THEN Cover(req[r].item) ELSE work
  /\ Finish(r)
  /\ UNCHANGED <<intent, provider, amount, offer, auth, bound, expired, wallet, calls>>

\* upload, with the row locked.
EndUpload(r) ==
  LET kind == req[r].of
      created == Created(req[r].file)
  IN
  /\ Holds(r, "upload")
  /\ CheckAllowed(kind, req[r].item)
  /\ Record(kind, req[r].item, req[r].file)
  /\ IF created /\ kind = "AFTER_PHOTO" /\ state = "IN_PROGRESS"
     THEN Apply("EVIDENCE_ADDED") ELSE UNCHANGED state
  /\ work' = IF created /\ kind = "AFTER_PHOTO" THEN Cover(req[r].item) ELSE work
  /\ Finish(r)
  /\ UNCHANGED <<intent, provider, amount, offer, auth, bound, expired, wallet, calls>>

AfterPhotos == {e \in evidence : e.kind = "AFTER_PHOTO"}
MissingItems == work.items \ {e.item : e \in AfterPhotos}

\* Fault: any photo will do.
DeliverWithAnyPhoto ==
  /\ Apply("DELIVERY_MARKED")
  /\ AfterPhotos # {}
  /\ work' = [work EXCEPT !.status = "DELIVERED", !.deliverable = {e.file : e \in AfterPhotos}]
  /\ UNCHANGED <<intent, provider, amount, offer, auth, bound, expired, evidence, wallet, req, calls>>

\* deliver_call
Deliver ==
  /\ Apply("DELIVERY_MARKED")
  /\ MissingItems = {}
  /\ work' = [work EXCEPT !.status = "DELIVERED", !.deliverable = {e.file : e \in AfterPhotos}]
  /\ UNCHANGED <<intent, provider, amount, offer, auth, bound, expired, evidence, wallet, req, calls>>

(***************************************************************************)
(* The outside.                                                            *)
(***************************************************************************)

\* start_session with a wallet the account did not have.
SignIn(p, w) ==
  /\ wallet[p] # w
  /\ \A q \in Providers \ {p} : wallet[q] # w
  /\ wallet' = [wallet EXCEPT ![p] = w]
  /\ UNCHANGED <<job, intent, expired, work, evidence, req, calls>>

\* expires_at of the offer passes.
OfferExpires ==
  /\ offer # NoData /\ ~ expired
  /\ expired' = TRUE
  /\ UNCHANGED <<job, intent, work, evidence, wallet, req, calls>>

\* A complaint freezes the escrow (module Disputes).
DisputeRaised ==
  /\ Apply("DISPUTE_OPENED_ONCHAIN")
  /\ UNCHANGED <<intent, provider, amount, offer, auth, bound, expired, work, evidence, wallet, req, calls>>

Next ==
  \/ \E parsed \in Parsed : Capture(parsed) \/ Refine(parsed)
  \/ \E r \in Requests :
       \/ BeginRecommend(r) \/ EndRecommend(r)
       \/ \E p \in Providers : BeginSelect(r, p)
       \/ EndSelect(r)
       \/ BeginApprove(r) \/ EndApprove(r)
       \/ \E kind \in EvidenceKind, item \in Items, file \in Files : BeginUpload(r, kind, item, file)
       \/ EndUpload(r)
       \/ Drop(r)
  \/ Fund \/ Cancel \/ ExpireAuthorizations \/ IntentCreated \/ IntentFunded
  \/ Start \/ Deliver \/ DisputeRaised
  \/ \E p \in Providers, w \in Wallets : SignIn(p, w)
  \/ OfferExpires

Spec == Init /\ [][Next]_vars

(***************************************************************************)
(* Properties.                                                             *)
(***************************************************************************)

\* Every variable keeps its type.
TypeOK ==
  /\ state \in TxState \cup {NoData}
  /\ spec \in Intent
  /\ quote \in [Providers -> Quote]
  /\ provider \in Providers \cup {NoData}
  /\ amount \in Nat
  /\ offer \in Offer \cup {NoData}
  /\ expired \in BOOLEAN
  /\ auth \in Authorization \cup {NoData}
  /\ bound \in BOOLEAN
  /\ work \in Fulfillment \cup {NoData}
  /\ evidence \subseteq Evidence
  /\ wallet \in [Providers -> Wallets \cup {NoData}]
  /\ calls \subseteq [call : {"createIntent", "fundIntent"}, wallet : Wallets, amount : Nat, scope : Specs]

\* Every call the customer's wallet is asked to send pays the provider's address,
\* the amount and the scope that were signed, whatever wallets, quotes and
\* requests changed since (payments/service.py:64-100, policy/rules.py:100-112).
CallsAreSigned ==
  \A c \in calls :
    /\ auth # NoData
    /\ c.wallet = auth.wallet /\ c.amount = auth.max /\ c.scope = auth.scope

\* What was signed stays what was offered, and neither a request that read an
\* older offer nor a second choice changes it (authorization/service.py:60-99).
ApprovalStands == [][auth # NoData => UNCHANGED <<auth, offer, amount, provider>>]_vars

\* A delivered job has a photo of every room on its checklist, and the hash on
\* file covers exactly the photos there are: an upload that was checked before
\* the delivery adds none after it (evidence/router.py:47-57).
DeliverableIsComplete ==
  work # NoData /\ work.status = "DELIVERED" =>
    /\ MissingItems = {}
    /\ work.deliverable = {e.file : e \in AfterPhotos}

\* The coverage counts photos: the same file uploaded twice, for one room or for
\* two, at once or later, counts once (fulfillment/service.py:36-46).
CoverageCountsPhotos ==
  work # NoData =>
    \A i \in Items : work.coverage[i] = Cardinality({e \in AfterPhotos : e.item = i})

(***************************************************************************)
(* A statement of the documentation that the code does not meet.           *)
(***************************************************************************)

\* "The agreed scope. It is hashed into the signed authorization"
\* (intents/service.py:61): the work is measured by the scope that was signed.
ChecklistIsSigned == work # NoData => work.items = Checklist(auth.scope)
=============================================================================
