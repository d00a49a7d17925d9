--------------------------- MODULE JobLifeProofs ---------------------------
(***************************************************************************)
(* Whatever the readings, prices, wallets and requests in flight: the      *)
(* customer's wallet is only asked for what was signed, an approval is     *)
(* never overwritten, and a delivery covers its checklist with the photos  *)
(* its hash names.                                                         *)
(*                                                                         *)
(* Two invariants.  ApprovalInv says how far the choice of a provider has  *)
(* come in each state of the job; the comparison of the wallet and of the  *)
(* scope is left to policy, so what policy lets through is proved first.   *)
(* WorkInv says which states the work may be in, and counts its photos.    *)
(***************************************************************************)
EXTENDS JobLife, FiniteSetTheorems, TLAPS

(***************************************************************************)
(* Policy.                                                                 *)
(***************************************************************************)

\* Of some of the ten rules, one is the first.
LEMMA FirstRule ==
  ASSUME NEW S, S \subseteq 1 .. 10, S # {}
  PROVE  \E n \in S : \A m \in S : n <= m
<1>1. CASE 1 \in S
  BY <1>1
<1>2. CASE 1 \notin S /\ 2 \in S
  BY <1>2
<1>3. CASE 1 \notin S /\ 2 \notin S /\ 3 \in S
  BY <1>3
<1>4. CASE 1 \notin S /\ 2 \notin S /\ 3 \notin S /\ 4 \in S
  BY <1>4
<1>5. CASE S \subseteq 5 .. 10 /\ 5 \in S
  BY <1>5
<1>6. CASE S \subseteq 6 .. 10 /\ 6 \in S
  BY <1>6
<1>7. CASE S \subseteq 7 .. 10 /\ 7 \in S
  BY <1>7
<1>8. CASE S \subseteq 8 .. 10 /\ 8 \in S
  BY <1>8
<1>9. CASE S \subseteq 9 .. 10
  <2>1. CASE 9 \in S
    BY <1>9, <2>1
  <2>2. CASE 9 \notin S
    <3>1. \A m \in S : m = 10
      BY <1>9, <2>2
    <3>2. PICK n \in S : n = 10
      BY <3>1
    <3>3. \A m \in S : n <= m
      BY <3>1, <3>2
    <3> QED
      BY <3>3
  <2> QED
    BY <2>1, <2>2
<1> QED
  BY <1>1, <1>2, <1>3, <1>4, <1>5, <1>6, <1>7, <1>8, <1>9

\* What policy allows, no rule hits: every rule that hits blocks or asks.
LEMMA AllowedIsUntouched ==
  ASSUME NEW a, NEW c, Allows(a, c)
  PROVE  \A n \in 1 .. 10 : ~ Rules(a, c)[n].hits
<1> DEFINE rules == Rules(a, c)
           hits == {n \in DOMAIN rules : rules[n].hits}
           first == CHOOSE n \in hits : \A m \in hits : n <= m
<1>1. DOMAIN rules = 1 .. 10
  BY DEF Rules
<1>2. \A n \in 1 .. 10 : rules[n].decision \in {"BLOCK", "ASK"}
  BY DEF Rules
<1>3. CASE hits # {}
  <2>1. \E n \in hits : \A m \in hits : n <= m
    <3>1. hits \subseteq 1 .. 10
      BY <1>1
    <3> HIDE DEF hits
    <3> QED
      BY <1>3, <3>1, FirstRule
  <2>2. first \in hits
    BY <2>1
  <2>3. Evaluate(a, c).decision = rules[first].decision
    BY <1>3 DEF Evaluate
  <2>4. rules[first].decision \in {"BLOCK", "ASK"}
    BY <1>1, <1>2, <2>2
  <2> HIDE DEF rules, first, hits
  <2> QED
    BY <2>3, <2>4 DEF Allows
<1>4. CASE hits = {}
  BY <1>1, <1>4
<1> QED
  BY <1>3, <1>4

\* Policy lets a funding through only for the wallet and the scope that were
\* signed, at most their amount, while the approval is good and the job is at it
\* (core/policy/rules.py:44-121).
THEOREM FundingIsWhatWasSigned ==
  ASSUME NEW a, NEW c, Allows(a, c), a.kind = "fund", a.wallet # NoData, a.scope # NoData
  PROVE  /\ c.auth # NoData
         /\ ~ c.auth.expired
         /\ ~ (a.amount > c.auth.max)
         /\ a.wallet = c.auth.wallet
         /\ a.scope = c.auth.scope
         /\ a.state \in {"AUTHORIZED", "FUNDING"}
<1>1. \A n \in 1 .. 10 : ~ Rules(a, c)[n].hits
  BY AllowedIsUntouched
<1>2. /\ ~ StateNotPermitted(a)
      /\ ~ NoAuthorization(a, c)
      /\ ~ AuthorizationExpired(a, c)
      /\ ~ (OverAuthorized(a, c) /\ Tolerable(a, c))
      /\ ~ (OverAuthorized(a, c) /\ ~ Tolerable(a, c))
      /\ ~ ProviderSubstituted(a, c)
      /\ ~ ScopeChanged(a, c)
  <2>1. ~ Rules(a, c)[1].hits /\ ~ Rules(a, c)[5].hits /\ ~ Rules(a, c)[6].hits
    BY <1>1
  <2>2. ~ Rules(a, c)[7].hits /\ ~ Rules(a, c)[8].hits
    BY <1>1
  <2>3. ~ Rules(a, c)[9].hits /\ ~ Rules(a, c)[10].hits
    BY <1>1
  <2>4. Rules(a, c)[1].hits = StateNotPermitted(a)
    BY DEF Rules
  <2>5. Rules(a, c)[5].hits = NoAuthorization(a, c)
    BY DEF Rules
  <2>6. Rules(a, c)[6].hits = AuthorizationExpired(a, c)
    BY DEF Rules
  <2>7. Rules(a, c)[7].hits = (OverAuthorized(a, c) /\ Tolerable(a, c))
    BY DEF Rules
  <2>8. Rules(a, c)[8].hits = (OverAuthorized(a, c) /\ ~ Tolerable(a, c))
    BY DEF Rules
  <2>9. Rules(a, c)[9].hits = ProviderSubstituted(a, c)
    BY DEF Rules
  <2>10. Rules(a, c)[10].hits = ScopeChanged(a, c)
    BY DEF Rules
  <2> QED
    BY <2>1, <2>2, <2>3, <2>4, <2>5, <2>6, <2>7, <2>8, <2>9, <2>10
<1>3. a.state \in {"AUTHORIZED", "FUNDING"}
  BY <1>2 DEF StateNotPermitted, ALLOWED_STATES
<1>4. c.auth # NoData
  BY <1>2 DEF NoAuthorization, NEEDS_AUTHORIZATION
<1>5. ~ OverAuthorized(a, c)
  BY <1>2
<1> QED
  BY <1>2, <1>3, <1>4, <1>5 DEF AuthorizationExpired, OverAuthorized, AMOUNT_CHECKED,
                                ProviderSubstituted, ScopeChanged

\* A quote is only bound to a job that waits for one.
LEMMA SelectionIsInTime ==
  ASSUME NEW a, NEW c, Allows(a, c), a.kind = "quote_select"
  PROVE  a.state = "INTENT_STRUCTURED"
<1>1. ~ Rules(a, c)[1].hits
  BY AllowedIsUntouched
<1>2. Rules(a, c)[1].hits = StateNotPermitted(a)
  BY DEF Rules
<1> QED
  BY <1>1, <1>2 DEF StateNotPermitted, ALLOWED_STATES

(***************************************************************************)
(* The table of states, as the steps of a job use it.                      *)
(***************************************************************************)

Early == {"CREATED", "INTENT_STRUCTURED", "QUOTE_SELECTED", "AWAITING_AUTHORIZATION"}
Unchosen == {"CREATED", "INTENT_STRUCTURED", "QUOTE_SELECTED", "CANCELLED"}
Done == {"DELIVERED", "RELEASED", "DISPUTED", "RESOLVING", "PROPOSED", "SETTLED", "ESCALATED"}
Working == {"FUNDED", "IN_PROGRESS", "EVIDENCE_SUBMITTED"} \cup Done

\* Every row of the table, by what an invariant may ask of it.
LEMMA Table ==
  \A move \in TRANSITIONS :
    /\ move[1] \in TxState /\ move[3] \in TxState
    /\ move[1] \notin Early => move[3] \notin Early
    /\ move[3] = "AWAITING_AUTHORIZATION" => move[2] = "AUTHORIZATION_ISSUED"
    /\ move[3] = "QUOTE_SELECTED" => move[2] = "QUOTE_SELECTED"
    /\ move[1] \in Unchosen => move[3] \in Unchosen \/ move[2] = "AUTHORIZATION_ISSUED"
    /\ move[1] \in Done => move[3] \in Done
    /\ move[3] \in Working => move[1] \in Working \/ move[2] = "FUNDED_ONCHAIN"
    /\ move[1] \in Working => move[3] \in Working \/ move[2] = "REFUNDED_ONCHAIN"
    /\ move[2] = "INTENT_STRUCTURED" => move[1] = "CREATED" /\ move[3] = "INTENT_STRUCTURED"
    /\ move[2] = "AUTHORIZED" => move[3] = "AUTHORIZED"
    /\ move[2] = "FUNDED_ONCHAIN" => move[1] = "FUNDING" /\ move[3] = "FUNDED"
    /\ move[2] = "WORK_STARTED" => move[1] = "FUNDED" /\ move[3] = "IN_PROGRESS"
    /\ move[2] = "EVIDENCE_ADDED" => move[1] = "IN_PROGRESS" /\ move[3] = "EVIDENCE_SUBMITTED"
    /\ move[2] = "DELIVERY_MARKED" => move[1] = "EVIDENCE_SUBMITTED" /\ move[3] = "DELIVERED"
BY DEF TRANSITIONS, PRE_FUNDING, TxState, Early, Unchosen, Done, Working

\* A legal event follows a row of the table.
LEMMA LegalMove ==
  ASSUME NEW s, NEW event, Can(s, event)
  PROVE  \E move \in TRANSITIONS : move[1] = s /\ move[2] = event /\ move[3] = NextState(s, event)
BY DEF Can, NextState

\* The two of them, for the state of the job.
LEMMA Applied ==
  ASSUME NEW event, Apply(event)
  PROVE
    /\ state \in TxState /\ state' \in TxState
    /\ state \notin Early => state' \notin Early
    /\ state' = "AWAITING_AUTHORIZATION" => event = "AUTHORIZATION_ISSUED"
    /\ state' = "QUOTE_SELECTED" => event = "QUOTE_SELECTED"
    /\ state \in Unchosen => state' \in Unchosen \/ event = "AUTHORIZATION_ISSUED"
    /\ state \in Done => state' \in Done
    /\ state' \in Working => state \in Working \/ event = "FUNDED_ONCHAIN"
    /\ state \in Working => state' \in Working \/ event = "REFUNDED_ONCHAIN"
    /\ event = "INTENT_STRUCTURED" => state = "CREATED" /\ state' = "INTENT_STRUCTURED"
    /\ event = "AUTHORIZED" => state' = "AUTHORIZED"
    /\ event = "FUNDED_ONCHAIN" => state = "FUNDING" /\ state' = "FUNDED"
    /\ event = "WORK_STARTED" => state = "FUNDED" /\ state' = "IN_PROGRESS"
    /\ event = "EVIDENCE_ADDED" => state = "IN_PROGRESS" /\ state' = "EVIDENCE_SUBMITTED"
    /\ event = "DELIVERY_MARKED" => state = "EVIDENCE_SUBMITTED" /\ state' = "DELIVERED"
<1>1. PICK move \in TRANSITIONS : move[1] = state /\ move[2] = event /\ move[3] = state'
  BY LegalMove DEF Apply
<1> QED
  BY <1>1, Table

\* Choosing a quote and issuing its offer, one after the other.
LEMMA Selected ==
  NextState(NextState("INTENT_STRUCTURED", "QUOTE_SELECTED"), "AUTHORIZATION_ISSUED")
    = "AWAITING_AUTHORIZATION"
<1>1. Can("INTENT_STRUCTURED", "QUOTE_SELECTED")
  <2>1. <<"INTENT_STRUCTURED", "QUOTE_SELECTED", "QUOTE_SELECTED">> \in TRANSITIONS
    BY DEF TRANSITIONS
  <2> QED
    BY <2>1 DEF Can
<1>2. \A move \in TRANSITIONS : move[2] = "QUOTE_SELECTED" => move[3] = "QUOTE_SELECTED"
  BY DEF TRANSITIONS
<1>3. NextState("INTENT_STRUCTURED", "QUOTE_SELECTED") = "QUOTE_SELECTED"
  BY <1>1, <1>2, LegalMove
<1>4. Can("QUOTE_SELECTED", "AUTHORIZATION_ISSUED")
  <2>1. <<"QUOTE_SELECTED", "AUTHORIZATION_ISSUED", "AWAITING_AUTHORIZATION">> \in TRANSITIONS
    BY DEF TRANSITIONS
  <2> QED
    BY <2>1 DEF Can
<1>5. \A move \in TRANSITIONS : move[2] = "AUTHORIZATION_ISSUED" => move[3] = "AWAITING_AUTHORIZATION"
  BY DEF TRANSITIONS
<1>6. NextState("QUOTE_SELECTED", "AUTHORIZATION_ISSUED") = "AWAITING_AUTHORIZATION"
  BY <1>4, <1>5, LegalMove
<1> QED
  BY <1>3, <1>6

\* The state a job starts in.
LEMMA Opened == \A parsed \in Parsed : OpenForIntent(parsed) \in {"CREATED", "INTENT_STRUCTURED"}
<1>1. Can("CREATED", "INTENT_STRUCTURED")
  <2>1. <<"CREATED", "INTENT_STRUCTURED", "INTENT_STRUCTURED">> \in TRANSITIONS
    BY DEF TRANSITIONS
  <2> QED
    BY <2>1 DEF Can
<1>2. NextState("CREATED", "INTENT_STRUCTURED") = "INTENT_STRUCTURED"
  BY <1>1, LegalMove, Table
<1> QED
  BY <1>2 DEF OpenForIntent

\* A price is an amount.
LEMMA PriceIsNat ==
  ASSUME NEW p \in Providers, NEW s \in Specs
  PROVE  PriceFor(p, s) \in Nat
<1>1. BaseRate[p] \in Nat /\ Rate \in Nat /\ Rate > 0
  BY ConstantsAssumption
<1>2. Cardinality(Rooms[s]) \in Nat
  BY ConstantsAssumption, FS_CardinalityType
<1> DEFINE kobo == BaseRate[p] * Cardinality(Rooms[s])
<1>3. kobo \in Nat
  BY <1>1, <1>2
<1>4. kobo * 10000 \in Nat
  BY <1>3
<1>5. \A n \in Nat : n \div Rate \in Nat
  BY <1>1
<1>6. MICRO_USDC \div 100 = 10000
  BY DEF MICRO_USDC
<1> QED
  BY <1>4, <1>5, <1>6 DEF PriceFor, KoboToMicro

(***************************************************************************)
(* What the customer approves and is asked to send.                        *)
(***************************************************************************)

\* What a request in flight has read: rows that are still there, if not as they were.
ReqOK ==
  /\ DOMAIN req = Requests
  /\ \A r \in Requests : req[r] # NoData =>
       /\ req[r].kind = "recommend" => req[r].spec \in Specs
       /\ req[r].kind = "select" =>
            /\ req[r].provider \in Providers
            /\ req[r].scope \in Specs
            /\ quote[req[r].provider] \in Specs
       /\ req[r].kind = "approve" => req[r].digest # NoData
       /\ req[r].kind = "upload" =>
            req[r].of \in EvidenceKind /\ req[r].item \in Items /\ req[r].file \in Files

\* The types of the rows that lead to the approval and of the calls that follow it.
RowsOK ==
  /\ state \in TxState \cup {NoData}
  /\ spec \in Intent
  /\ quote \in [Providers -> Quote]
  /\ provider \in Providers \cup {NoData}
  /\ amount \in Nat
  /\ offer \in Offer \cup {NoData}
  /\ expired \in BOOLEAN
  /\ auth \in Authorization \cup {NoData}
  /\ bound \in BOOLEAN
  /\ wallet \in [Providers -> Wallets \cup {NoData}]
  /\ calls \subseteq [call : {"createIntent", "fundIntent"}, wallet : Wallets, amount : Nat, scope : Specs]

\* A provider that is chosen keeps a quote and a wallet; the offer is for the amount
\* of the job while it waits for a signature, and so is what was signed.
Agreed ==
  /\ provider # NoData => quote[provider] \in Specs /\ wallet[provider] \in Wallets
  /\ state \in TxState \ Unchosen => provider # NoData
  /\ state # "QUOTE_SELECTED"
  /\ state = "AWAITING_AUTHORIZATION" => offer \in Offer /\ offer.max = amount
  /\ auth # NoData => state \in TxState \ Early /\ auth.max = amount

ApprovalInv == RowsOK /\ ReqOK /\ Agreed /\ CallsAreSigned

\* There is nothing yet.
LEMMA ApprovalInvInit == Init => ApprovalInv
<1> SUFFICES ASSUME Init PROVE ApprovalInv
  OBVIOUS
<1>1. RowsOK
  BY DEF Init, RowsOK, Intent, Quote
<1>2. ReqOK
  BY DEF Init, ReqOK
<1>3. Agreed
  BY ConstantsAssumption DEF Init, Agreed, TxState
<1>4. CallsAreSigned
  BY DEF Init, CallsAreSigned
<1> QED
  BY <1>1, <1>2, <1>3, <1>4 DEF ApprovalInv

\* A request that ends leaves the others as they read.
LEMMA ReqKept ==
  ASSUME ReqOK,
         \A p \in Providers : quote[p] \in Specs => quote'[p] \in Specs,
         \/ UNCHANGED req
         \/ \E r \in Requests : Finish(r)
  PROVE  ReqOK'
BY DEF ReqOK, Finish

\* A request that begins has read what it is for.
LEMMA ReqBegun ==
  ASSUME ReqOK, UNCHANGED quote, NEW r \in Requests, NEW x,
         req' = [req EXCEPT ![r] = x],
         x.kind = "recommend" => x.spec \in Specs,
         x.kind = "select" => x.provider \in Providers /\ x.scope \in Specs /\ quote[x.provider] \in Specs,
         x.kind = "approve" => x.digest # NoData,
         x.kind = "upload" => x.of \in EvidenceKind /\ x.item \in Items /\ x.file \in Files
  PROVE  ReqOK'
BY DEF ReqOK

\* The state moves along the table, and the agreement stands.
LEMMA StateMoves ==
  ASSUME ApprovalInv, UNCHANGED <<quote, provider, amount, offer, auth, wallet, calls>>,
         \/ UNCHANGED state
         \/ \E event : Apply(event) /\ event \notin {"QUOTE_SELECTED", "AUTHORIZATION_ISSUED"}
  PROVE  Agreed' /\ CallsAreSigned' /\ state' \in TxState \cup {NoData}
<1>1. CallsAreSigned'
  BY DEF ApprovalInv, CallsAreSigned
<1>2. CASE UNCHANGED state
  BY <1>1, <1>2 DEF ApprovalInv, Agreed, RowsOK
<1>3. CASE \E event : Apply(event) /\ event \notin {"QUOTE_SELECTED", "AUTHORIZATION_ISSUED"}
  <2>1. PICK event : Apply(event) /\ event \notin {"QUOTE_SELECTED", "AUTHORIZATION_ISSUED"}
    BY <1>3
  <2>2. /\ state \in TxState /\ state' \in TxState
        /\ state \notin Early => state' \notin Early
        /\ state \in Unchosen => state' \in Unchosen
        /\ state' # "AWAITING_AUTHORIZATION" /\ state' # "QUOTE_SELECTED"
    BY <2>1, Applied
  <2>3. Agreed'
    BY <2>2 DEF ApprovalInv, Agreed
  <2> QED
    BY <1>1, <2>2, <2>3
<1> QED
  BY <1>2, <1>3

\* The agreement and its calls, when no row of them changes and the state moves.
LEMMA ApprovalMoves ==
  ASSUME ApprovalInv, UNCHANGED <<quote, provider, amount, offer, auth, wallet, calls>>,
         \/ UNCHANGED state
         \/ \E event : Apply(event) /\ event \notin {"QUOTE_SELECTED", "AUTHORIZATION_ISSUED"},
         spec' \in Intent, expired' \in BOOLEAN, bound' \in BOOLEAN,
         \/ UNCHANGED req
         \/ \E r \in Requests : Finish(r)
  PROVE  ApprovalInv'
<1>1. Agreed' /\ CallsAreSigned' /\ state' \in TxState \cup {NoData}
  BY StateMoves
<1>2. ReqOK'
  BY ReqKept DEF ApprovalInv
<1>3. RowsOK'
  BY <1>1 DEF ApprovalInv, RowsOK
<1> QED
  BY <1>1, <1>2, <1>3 DEF ApprovalInv

\* A request that begins changes no row.
LEMMA ApprovalBegins ==
  ASSUME ApprovalInv, UNCHANGED <<job, intent, expired, wallet, calls>>, ReqOK'
  PROVE  ApprovalInv'
<1>1. Agreed' /\ CallsAreSigned'
  BY DEF ApprovalInv, Agreed, CallsAreSigned, job, intent
<1>2. RowsOK'
  BY DEF ApprovalInv, RowsOK, job, intent
<1> QED
  BY <1>1, <1>2 DEF ApprovalInv

\* The choice of a provider, as it was read: its quote is there and its wallet known.
LEMMA EndSelectKeeps ==
  ASSUME ApprovalInv, NEW r \in Requests, EndSelect(r)
  PROVE  ApprovalInv' /\ auth = NoData
<1> DEFINE p == req[r].provider
           price == PriceFor(p, req[r].scope)
<1>1. /\ p \in Providers /\ req[r].scope \in Specs /\ quote[p] \in Specs
      /\ wallet[p] \in Wallets
      /\ provider' = p /\ amount' = price
      /\ offer' = [max |-> price, wallet |-> wallet[p], scope |-> req[r].scope]
      /\ expired' = FALSE /\ Finish(r)
      /\ UNCHANGED <<spec, quote, auth, bound, wallet, calls>>
  BY DEF EndSelect, Holds, ApprovalInv, ReqOK, RowsOK, BuildOffer, intent
<1>2. state = "INTENT_STRUCTURED"
  <2>1. Allows(Action("quote_select", state, price, wallet[p], req[r].scope, NoData), Context(NoData))
    BY DEF EndSelect
  <2>2. /\ Action("quote_select", state, price, wallet[p], req[r].scope, NoData).kind = "quote_select"
        /\ Action("quote_select", state, price, wallet[p], req[r].scope, NoData).state = state
    BY DEF Action
  <2> QED
    BY <2>1, <2>2, SelectionIsInTime
<1>3. state' = "AWAITING_AUTHORIZATION"
  BY <1>2, Selected DEF EndSelect
<1>4. auth = NoData
  BY <1>2 DEF ApprovalInv, Agreed, Early
<1>5. price \in Nat
  BY <1>1, PriceIsNat
<1> HIDE DEF p, price
<1>6. ReqOK'
  BY <1>1, ReqKept DEF ApprovalInv
<1>7. offer' \in Offer /\ offer'.max = amount'
  BY <1>1, <1>5 DEF Offer
<1>8. RowsOK'
  BY <1>1, <1>3, <1>5, <1>7 DEF ApprovalInv, RowsOK, TxState
<1>9. Agreed'
  BY <1>1, <1>3, <1>4, <1>7, ConstantsAssumption DEF Agreed, Unchosen
<1>10. CallsAreSigned'
  BY <1>1, <1>4 DEF ApprovalInv, CallsAreSigned
<1> QED
  BY <1>4, <1>6, <1>8, <1>9, <1>10 DEF ApprovalInv

\* The signature: nothing was signed before, and what is signed is on offer.
LEMMA EndApproveKeeps ==
  ASSUME ApprovalInv, NEW r \in Requests, EndApprove(r)
  PROVE  ApprovalInv' /\ auth = NoData
<1>1. /\ state = "AWAITING_AUTHORIZATION" /\ auth' = offer /\ Apply("AUTHORIZED") /\ Finish(r)
      /\ offer = req[r].digest
      /\ UNCHANGED <<spec, quote, provider, amount, offer, bound, expired, wallet, calls>>
  BY DEF EndApprove, intent
<1>2. state' = "AUTHORIZED"
  BY <1>1, Applied
<1>3. auth = NoData
  BY <1>1 DEF ApprovalInv, Agreed, Early
<1>4. calls = {}
  BY <1>3 DEF ApprovalInv, CallsAreSigned
<1>5. offer \in Offer /\ offer.max = amount /\ provider # NoData
  BY <1>1 DEF ApprovalInv, Agreed, TxState, Unchosen
<1>6. ReqOK'
  BY <1>1, ReqKept DEF ApprovalInv
<1>7. RowsOK'
  BY <1>1, <1>2, <1>5 DEF ApprovalInv, RowsOK, TxState, Authorization
<1>8. Agreed'
  BY <1>1, <1>2, <1>5 DEF ApprovalInv, Agreed, TxState, Unchosen, Early
<1>9. CallsAreSigned'
  BY <1>1, <1>4 DEF CallsAreSigned
<1> QED
  BY <1>3, <1>6, <1>7, <1>8, <1>9 DEF ApprovalInv

\* A call is handed out for what was signed: policy compares the wallet and the
\* scope, and the amount of the job has not moved since.
LEMMA FundKeeps ==
  ASSUME ApprovalInv, Fund
  PROVE  ApprovalInv'
<1> DEFINE paid == WalletOf(provider)
           act == Action("fund", state, amount, paid, quote[provider], NoData)
           context == Context(AuthorizationView)
<1>1. /\ auth # NoData
      /\ Allows(act, context)
      /\ \/ Apply("FUNDING_STARTED")
         \/ UNCHANGED state
      /\ calls' = calls \cup {[call |-> IF bound THEN "fundIntent" ELSE "createIntent",
                               wallet |-> paid, amount |-> amount, scope |-> quote[provider]]}
      /\ UNCHANGED <<spec, quote, provider, amount, offer, auth, bound, expired, wallet, req>>
  BY DEF Fund, FundCalls, QuoteView, intent
<1>2. /\ provider \in Providers
      /\ quote[provider] \in Specs
      /\ paid = wallet[provider] /\ paid \in Wallets
      /\ auth.max = amount
  <2>1. provider # NoData \/ state = "CANCELLED"
    BY <1>1 DEF ApprovalInv, Agreed, Early, Unchosen
  <2>2. act.kind = "fund" /\ act.state = state
    BY DEF Action
  <2>3. state # "CANCELLED"
    <3>1. ~ Rules(act, context)[1].hits
      BY <1>1, AllowedIsUntouched
    <3>2. Rules(act, context)[1].hits = StateNotPermitted(act)
      BY DEF Rules
    <3> QED
      BY <2>2, <3>1, <3>2 DEF StateNotPermitted, ALLOWED_STATES
  <2>4. provider # NoData
    BY <2>1, <2>3
  <2> QED
    BY <1>1, <2>4 DEF ApprovalInv, Agreed, RowsOK, WalletOf
<1>3. paid # NoData /\ quote[provider] # NoData
  BY <1>2, ConstantsAssumption
<1>4. /\ act.kind = "fund" /\ act.wallet = paid /\ act.scope = quote[provider]
      /\ context.auth.wallet = auth.wallet /\ context.auth.scope = auth.scope
  BY DEF Action, Context, AuthorizationView
<1>5. paid = auth.wallet /\ quote[provider] = auth.scope
  <2> HIDE DEF act, context, paid
  <2> QED
    BY <1>1, <1>3, <1>4, FundingIsWhatWasSigned
<1> DEFINE new == [call |-> IF bound THEN "fundIntent" ELSE "createIntent",
                   wallet |-> paid, amount |-> amount, scope |-> quote[provider]]
<1>6. new \in [call : {"createIntent", "fundIntent"}, wallet : Wallets, amount : Nat, scope : Specs]
  BY <1>2 DEF ApprovalInv, RowsOK
<1>7. new.wallet = auth.wallet /\ new.amount = auth.max /\ new.scope = auth.scope
  BY <1>2, <1>5
<1>8. calls' = calls \cup {new}
  BY <1>1
<1> HIDE DEF new, act, context, paid
<1>9. CallsAreSigned'
  BY <1>1, <1>7, <1>8 DEF ApprovalInv, CallsAreSigned
<1>10. /\ state' \in TxState
       /\ state' \notin Early
       /\ state' # "QUOTE_SELECTED" /\ state' # "AWAITING_AUTHORIZATION"
  <2>1. state \in TxState \ Early
    BY <1>1 DEF ApprovalInv, Agreed
  <2>2. CASE UNCHANGED state
    BY <2>1, <2>2 DEF Early
  <2>3. CASE Apply("FUNDING_STARTED")
    BY <2>1, <2>3, Applied DEF Early
  <2> QED
    BY <1>1, <2>2, <2>3
<1>11. Agreed'
  BY <1>1, <1>2, <1>10, ConstantsAssumption DEF ApprovalInv, Agreed
<1>12. RowsOK'
  BY <1>1, <1>6, <1>8, <1>10 DEF ApprovalInv, RowsOK
<1>13. ReqOK'
  BY <1>1 DEF ApprovalInv, ReqOK
<1> QED
  BY <1>9, <1>11, <1>12, <1>13 DEF ApprovalInv

\* Every step keeps the agreement, and with it what was signed.
LEMMA ApprovalInvNext ==
  ASSUME ApprovalInv, [Next]_vars
  PROVE  ApprovalInv' /\ (auth # NoData => UNCHANGED <<auth, offer, amount, provider>>)
<1>1. CASE UNCHANGED vars
  <2>1. UNCHANGED <<job, intent, expired, wallet, calls, req, quote>> /\ UNCHANGED <<auth, offer, amount, provider>>
    BY <1>1 DEF vars, job, intent
  <2>2. ReqOK'
    BY <2>1, ReqKept DEF ApprovalInv
  <2> QED
    BY <2>1, <2>2, ApprovalBegins
<1>2. ASSUME NEW parsed \in Parsed, Capture(parsed)
      PROVE  ApprovalInv' /\ UNCHANGED <<auth, offer, amount, provider>>
  <2>1. /\ state = NoData /\ spec' = parsed
        /\ state' \in {"CREATED", "INTENT_STRUCTURED"}
        /\ UNCHANGED <<quote, provider, amount, offer, auth, bound, expired, wallet, req, calls>>
    BY <1>2, Opened DEF Capture
  <2>2. auth = NoData
    BY <2>1, ConstantsAssumption DEF ApprovalInv, Agreed
  <2>3. Agreed' /\ CallsAreSigned'
    BY <2>1, <2>2 DEF ApprovalInv, Agreed, CallsAreSigned, Unchosen
  <2>4. RowsOK'
    BY <2>1 DEF ApprovalInv, RowsOK, Parsed, Intent, TxState
  <2>5. ReqOK'
    BY <2>1, ReqKept DEF ApprovalInv
  <2> QED
    BY <2>1, <2>3, <2>4, <2>5 DEF ApprovalInv
<1>3. ASSUME NEW parsed \in Parsed, Refine(parsed)
      PROVE  ApprovalInv' /\ UNCHANGED <<auth, offer, amount, provider>>
  <2>1. /\ UNCHANGED <<quote, provider, amount, offer, auth, wallet, calls, req, expired, bound>>
        /\ UNCHANGED state \/ Apply("INTENT_STRUCTURED")
        /\ spec' \in Intent
    BY <1>3 DEF Refine, Parsed, Intent
  <2>2. expired' \in BOOLEAN /\ bound' \in BOOLEAN
    BY <2>1 DEF ApprovalInv, RowsOK
  <2> QED
    BY <2>1, <2>2, ApprovalMoves
<1>4. ASSUME NEW r \in Requests, BeginRecommend(r)
      PROVE  ApprovalInv' /\ UNCHANGED <<auth, offer, amount, provider>>
  <2> DEFINE x == [kind |-> "recommend", spec |-> spec]
  <2>1. req' = [req EXCEPT ![r] = x] /\ UNCHANGED <<job, intent, expired, wallet, calls, quote>>
    BY <1>4 DEF BeginRecommend, intent
  <2>2. x.kind = "recommend" /\ x.spec \in Specs
    BY <1>4 DEF BeginRecommend, ApprovalInv, RowsOK, Intent
  <2> HIDE DEF x
  <2>3. ReqOK'
    BY <2>1, <2>2, ReqBegun DEF ApprovalInv
  <2> QED
    BY <2>1, <2>3, ApprovalBegins DEF job
<1>5. ASSUME NEW r \in Requests, EndRecommend(r)
      PROVE  ApprovalInv' /\ UNCHANGED <<auth, offer, amount, provider>>
  <2>1. PICK kept \in SUBSET Providers :
          quote' = [p \in Providers |-> IF p \in kept THEN req[r].spec ELSE quote[p]]
    BY <1>5 DEF EndRecommend
  <2>2. req[r].spec \in Specs /\ Finish(r) /\ UNCHANGED <<job, spec, expired, wallet, calls>>
    BY <1>5 DEF EndRecommend, Holds, ApprovalInv, ReqOK
  <2>3. \A p \in Providers : quote[p] \in Specs => quote'[p] \in Specs
    BY <2>1, <2>2
  <2>4. quote' \in [Providers -> Quote]
    BY <2>1, <2>2 DEF ApprovalInv, RowsOK, Quote
  <2>5. ReqOK'
    BY <2>2, <2>3, ReqKept DEF ApprovalInv
  <2>6. RowsOK'
    BY <2>2, <2>4 DEF ApprovalInv, RowsOK, job
  <2>7. Agreed'
    BY <2>2, <2>3 DEF ApprovalInv, Agreed, RowsOK, job
  <2>8. CallsAreSigned'
    BY <2>2 DEF ApprovalInv, CallsAreSigned, job
  <2> QED
    BY <2>2, <2>5, <2>6, <2>7, <2>8 DEF ApprovalInv, job
<1>6. ASSUME NEW r \in Requests, NEW p \in Providers, BeginSelect(r, p)
      PROVE  ApprovalInv' /\ UNCHANGED <<auth, offer, amount, provider>>
  <2> DEFINE x == [kind |-> "select", provider |-> p, scope |-> quote[p]]
  <2>1. req' = [req EXCEPT ![r] = x] /\ UNCHANGED <<job, intent, expired, wallet, calls, quote>>
    BY <1>6 DEF BeginSelect, intent
  <2>2. x.kind = "select" /\ x.provider \in Providers /\ x.scope \in Specs /\ quote[x.provider] \in Specs
    BY <1>6 DEF BeginSelect, ApprovalInv, RowsOK, Quote
  <2> HIDE DEF x
  <2>3. ReqOK'
    BY <2>1, <2>2, ReqBegun DEF ApprovalInv
  <2> QED
    BY <2>1, <2>3, ApprovalBegins DEF job
<1>7. ASSUME NEW r \in Requests, EndSelect(r)
      PROVE  ApprovalInv' /\ auth = NoData
  BY <1>7, EndSelectKeeps
<1>8. ASSUME NEW r \in Requests, BeginApprove(r)
      PROVE  ApprovalInv' /\ UNCHANGED <<auth, offer, amount, provider>>
  <2> DEFINE x == [kind |-> "approve", digest |-> offer]
  <2>1. req' = [req EXCEPT ![r] = x] /\ UNCHANGED <<job, intent, expired, wallet, calls, quote>>
    BY <1>8 DEF BeginApprove, intent
  <2>2. x.kind = "approve" /\ x.digest # NoData
    BY <1>8 DEF BeginApprove
  <2> HIDE DEF x
  <2>3. ReqOK'
    BY <2>1, <2>2, ReqBegun DEF ApprovalInv
  <2> QED
    BY <2>1, <2>3, ApprovalBegins DEF job
<1>9. ASSUME NEW r \in Requests, EndApprove(r)
      PROVE  ApprovalInv' /\ auth = NoData
  BY <1>9, EndApproveKeeps
<1>10. ASSUME NEW r \in Requests, NEW kind \in EvidenceKind, NEW item \in Items, NEW file \in Files,
              BeginUpload(r, kind, item, file)
       PROVE  ApprovalInv' /\ UNCHANGED <<auth, offer, amount, provider>>
  <2> DEFINE x == [kind |-> "upload", of |-> kind, item |-> item, file |-> file]
  <2>1. req' = [req EXCEPT ![r] = x] /\ UNCHANGED <<job, intent, expired, wallet, calls, quote>>
    BY <1>10 DEF BeginUpload, intent
  <2>2. x.kind = "upload" /\ x.of \in EvidenceKind /\ x.item \in Items /\ x.file \in Files
    OBVIOUS
  <2> HIDE DEF x
  <2>3. ReqOK'
    BY <2>1, <2>2, ReqBegun DEF ApprovalInv
  <2> QED
    BY <2>1, <2>3, ApprovalBegins DEF job
<1>11. ASSUME NEW r \in Requests, EndUpload(r)
       PROVE  ApprovalInv' /\ UNCHANGED <<auth, offer, amount, provider>>
  <2>1. /\ UNCHANGED <<spec, quote, provider, amount, offer, auth, wallet, calls, expired, bound>>
        /\ UNCHANGED state \/ Apply("EVIDENCE_ADDED")
        /\ Finish(r)
    BY <1>11 DEF EndUpload, intent
  <2>2. spec' \in Intent /\ expired' \in BOOLEAN /\ bound' \in BOOLEAN
    BY <2>1 DEF ApprovalInv, RowsOK
  <2> QED
    BY <2>1, <2>2, ApprovalMoves
<1>12. ASSUME NEW r \in Requests, Drop(r)
       PROVE  ApprovalInv' /\ UNCHANGED <<auth, offer, amount, provider>>
  <2>1. Finish(r) /\ UNCHANGED <<job, intent, expired, wallet, calls, quote>>
    BY <1>12 DEF Drop, intent
  <2>2. ReqOK'
    BY <2>1, ReqKept DEF ApprovalInv
  <2> QED
    BY <2>1, <2>2, ApprovalBegins DEF job
<1>13. CASE Fund
  <2>1. UNCHANGED <<auth, offer, amount, provider>>
    BY <1>13 DEF Fund, FundCalls
  <2> QED
    BY <1>13, <2>1, FundKeeps
<1>14. CASE Cancel \/ ExpireAuthorizations \/ DisputeRaised \/ Deliver \/ Start \/ IntentFunded
  <2>1. /\ UNCHANGED <<spec, quote, provider, amount, offer, auth, wallet, calls, expired, bound, req>>
        /\ \E event : Apply(event) /\ event \notin {"QUOTE_SELECTED", "AUTHORIZATION_ISSUED"}
    <3>1. CASE Cancel
      BY <3>1 DEF Cancel, intent
    <3>2. CASE ExpireAuthorizations
      BY <3>2 DEF ExpireAuthorizations, intent
    <3>3. CASE DisputeRaised
      BY <3>3 DEF DisputeRaised, intent
    <3>4. CASE Deliver
      BY <3>4 DEF Deliver, intent
    <3>5. CASE Start
      BY <3>5 DEF Start, intent
    <3>6. CASE IntentFunded
      BY <3>6 DEF IntentFunded, intent
    <3> QED
      BY <1>14, <3>1, <3>2, <3>3, <3>4, <3>5, <3>6
  <2>2. spec' \in Intent /\ expired' \in BOOLEAN /\ bound' \in BOOLEAN
    BY <2>1 DEF ApprovalInv, RowsOK
  <2> QED
    BY <2>1, <2>2, ApprovalMoves
<1>15. CASE IntentCreated
  <2>1. UNCHANGED <<state, spec, quote, provider, amount, offer, auth, wallet, calls, expired, req>>
    BY <1>15 DEF IntentCreated, intent
  <2>2. spec' \in Intent /\ expired' \in BOOLEAN /\ bound' \in BOOLEAN
    BY <1>15, <2>1 DEF IntentCreated, ApprovalInv, RowsOK
  <2> QED
    BY <2>1, <2>2, ApprovalMoves
<1>16. ASSUME NEW p \in Providers, NEW w \in Wallets, SignIn(p, w)
       PROVE  ApprovalInv' /\ UNCHANGED <<auth, offer, amount, provider>>
  <2>1. wallet' = [wallet EXCEPT ![p] = w] /\ UNCHANGED <<job, spec, quote, expired, req, calls>>
    BY <1>16 DEF SignIn, intent
  <2>2. RowsOK'
    BY <2>1 DEF ApprovalInv, RowsOK, job
  <2>3. Agreed'
    BY <2>1 DEF ApprovalInv, RowsOK, Agreed, job
  <2>4. CallsAreSigned' /\ ReqOK'
    BY <2>1, ReqKept DEF ApprovalInv, CallsAreSigned, job
  <2> QED
    BY <2>1, <2>2, <2>3, <2>4 DEF ApprovalInv, job
<1>17. CASE OfferExpires
  <2>1. expired' = TRUE /\ UNCHANGED <<job, spec, quote, wallet, req, calls>>
    BY <1>17 DEF OfferExpires, intent
  <2>2. spec' \in Intent /\ bound' \in BOOLEAN
    BY <2>1 DEF ApprovalInv, RowsOK, job
  <2> QED
    BY <2>1, <2>2, ApprovalMoves DEF job
<1> QED
  BY <1>1, <1>2, <1>3, <1>4, <1>5, <1>6, <1>7, <1>8, <1>9, <1>10, <1>11, <1>12, <1>13, <1>14,
     <1>15, <1>16, <1>17 DEF Next

\* For any wallets, quotes and requests in flight: every call the customer's
\* wallet is asked to send is for the wallet, amount and scope it approved
\* (payments/service.py:64-100).
THEOREM FundingIsSigned == Spec => []CallsAreSigned
<1>1. Init => ApprovalInv
  BY ApprovalInvInit
<1>2. ApprovalInv /\ [Next]_vars => ApprovalInv'
  BY ApprovalInvNext
<1>3. ApprovalInv => CallsAreSigned
  BY DEF ApprovalInv
<1> QED
  BY <1>1, <1>2, <1>3, PTL DEF Spec

\* What was signed is never overwritten, by an older request or a second choice
\* (authorization/service.py:60-99).
THEOREM SignedStands == Spec => ApprovalStands
<1>1. Init => ApprovalInv
  BY ApprovalInvInit
<1>2. ApprovalInv /\ [Next]_vars => ApprovalInv'
  BY ApprovalInvNext
<1>3. ApprovalInv /\ [Next]_vars => [auth # NoData => UNCHANGED <<auth, offer, amount, provider>>]_vars
  BY ApprovalInvNext
<1> QED
  BY <1>1, <1>2, <1>3, PTL DEF Spec, ApprovalStands

(***************************************************************************)
(* The work and its photos.                                                *)
(***************************************************************************)

Photos(i) == {e \in AfterPhotos : e.item = i}
Shown == {e.file : e \in AfterPhotos}

\* Before the money there is neither work nor evidence; from then on the work has
\* its row, which counts its photos, and is delivered only once and for all.
WorkInv ==
  /\ state \notin Working => work = NoData /\ evidence = {}
  /\ state \in Working => work \in Fulfillment
  /\ state \in Working => \A i \in Items : work.coverage[i] = Cardinality(Photos(i))
  /\ state \in Working /\ work.status = "DELIVERED" =>
       state \in Done /\ MissingItems = {} /\ work.deliverable = Shown
  /\ evidence \subseteq Evidence
  /\ IsFiniteSet(evidence)

LEMMA WorkInvInit == Init => WorkInv
<1> SUFFICES ASSUME Init PROVE WorkInv
  OBVIOUS
<1>1. state \notin Working
  BY ConstantsAssumption DEF Init, Working, Done, TxState
<1> QED
  BY <1>1, FS_EmptySet DEF Init, WorkInv

\* The work is as it was, when nothing of it changes and the job stays on its side.
LEMMA WorkStays ==
  ASSUME WorkInv, UNCHANGED <<work, evidence>>,
         state \in Working <=> state' \in Working,
         state \in Done => state' \in Done
  PROVE  WorkInv'
<1>1. AfterPhotos' = AfterPhotos /\ Shown' = Shown /\ MissingItems' = MissingItems
  BY DEF AfterPhotos, Shown, MissingItems
<1>2. \A i : Photos(i)' = Photos(i)
  BY <1>1 DEF Photos
<1> QED
  BY <1>1, <1>2 DEF WorkInv

\* Moves of the job that are not about the work.
LEMMA WorkMoves ==
  ASSUME WorkInv, UNCHANGED <<work, evidence>>, NEW event, Apply(event),
         event \notin {"FUNDED_ONCHAIN", "REFUNDED_ONCHAIN"}
  PROVE  WorkInv'
<1>1. /\ state \in Working <=> state' \in Working
      /\ state \in Done => state' \in Done
  BY Applied
<1> QED
  BY <1>1, WorkStays

\* The money arrives: the work gets its row, with the checklist of the quote.
LEMMA WorkFunded ==
  ASSUME ApprovalInv, WorkInv, IntentFunded
  PROVE  WorkInv'
<1>1. state = "FUNDING" /\ state' = "FUNDED" /\ UNCHANGED evidence /\ Ensure(Checklist(QuoteView))
  BY Applied DEF IntentFunded
<1>2. state \notin Working /\ state' \in Working
  BY <1>1 DEF Working, Done
<1>3. work = NoData /\ evidence = {}
  BY <1>2 DEF WorkInv
<1>4. provider # NoData /\ quote[provider] \in Specs
  BY <1>1 DEF ApprovalInv, Agreed, Unchosen, TxState
<1>5. Checklist(QuoteView) \subseteq Items
  BY <1>4 DEF Checklist, QuoteView, Items
<1>6. work' = [items |-> Checklist(QuoteView), coverage |-> [i \in Items |-> 0], status |-> "NOT_STARTED",
               deliverable |-> NoData]
  BY <1>1, <1>3 DEF Ensure
<1>7. work' \in Fulfillment
  BY <1>5, <1>6 DEF Fulfillment
<1>8. evidence' = {} /\ \A i : Photos(i)' = {}
  BY <1>1, <1>3 DEF Photos, AfterPhotos
<1>9. \A i \in Items : work'.coverage[i] = Cardinality(Photos(i)')
  BY <1>6, <1>8, FS_EmptySet
<1>10. work'.status # "DELIVERED"
  BY <1>6
<1> QED
  BY <1>2, <1>7, <1>8, <1>9, <1>10, FS_EmptySet DEF WorkInv

\* The work begins: its photos and what they show stay.
LEMMA WorkStarts ==
  ASSUME WorkInv, Start
  PROVE  WorkInv'
<1>1. state = "FUNDED" /\ state' = "IN_PROGRESS" /\ UNCHANGED evidence
      /\ work' = [work EXCEPT !.status = "IN_PROGRESS"]
  BY Applied DEF Start
<1>2. state \in Working /\ state' \in Working
  BY <1>1 DEF Working
<1>3. work \in Fulfillment
  BY <1>2 DEF WorkInv
<1>4. work' \in Fulfillment /\ work'.coverage = work.coverage /\ work'.status # "DELIVERED"
  BY <1>1, <1>3 DEF Fulfillment
<1>5. \A i : Photos(i)' = Photos(i)
  BY <1>1 DEF Photos, AfterPhotos
<1> QED
  BY <1>1, <1>2, <1>4, <1>5 DEF WorkInv

\* The delivery names the photos there are, and there is one of every room.
LEMMA WorkDelivered ==
  ASSUME WorkInv, Deliver
  PROVE  WorkInv'
<1>1. state = "EVIDENCE_SUBMITTED" /\ state' = "DELIVERED" /\ UNCHANGED evidence /\ MissingItems = {}
      /\ work' = [work EXCEPT !.status = "DELIVERED", !.deliverable = {e.file : e \in AfterPhotos}]
  BY Applied DEF Deliver
<1>2. state \in Working /\ state' \in Working /\ state' \in Done
  BY <1>1 DEF Working, Done
<1>3. work \in Fulfillment
  BY <1>2 DEF WorkInv
<1>4. {e.file : e \in AfterPhotos} \subseteq Files
  BY DEF WorkInv, AfterPhotos, Evidence
<1>5. /\ work' \in Fulfillment /\ work'.coverage = work.coverage /\ work'.items = work.items
      /\ work'.deliverable = Shown
  BY <1>1, <1>3, <1>4 DEF Fulfillment, Shown
<1>6. AfterPhotos' = AfterPhotos
  BY <1>1 DEF AfterPhotos
<1>7. MissingItems' = {} /\ Shown' = Shown /\ \A i : Photos(i)' = Photos(i)
  BY <1>1, <1>5, <1>6 DEF MissingItems, Shown, Photos
<1> QED
  BY <1>1, <1>2, <1>5, <1>7 DEF WorkInv

\* A photo or another file arrives: a new photo counts one, and only before the delivery.
LEMMA WorkUploaded ==
  ASSUME ReqOK, WorkInv, NEW r \in Requests, EndUpload(r)
  PROVE  WorkInv'
<1>1. PICK kind \in EvidenceKind, item \in Items, file \in Files :
        kind = req[r].of /\ item = req[r].item /\ file = req[r].file
  BY DEF EndUpload, Holds, ReqOK
<1> DEFINE new == [kind |-> kind, item |-> item, file |-> file]
<1>2. /\ CheckAllowed(kind, item)
      /\ evidence' = IF Created(file) THEN evidence \cup {new} ELSE evidence
      /\ IF Created(file) /\ kind = "AFTER_PHOTO" /\ state = "IN_PROGRESS"
         THEN Apply("EVIDENCE_ADDED") ELSE UNCHANGED state
      /\ work' = IF Created(file) /\ kind = "AFTER_PHOTO" THEN Cover(item) ELSE work
  BY <1>1 DEF EndUpload, Record
<1>3. new \in Evidence /\ new.kind = kind /\ new.item = item /\ new.file = file
  BY DEF Evidence
<1> HIDE DEF new
<1>4. state \in Working /\ (kind = "AFTER_PHOTO" => state \in {"IN_PROGRESS", "EVIDENCE_SUBMITTED"})
  BY <1>1, <1>2 DEF CheckAllowed, EvidenceKind, Working, Done
<1>5. state' \in Working /\ (state \in Done => state' = state)
  BY <1>2, <1>4, Applied DEF Done
<1>6. evidence' \subseteq Evidence /\ IsFiniteSet(evidence')
  BY <1>2, <1>3, FS_AddElement DEF WorkInv
<1>7. work \in Fulfillment
  BY <1>4 DEF WorkInv
<1>8. CASE Created(file) /\ kind = "AFTER_PHOTO"
  <2>1. /\ evidence' = evidence \cup {new} /\ new \notin evidence
        /\ work' = [work EXCEPT !.coverage[item] = @ + 1]
    BY <1>2, <1>3, <1>8 DEF Created, Cover
  <2>2. Photos(item)' = Photos(item) \cup {new}
    BY <1>3, <1>8, <2>1 DEF Photos, AfterPhotos
  <2>3. \A i \in Items \ {item} : Photos(i)' = Photos(i)
    BY <1>3, <1>8, <2>1 DEF Photos, AfterPhotos
  <2>4. IsFiniteSet(Photos(item)) /\ new \notin Photos(item)
    <3>1. Photos(item) \subseteq evidence
      BY DEF Photos, AfterPhotos
    <3> QED
      BY <2>1, <3>1, FS_Subset DEF WorkInv
  <2>5. Cardinality(Photos(item)') = Cardinality(Photos(item)) + 1
    BY <2>2, <2>4, FS_AddElement
  <2>6. \A i \in Items : work.coverage[i] = Cardinality(Photos(i))
    BY <1>4 DEF WorkInv
  <2>7. work.coverage \in [Items -> Nat]
    BY <1>7 DEF Fulfillment
  <2>8. /\ work'.coverage[item] = work.coverage[item] + 1
        /\ \A i \in Items \ {item} : work'.coverage[i] = work.coverage[i]
        /\ work' \in Fulfillment /\ work'.status = work.status
    BY <1>7, <2>1, <2>7 DEF Fulfillment
  <2>9. \A i \in Items : work'.coverage[i] = Cardinality(Photos(i)')
    BY <2>3, <2>5, <2>6, <2>8
  <2>10. work'.status # "DELIVERED"
    BY <1>4, <1>8, <2>8 DEF WorkInv, Done
  <2> QED
    BY <1>5, <1>6, <2>8, <2>9, <2>10 DEF WorkInv
<1>9. CASE ~ (Created(file) /\ kind = "AFTER_PHOTO")
  <2>1. work' = work /\ UNCHANGED state
    BY <1>2, <1>9
  <2>2. AfterPhotos' = AfterPhotos
    BY <1>2, <1>3, <1>9 DEF AfterPhotos
  <2>3. MissingItems' = MissingItems /\ Shown' = Shown /\ \A i : Photos(i)' = Photos(i)
    BY <2>1, <2>2 DEF MissingItems, Shown, Photos
  <2> QED
    BY <1>4, <1>5, <1>6, <2>1, <2>3 DEF WorkInv
<1> QED
  BY <1>8, <1>9

\* Every step keeps the work in order.
LEMMA WorkInvNext ==
  ASSUME ApprovalInv, WorkInv, [Next]_vars
  PROVE  WorkInv'
<1>1. CASE UNCHANGED <<state, work, evidence>>
  BY <1>1, WorkStays
<1>2. CASE Cancel \/ ExpireAuthorizations \/ DisputeRaised
  <2>1. \E event : Apply(event) /\ event \notin {"FUNDED_ONCHAIN", "REFUNDED_ONCHAIN"}
    BY <1>2 DEF Cancel, ExpireAuthorizations, DisputeRaised
  <2>2. UNCHANGED <<work, evidence>>
    BY <1>2 DEF Cancel, ExpireAuthorizations, DisputeRaised
  <2> QED
    BY <2>1, <2>2, WorkMoves
<1>3. CASE Fund
  <2>1. UNCHANGED <<work, evidence>> /\ (Apply("FUNDING_STARTED") \/ UNCHANGED state)
    BY <1>3 DEF Fund, FundCalls
  <2> QED
    BY <2>1, WorkMoves, WorkStays
<1>4. ASSUME NEW parsed \in Parsed, Capture(parsed) \/ Refine(parsed) PROVE WorkInv'
  <2>1. CASE Capture(parsed)
    <3>1. /\ state = NoData /\ UNCHANGED <<work, evidence>>
          /\ state' \in {"CREATED", "INTENT_STRUCTURED"}
      BY <2>1, Opened DEF Capture
    <3>2. state \notin Working /\ state' \notin Working
      BY <3>1, ConstantsAssumption DEF Working, Done, TxState
    <3> QED
      BY <3>1, <3>2, WorkStays DEF Working
  <2>2. CASE Refine(parsed)
    <3>1. UNCHANGED <<work, evidence>> /\ (Apply("INTENT_STRUCTURED") \/ UNCHANGED state)
      BY <2>2 DEF Refine
    <3> QED
      BY <3>1, WorkMoves, WorkStays
  <2> QED
    BY <1>4, <2>1, <2>2
<1>5. ASSUME NEW r \in Requests, EndSelect(r) PROVE WorkInv'
  <2>1. state \in Early /\ state' \in Early /\ UNCHANGED <<work, evidence>>
    <3>1. Allows(Action("quote_select", state, PriceFor(req[r].provider, req[r].scope),
                        wallet[req[r].provider], req[r].scope, NoData), Context(NoData))
          /\ state' = NextState(NextState(state, "QUOTE_SELECTED"), "AUTHORIZATION_ISSUED")
          /\ UNCHANGED <<work, evidence>>
      BY <1>5 DEF EndSelect
    <3>2. state = "INTENT_STRUCTURED"
      BY <3>1, SelectionIsInTime DEF Action
    <3> QED
      BY <3>1, <3>2, Selected DEF Early
  <2>2. state \notin Working /\ state' \notin Working
    BY <2>1 DEF Early, Working, Done
  <2> QED
    BY <2>1, <2>2, WorkStays DEF Working
<1>6. ASSUME NEW r \in Requests, EndApprove(r) PROVE WorkInv'
  <2>1. Apply("AUTHORIZED") /\ UNCHANGED <<work, evidence>>
    BY <1>6 DEF EndApprove
  <2> QED
    BY <2>1, WorkMoves
<1>7. ASSUME NEW r \in Requests, EndUpload(r) PROVE WorkInv'
  BY <1>7, WorkUploaded DEF ApprovalInv
<1>8. ASSUME NEW r \in Requests,
             \/ BeginRecommend(r) \/ EndRecommend(r) \/ BeginApprove(r) \/ Drop(r)
             \/ \E p \in Providers : BeginSelect(r, p)
             \/ \E kind \in EvidenceKind, item \in Items, file \in Files : BeginUpload(r, kind, item, file)
      PROVE  UNCHANGED <<state, work, evidence>>
  BY <1>8 DEF BeginRecommend, EndRecommend, BeginApprove, Drop, BeginSelect, BeginUpload, job
<1>9. CASE IntentCreated \/ OfferExpires \/ \E p \in Providers, w \in Wallets : SignIn(p, w)
  <2>1. UNCHANGED <<state, work, evidence>>
    BY <1>9 DEF IntentCreated, OfferExpires, SignIn, job
  <2> QED
    BY <1>1, <2>1
<1>10. CASE UNCHANGED vars
  BY <1>1, <1>10 DEF vars
<1> QED
  BY <1>1, <1>2, <1>3, <1>4, <1>5, <1>6, <1>7, <1>8, <1>9, <1>10,
     WorkFunded, WorkStarts, WorkDelivered DEF Next

JobInv == ApprovalInv /\ WorkInv

\* Both hold initially, and every step keeps them.
LEMMA JobInvHolds == Spec => []JobInv
<1>1. Init => JobInv
  BY ApprovalInvInit, WorkInvInit DEF JobInv
<1>2. JobInv /\ [Next]_vars => JobInv'
  BY ApprovalInvNext, WorkInvNext DEF JobInv
<1> QED
  BY <1>1, <1>2, PTL DEF Spec

\* A job is delivered with a photo of every room on its checklist, which is made
\* from the quote when the escrow is funded and may differ from the signed scope;
\* and no upload that was checked before adds one to what its hash names
\* (evidence/router.py:47-57).
THEOREM DeliveryIsComplete == Spec => []DeliverableIsComplete
<1>1. JobInv => DeliverableIsComplete
  BY DEF JobInv, WorkInv, DeliverableIsComplete, Shown
<1> QED
  BY <1>1, JobInvHolds, PTL

\* However often and for whatever room a file is sent, it counts once
\* (fulfillment/service.py:36-46).
THEOREM PhotosCountOnce == Spec => []CoverageCountsPhotos
<1>1. JobInv => CoverageCountsPhotos
  BY DEF JobInv, WorkInv, CoverageCountsPhotos, Photos
<1> QED
  BY <1>1, JobInvHolds, PTL

\* Every variable of a job keeps its type.
THEOREM JobTypeOK == Spec => []TypeOK
<1>1. JobInv => TypeOK
  BY DEF JobInv, ApprovalInv, RowsOK, WorkInv, TypeOK
<1> QED
  BY <1>1, JobInvHolds, PTL

=============================================================================
