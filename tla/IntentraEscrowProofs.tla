------------------------ MODULE IntentraEscrowProofs ------------------------
(***************************************************************************)
(* What IntentraEscrow promises for every number of intents, accounts,     *)
(* tokens and amounts: the promises about one intent, the contract's two   *)
(* balances, which equal what the open intents are owed, and the           *)
(* refinement of EscrowPromise.                                            *)
(***************************************************************************)
EXTENDS IntentraEscrow, WellFoundedInduction, TLAPS

(***************************************************************************)
(* Type correctness.                                                       *)
(***************************************************************************)

\* The terms of an intent are those createIntent accepts, or none.
LEMMA TermsType ==
  ASSUME TypeOK, NEW i \in Intents
  PROVE  /\ terms[i] \in Terms \cup {NoTerms}
         /\ terms[i].totalAmount \in Nat
<1>1. terms[i] \in Terms \cup {NoTerms}
  BY DEF TypeOK
<1>2. ASSUME NEW r \in Terms PROVE r.totalAmount \in Nat
  <2>1. r.totalAmount \in Amounts
    BY DEF Terms
  <2>2. QED
    BY <2>1, BoundsAssumption
<1>3. NoTerms.totalAmount \in Nat
  BY DEF NoTerms
<1>4. QED
  BY <1>1, <1>2, <1>3

LEMMA TermsOfExisting ==
  ASSUME TypeOK, NEW i \in Intents, Exists(i)
  PROVE  /\ terms[i].customer \in Accounts /\ terms[i].provider \in Accounts
         /\ terms[i].token \in Tokens
         /\ terms[i].totalAmount \in Nat \ {0}
<1>1. terms[i] \in Terms
  BY TermsType DEF Exists, NoTerms
<1>2. terms[i].totalAmount \in Amounts
  BY <1>1 DEF Terms
<1>3. QED
  BY <1>1, <1>2, BoundsAssumption DEF Terms

\* A fresh timestamp has an age the type allows.
LEMMA FreshAges == 0 \in 0 .. ABANDONMENT_TIMEOUT /\ 0 \in 0 .. APPEAL_TIMELOCK
BY TimeoutsAssumption

\* The variables ExecuteSplit writes.
SplitTypeOK ==
  /\ state \in [Intents -> IntentState]
  /\ idle \in [Intents -> 0 .. ABANDONMENT_TIMEOUT]
  /\ pool \in [Tokens -> Nat]
  /\ ledger \in [Intents -> [deposited : Nat, toCustomer : Nat, toProvider : Nat]]
  /\ settledBy \in [Intents -> {"nothing", "signatures", "human", "abandonment"}]
  /\ spendable \in [Accounts -> [Tokens -> Nat]]

LEMMA ExecuteSplitType ==
  ASSUME TypeOK, NEW i \in Intents, NEW c \in Nat, NEW p \in Nat,
         NEW how \in {"signatures", "human", "abandonment"}, ExecuteSplit(i, c, p, how)
  PROVE  SplitTypeOK'
<1>1. state' \in [Intents -> IntentState] /\ idle' \in [Intents -> 0 .. ABANDONMENT_TIMEOUT]
  BY FreshAges DEF TypeOK, ExecuteSplit, MoveTo, IntentState
<1>2. pool' \in [Tokens -> Nat]
  <2> DEFINE t == terms[i].token
  <2>1. pool[t] >= c + p /\ pool' = [pool EXCEPT ![t] = pool[t] - (c + p)]
    BY DEF ExecuteSplit, PayOut
  <2>2. pool \in [Tokens -> Nat]
    BY DEF TypeOK
  <2>3. t \in Tokens => pool[t] - (c + p) \in Nat
    BY <2>1, <2>2
  <2>4. QED
    BY <2>1, <2>2, <2>3
<1>3. ledger' \in [Intents -> [deposited : Nat, toCustomer : Nat, toProvider : Nat]]
  <2> DEFINE entry == [deposited  |-> ledger[i].deposited,
                       toCustomer |-> ledger[i].toCustomer + c,
                       toProvider |-> ledger[i].toProvider + p]
  <2>1. ledger[i] \in [deposited : Nat, toCustomer : Nat, toProvider : Nat]
    BY DEF TypeOK
  <2>2. entry \in [deposited : Nat, toCustomer : Nat, toProvider : Nat]
    BY <2>1
  <2>3. ledger' = [ledger EXCEPT ![i] = entry]
    BY DEF ExecuteSplit, PayOut
  <2>4. QED
    BY <2>2, <2>3 DEF TypeOK
<1>4. /\ settledBy' \in [Intents -> {"nothing", "signatures", "human", "abandonment"}]
      /\ spendable' \in [Accounts -> [Tokens -> Nat]]
  BY DEF TypeOK, ExecuteSplit, PayOut
<1>5. QED
  BY <1>1, <1>2, <1>3, <1>4 DEF SplitTypeOK

\* A split taken from Splits(i) has two natural parts that add up to the total.
LEMMA SplitParts ==
  ASSUME TypeOK, NEW i \in Intents, NEW c \in Splits(i)
  PROVE  c \in Nat /\ terms[i].totalAmount - c \in Nat
BY TermsType DEF Splits

LEMMA InitTypeOK == Init => TypeOK
BY BoundsAssumption, FreshAges DEF Init, TypeOK, IntentState, NoTerms, NoProposal, NoMovement

LEMMA StepTypeOK == TypeOK /\ [Next]_vars => TypeOK'
<1> SUFFICES ASSUME TypeOK, [Next]_vars PROVE TypeOK'
  OBVIOUS
<1> USE DEF core, appeals, money
<1>1. ASSUME NEW a \in Accounts, NEW b \in Accounts, NEW t \in Tokens, NEW n \in Amounts,
             CreateIntent(a, b, t, n)
      PROVE  TypeOK'
  <2>1. nextIntentId' \in 0 .. MaxIntents
    BY <1>1, BoundsAssumption DEF TypeOK, CreateIntent
  <2>2. terms' \in [Intents -> Terms \cup {NoTerms}]
    BY <1>1 DEF TypeOK, CreateIntent, Terms
  <2>3. idle' \in [Intents -> 0 .. ABANDONMENT_TIMEOUT]
    <3>1. idle' = [idle EXCEPT ![nextIntentId] = 0]
      BY <1>1 DEF CreateIntent
    <3>2. QED
      BY <3>1, FreshAges DEF TypeOK
  <2>4. QED
    BY <1>1, <2>1, <2>2, <2>3 DEF TypeOK, CreateIntent
<1>2. ASSUME NEW a \in Accounts, NEW t \in Tokens, NEW n \in Amounts, Approve(a, t, n)
      PROVE  TypeOK'
  <2>1. spendable' \in [Accounts -> [Tokens -> Nat]]
    BY <1>2, BoundsAssumption DEF TypeOK, Approve
  <2>2. QED
    BY <1>2, <2>1 DEF TypeOK, Approve
<1>3. ASSUME NEW a \in Accounts, NEW f \in Fees, SetAppealFee(a, f)
      PROVE  TypeOK'
  BY <1>3 DEF TypeOK, SetAppealFee
<1>4. ASSUME NEW i \in Intents, FundIntent(i)
      PROVE  TypeOK'
  <2>1. state' \in [Intents -> IntentState] /\ idle' \in [Intents -> 0 .. ABANDONMENT_TIMEOUT]
    BY <1>4, FreshAges DEF TypeOK, FundIntent, MoveTo, IntentState, Holding
  <2> DEFINE customer == terms[i].customer
             t == terms[i].token
             amount == terms[i].totalAmount
  <2>2. customer \in Accounts /\ t \in Tokens /\ amount \in Nat
    BY <1>4, TermsOfExisting DEF FundIntent
  <2>3. spendable' \in [Accounts -> [Tokens -> Nat]]
    <3>1. spendable' = [spendable EXCEPT ![customer][t] = @ - amount]
      BY <1>4 DEF FundIntent
    <3>2. spendable[customer][t] - amount \in Nat
      BY <1>4, <2>2 DEF TypeOK, FundIntent
    <3>3. QED
      BY <2>2, <3>1, <3>2 DEF TypeOK
  <2>4. pool' \in [Tokens -> Nat]
    <3>1. pool' = [pool EXCEPT ![t] = @ + amount]
      BY <1>4 DEF FundIntent
    <3>2. QED
      BY <2>2, <3>1 DEF TypeOK
  <2>5. ledger' \in [Intents -> [deposited : Nat, toCustomer : Nat, toProvider : Nat]]
    <3>1. ledger' = [ledger EXCEPT ![i].deposited = @ + amount]
      BY <1>4 DEF FundIntent
    <3>2. ledger[i] \in [deposited : Nat, toCustomer : Nat, toProvider : Nat]
      BY DEF TypeOK
    <3>3. [ledger[i] EXCEPT !.deposited = @ + amount]
            \in [deposited : Nat, toCustomer : Nat, toProvider : Nat]
      BY <2>2, <3>2
    <3>4. QED
      BY <3>1, <3>3 DEF TypeOK
  <2>6. QED
    BY <1>4, <2>1, <2>3, <2>4, <2>5 DEF TypeOK, FundIntent
<1>5. ASSUME NEW i \in Intents, ExecuteAbandonment(i)
      PROVE  TypeOK'
  <2>1. proposal[i].customerAmount \in Nat /\ proposal[i].providerAmount \in Nat
        /\ terms[i].totalAmount \in Nat
    BY TermsType DEF TypeOK
  <2>2. \E c, p \in Nat : ExecuteSplit(i, c, p, "abandonment")
    BY <1>5, <2>1 DEF ExecuteAbandonment
  <2>3. SplitTypeOK'
    BY <2>2, ExecuteSplitType
  <2>4. QED
    BY <1>5, <2>3 DEF TypeOK, SplitTypeOK, ExecuteAbandonment
<1>6. ASSUME NEW i \in Intents, NEW a \in Accounts, RaiseDispute(i, a)
      PROVE  TypeOK'
  BY <1>6, FreshAges DEF TypeOK, RaiseDispute, MoveTo, IntentState, Holding
<1>7. ASSUME NEW i \in Intents, NEW a \in Accounts, WithdrawStuckStake(i, a)
      PROVE  TypeOK'
  BY <1>7 DEF TypeOK, WithdrawStuckStake, CanSend
<1>8. ASSUME NEW i \in Intents, NEW a \in Accounts, NEW f \in Fees, EscalateAppeal(i, a, f)
      PROVE  TypeOK'
  BY <1>8, FreshAges, BoundsAssumption DEF TypeOK, EscalateAppeal, MoveTo, IntentState, Holding
<1>9. ASSUME NEW i \in Intents, NEW a \in Accounts, NEW c \in Splits(i), SubmitAIProposal(i, a, c)
      PROVE  TypeOK'
  <2>1. proposal' \in [Intents -> [customerAmount : Nat, providerAmount : Nat,
                                   age : 0 .. APPEAL_TIMELOCK, proposedBy : Accounts \cup {NoOne}]]
    BY <1>9, SplitParts, FreshAges DEF TypeOK, SubmitAIProposal
  <2>2. QED
    BY <1>9, <2>1, FreshAges DEF TypeOK, SubmitAIProposal, MoveTo, IntentState, Holding
<1>10. ASSUME NEW i \in Intents, NEW a \in Accounts, NEW c \in Splits(i), NEW ok \in BOOLEAN,
              ResolveHumanAppeal(i, a, c, ok)
       PROVE  TypeOK'
  <2>1. ExecuteSplit(i, c, terms[i].totalAmount - c, "human")
    BY <1>10 DEF ResolveHumanAppeal
  <2>2. /\ ether' \in Nat
        /\ appealStakes' \in [Intents -> Nat]
        /\ stakeSentTo' \in [Intents -> Accounts \cup {NoOne}]
    <3>1. \/ ether' = ether - appealStakes[i] /\ ether >= appealStakes[i]
          \/ ether' = ether
      BY <1>10 DEF ResolveHumanAppeal, RefundStake, CanSend
    <3>2. \/ appealStakes' = [appealStakes EXCEPT ![i] = 0]
          \/ appealStakes' = appealStakes
      BY <1>10 DEF ResolveHumanAppeal, RefundStake
    <3>3. \/ stakeSentTo' = [stakeSentTo EXCEPT ![i] = appellants[i]]
          \/ stakeSentTo' = stakeSentTo
      BY <1>10 DEF ResolveHumanAppeal, RefundStake
    <3>4. ether \in Nat /\ appealStakes[i] \in Nat
      BY DEF TypeOK
    <3>5. ether' \in Nat
      BY <3>1, <3>4
    <3>6. appealStakes' \in [Intents -> Nat]
      BY <3>2 DEF TypeOK
    <3>7. stakeSentTo' \in [Intents -> Accounts \cup {NoOne}]
      BY <3>3 DEF TypeOK
    <3>8. QED
      BY <3>5, <3>6, <3>7
  <2>3. SplitTypeOK'
    BY <2>1, ExecuteSplitType, SplitParts
  <2>4. QED
    BY <1>10, <2>2, <2>3 DEF TypeOK, SplitTypeOK, ResolveHumanAppeal
<1>11. ASSUME NEW i \in Intents, NEW a \in Accounts, NEW b \in Accounts, NEW c \in Splits(i),
              ExecuteWithSignatures(i, c, a, b)
       PROVE  TypeOK'
  <2>1. ExecuteSplit(i, c, terms[i].totalAmount - c, "signatures")
    BY <1>11 DEF ExecuteWithSignatures
  <2>2. SplitTypeOK'
    BY <2>1, ExecuteSplitType, SplitParts
  <2>3. QED
    BY <1>11, <2>2 DEF TypeOK, SplitTypeOK, ExecuteWithSignatures
<1>12. CASE Tick
  <2>1. idle' \in [Intents -> 0 .. ABANDONMENT_TIMEOUT]
    BY <1>12, TimeoutsAssumption DEF TypeOK, Tick, Older
  <2>2. proposal' \in [Intents -> [customerAmount : Nat, providerAmount : Nat,
                                   age : 0 .. APPEAL_TIMELOCK, proposedBy : Accounts \cup {NoOne}]]
    <3>1. ASSUME NEW i \in Intents
          PROVE  proposal'[i] \in [customerAmount : Nat, providerAmount : Nat,
                                   age : 0 .. APPEAL_TIMELOCK, proposedBy : Accounts \cup {NoOne}]
      <4>1. proposal[i] \in [customerAmount : Nat, providerAmount : Nat,
                              age : 0 .. APPEAL_TIMELOCK, proposedBy : Accounts \cup {NoOne}]
        BY DEF TypeOK
      <4>2. Older(proposal[i].age, APPEAL_TIMELOCK) \in 0 .. APPEAL_TIMELOCK
        BY <4>1, TimeoutsAssumption DEF Older
      <4>3. \/ proposal'[i] = [proposal[i] EXCEPT !.age = Older(@, APPEAL_TIMELOCK)]
            \/ proposal'[i] = proposal[i]
        BY <1>12 DEF Tick
      <4>4. QED
        BY <4>1, <4>2, <4>3
    <3>2. QED
      BY <1>12, <3>1 DEF Tick
  <2>3. QED
    BY <1>12, <2>1, <2>2 DEF TypeOK, Tick
<1>13. CASE UNCHANGED vars
  BY <1>13 DEF TypeOK, vars
<1>14. QED
  BY <1>1, <1>2, <1>3, <1>4, <1>5, <1>6, <1>7, <1>8, <1>9, <1>10, <1>11, <1>12, <1>13 DEF Next

\* Every variable of the contract keeps its type.
THEOREM TypeCorrect == Spec => []TypeOK
BY InitTypeOK, StepTypeOK, PTL DEF Spec

(***************************************************************************)
(* The life of one intent.  None of the promised invariants is inductive   *)
(* by itself: what a settlement pays depends on whether there was a        *)
(* proposal or an appellant, which only the order of the earlier steps     *)
(* tells.  Life(i) records that order.                                     *)
(***************************************************************************)

Life(i) ==
  /\ Exists(i) <=> i < nextIntentId
  /\ ~ Exists(i) => state[i] = "AWAITING_FUNDS"
  /\ state[i] \in {"AWAITING_FUNDS", "FUNDED", "IN_DISPUTE"} => proposal[i].proposedBy = NoOne
  /\ state[i] \notin {"APPEALED", "RESOLVED"} => appellants[i] = NoOne
  /\ state[i] = "APPEALED" => appellants[i] # NoOne
  /\ appellants[i] # NoOne => appellants[i] \in Parties(i)
  /\ appellants[i] = NoOne => appealStakes[i] = 0 /\ stakeSentTo[i] = NoOne
  /\ state[i] = "RESOLVED" <=> settledBy[i] # "nothing"

\* SettledInFull, StakeSentOnce and SettlementRoute of one intent.
Paid(i) ==
  /\ ledger[i].deposited = IF state[i] = "AWAITING_FUNDS" THEN 0 ELSE terms[i].totalAmount
  /\ ledger[i].toCustomer + ledger[i].toProvider =
       IF state[i] = "RESOLVED" THEN terms[i].totalAmount ELSE 0

StakeOnce(i) == stakeSentTo[i] # NoOne => appealStakes[i] = 0

Route(i) ==
  /\ state[i] = "RESOLVED" /\ appellants[i] # NoOne => settledBy[i] = "human"
  /\ settledBy[i] = "human" => appellants[i] \in Parties(i)
  /\ settledBy[i] = "signatures" /\ proposal[i].proposedBy # NoOne => WindowClosed(i)
  /\ settledBy[i] = "abandonment" =>
       /\ proposal[i].proposedBy = NoOne
       /\ ledger[i].toCustomer = terms[i].totalAmount

Sound(i) == Life(i) /\ Paid(i) /\ StakeOnce(i) /\ Route(i)

IInv == TypeOK /\ \A i \in Intents : Sound(i)

\* Sound(j) speaks of the entries of intent j only.
LEMMA FrameSound ==
  ASSUME NEW j \in Intents, Sound(j),
         nextIntentId' = nextIntentId,
         terms'[j] = terms[j], state'[j] = state[j], proposal'[j] = proposal[j],
         appealStakes'[j] = appealStakes[j], appellants'[j] = appellants[j],
         ledger'[j] = ledger[j], settledBy'[j] = settledBy[j], stakeSentTo'[j] = stakeSentTo[j]
  PROVE  Sound(j)'
BY DEF Sound, Life, Paid, StakeOnce, Route, Exists, Parties, WindowClosed

\* Settling an intent: given how it may be settled, what it pays is its total.
LEMMA ExecuteSplitSound ==
  ASSUME TypeOK, NEW i \in Intents, Sound(i), Exists(i),
         NEW c \in Nat, NEW p \in Nat, c + p = terms[i].totalAmount,
         NEW how \in {"signatures", "human", "abandonment"},
         state[i] \in Holding, ExecuteSplit(i, c, p, how)
  PROVE  /\ state'[i] = "RESOLVED" /\ settledBy'[i] = how
         /\ ledger'[i].deposited = terms[i].totalAmount
         /\ ledger'[i].toCustomer = c /\ ledger'[i].toProvider = p
<1>1. state'[i] = "RESOLVED" /\ settledBy'[i] = how
  BY DEF TypeOK, ExecuteSplit, MoveTo
<1>2. ledger'[i] = [deposited  |-> ledger[i].deposited,
                    toCustomer |-> ledger[i].toCustomer + c,
                    toProvider |-> ledger[i].toProvider + p]
  BY DEF TypeOK, ExecuteSplit, PayOut
<1>3. ledger[i].deposited = terms[i].totalAmount
  BY DEF Sound, Paid, Holding
<1>4. ledger[i].toCustomer = 0 /\ ledger[i].toProvider = 0
  <2>1. ledger[i].toCustomer \in Nat /\ ledger[i].toProvider \in Nat
    BY DEF TypeOK
  <2>2. ledger[i].toCustomer + ledger[i].toProvider = 0
    BY DEF Sound, Paid, Holding
  <2>3. QED
    BY <2>1, <2>2
<1>5. QED
  BY <1>1, <1>2, <1>3, <1>4

\* Settling an intent leaves the entries of the others alone.
LEMMA ExecuteSplitFrame ==
  ASSUME TypeOK, NEW i \in Intents, NEW j \in Intents \ {i}, NEW c, NEW p, NEW how,
         ExecuteSplit(i, c, p, how)
  PROVE  state'[j] = state[j] /\ ledger'[j] = ledger[j] /\ settledBy'[j] = settledBy[j]
BY DEF TypeOK, ExecuteSplit, MoveTo, PayOut

LEMMA InitSound == Init => \A i \in Intents : Sound(i)
BY DEF Init, Sound, Life, Paid, StakeOnce, Route, Exists, NoTerms, NoProposal, NoMovement, Intents

\* Every step keeps the life of every intent in order.
LEMMA StepSound == IInv /\ [Next]_vars => \A j \in Intents : Sound(j)'
<1> SUFFICES ASSUME IInv, [Next]_vars, NEW j \in Intents PROVE Sound(j)'
  OBVIOUS
<1> USE DEF core, appeals, money
<1>0. TypeOK /\ Sound(j)
  BY DEF IInv
<1>1. ASSUME NEW a \in Accounts, NEW b \in Accounts, NEW t \in Tokens, NEW n \in Amounts,
             CreateIntent(a, b, t, n)
      PROVE  Sound(j)'
  <2>1. nextIntentId \in Nat /\ nextIntentId \in Intents /\ nextIntentId' = nextIntentId + 1
    BY <1>0, <1>1, BoundsAssumption DEF TypeOK, CreateIntent, Intents
  <2>2. /\ state'[j] = state[j] /\ proposal'[j] = proposal[j]
        /\ appealStakes'[j] = appealStakes[j] /\ appellants'[j] = appellants[j]
        /\ ledger'[j] = ledger[j] /\ settledBy'[j] = settledBy[j]
        /\ stakeSentTo'[j] = stakeSentTo[j]
    BY <1>1 DEF CreateIntent
  <2>3. CASE j = nextIntentId
    <3>1. terms'[j] = [customer |-> a, provider |-> b, token |-> t, totalAmount |-> n]
      BY <1>0, <1>1, <2>1, <2>3 DEF TypeOK, CreateIntent
    <3>2. Exists(j)' /\ j < nextIntentId'
      BY <2>1, <2>3, <3>1, PartiesAssumption DEF Exists
    <3>3. state[j] = "AWAITING_FUNDS" /\ appellants[j] = NoOne /\ settledBy[j] = "nothing"
      BY <1>0, <2>1, <2>3 DEF Sound, Life
    <3>4. QED
      BY <1>0, <2>2, <3>2, <3>3 DEF Sound, Life, Paid, StakeOnce, Route
  <2>4. CASE j # nextIntentId
    <3>1. terms'[j] = terms[j]
      BY <1>0, <1>1, <2>4 DEF TypeOK, CreateIntent
    <3>2. j < nextIntentId' <=> j < nextIntentId
      BY <2>1, <2>4 DEF Intents
    <3>3. QED
      BY <1>0, <2>2, <3>1, <3>2
         DEF Sound, Life, Paid, StakeOnce, Route, Exists, Parties, WindowClosed
  <2>5. QED
    BY <2>3, <2>4
<1>2. ASSUME NEW a \in Accounts, NEW t \in Tokens, NEW n \in Amounts, Approve(a, t, n)
      PROVE  Sound(j)'
  BY <1>0, <1>2, FrameSound DEF Approve
<1>3. ASSUME NEW a \in Accounts, NEW f \in Fees, SetAppealFee(a, f)
      PROVE  Sound(j)'
  BY <1>0, <1>3, FrameSound DEF SetAppealFee
<1>4. ASSUME NEW i \in Intents, FundIntent(i)
      PROVE  Sound(j)'
  <2>1. CASE j # i
    BY <1>0, <1>4, <2>1, FrameSound DEF TypeOK, FundIntent, MoveTo
  <2>2. CASE j = i
    <3>1. state'[i] = "FUNDED" /\ state[i] = "AWAITING_FUNDS" /\ Exists(i)
      BY <1>0, <1>4 DEF TypeOK, FundIntent, MoveTo
    <3>2. /\ ledger'[i].deposited = ledger[i].deposited + terms[i].totalAmount
          /\ ledger'[i].toCustomer = ledger[i].toCustomer
          /\ ledger'[i].toProvider = ledger[i].toProvider
      BY <1>0, <1>4 DEF TypeOK, FundIntent
    <3>3. terms[i].totalAmount \in Nat
      BY <1>0, TermsType
    <3>4. Paid(i)'
      BY <1>0, <1>4, <2>2, <3>1, <3>2, <3>3 DEF Sound, Paid, FundIntent
    <3>5. QED
      BY <1>0, <1>4, <2>2, <3>1, <3>4
         DEF Sound, Life, StakeOnce, Route, FundIntent, Exists, Parties, WindowClosed
  <2>3. QED
    BY <2>1, <2>2
<1>5. ASSUME NEW i \in Intents, ExecuteAbandonment(i)
      PROVE  Sound(j)'
  <2>1. /\ Exists(i) /\ Sound(i) /\ state[i] \in {"FUNDED", "IN_DISPUTE"}
        /\ terms[i].totalAmount \in Nat
    BY <1>0, <1>5, TermsType DEF IInv, ExecuteAbandonment
  <2>2. proposal[i].proposedBy = NoOne /\ appellants[i] = NoOne
    BY <2>1 DEF Sound, Life
  <2>3. ExecuteSplit(i, terms[i].totalAmount, 0, "abandonment")
    BY <1>5, <2>2 DEF ExecuteAbandonment
  <2>4. CASE j # i
    BY <1>0, <1>5, <2>3, <2>4, FrameSound, ExecuteSplitFrame DEF ExecuteAbandonment
  <2>5. CASE j = i
    <3>1. /\ state'[i] = "RESOLVED" /\ settledBy'[i] = "abandonment"
          /\ ledger'[i].deposited = terms[i].totalAmount
          /\ ledger'[i].toCustomer = terms[i].totalAmount /\ ledger'[i].toProvider = 0
      BY <1>0, <2>1, <2>3, ExecuteSplitSound DEF Holding
    <3>2. QED
      BY <1>0, <1>5, <2>1, <2>2, <2>5, <3>1
         DEF Sound, Life, Paid, StakeOnce, Route, ExecuteAbandonment, Exists, Parties, WindowClosed
  <2>6. QED
    BY <2>4, <2>5
<1>6. ASSUME NEW i \in Intents, NEW a \in Accounts, RaiseDispute(i, a)
      PROVE  Sound(j)'
  <2>1. CASE j # i
    BY <1>0, <1>6, <2>1, FrameSound DEF TypeOK, RaiseDispute, MoveTo
  <2>2. CASE j = i
    <3>1. state'[i] = "IN_DISPUTE" /\ state[i] = "FUNDED" /\ Exists(i)
      BY <1>0, <1>6 DEF TypeOK, RaiseDispute, MoveTo
    <3>2. QED
      BY <1>0, <1>6, <2>2, <3>1
         DEF Sound, Life, Paid, StakeOnce, Route, RaiseDispute, Exists, Parties, WindowClosed
  <2>3. QED
    BY <2>1, <2>2
<1>7. ASSUME NEW i \in Intents, NEW a \in Accounts, WithdrawStuckStake(i, a)
      PROVE  Sound(j)'
  <2>1. CASE j # i
    BY <1>0, <1>7, <2>1, FrameSound DEF TypeOK, WithdrawStuckStake
  <2>2. CASE j = i
    <3>1. appealStakes[i] # 0 /\ appealStakes'[i] = 0
      BY <1>0, <1>7 DEF TypeOK, WithdrawStuckStake
    <3>2. QED
      BY <1>0, <1>7, <2>2, <3>1
         DEF Sound, Life, Paid, StakeOnce, Route, WithdrawStuckStake, Exists, Parties, WindowClosed
  <2>3. QED
    BY <2>1, <2>2
<1>8. ASSUME NEW i \in Intents, NEW a \in Accounts, NEW f \in Fees, EscalateAppeal(i, a, f)
      PROVE  Sound(j)'
  <2>1. CASE j # i
    BY <1>0, <1>8, <2>1, FrameSound DEF TypeOK, EscalateAppeal, MoveTo
  <2>2. CASE j = i
    <3>1. /\ state'[i] = "APPEALED" /\ state[i] = "TIMELOCKED" /\ Exists(i)
          /\ appellants'[i] = a /\ a \in Parties(i) /\ a # NoOne
      BY <1>0, <1>8, PartiesAssumption DEF TypeOK, EscalateAppeal, MoveTo
    <3>2. QED
      BY <1>0, <1>8, <2>2, <3>1
         DEF Sound, Life, Paid, StakeOnce, Route, EscalateAppeal, Exists, Parties, WindowClosed
  <2>3. QED
    BY <2>1, <2>2
<1>9. ASSUME NEW i \in Intents, NEW a \in Accounts, NEW c \in Splits(i), SubmitAIProposal(i, a, c)
      PROVE  Sound(j)'
  <2>1. CASE j # i
    BY <1>0, <1>9, <2>1, FrameSound DEF TypeOK, SubmitAIProposal, MoveTo
  <2>2. CASE j = i
    <3>1. state'[i] = "TIMELOCKED" /\ state[i] = "IN_DISPUTE" /\ Exists(i)
      BY <1>0, <1>9 DEF TypeOK, SubmitAIProposal, MoveTo
    <3>2. QED
      BY <1>0, <1>9, <2>2, <3>1
         DEF Sound, Life, Paid, StakeOnce, Route, SubmitAIProposal, Exists, Parties
  <2>3. QED
    BY <2>1, <2>2
<1>10. ASSUME NEW i \in Intents, NEW a \in Accounts, NEW c \in Splits(i), NEW ok \in BOOLEAN,
              ResolveHumanAppeal(i, a, c, ok)
       PROVE  Sound(j)'
  <2> DEFINE p == terms[i].totalAmount - c
  <2>1. c \in Nat /\ p \in Nat /\ c + p = terms[i].totalAmount
    BY <1>0, SplitParts, TermsType
  <2>2. Exists(i) /\ state[i] = "APPEALED" /\ Sound(i) /\ ExecuteSplit(i, c, p, "human")
    BY <1>10 DEF IInv, ResolveHumanAppeal
  <2>3. CASE j # i
    <3>1. appealStakes'[j] = appealStakes[j] /\ stakeSentTo'[j] = stakeSentTo[j]
      BY <1>0, <1>10, <2>3 DEF TypeOK, ResolveHumanAppeal, RefundStake
    <3>2. state'[j] = state[j] /\ ledger'[j] = ledger[j] /\ settledBy'[j] = settledBy[j]
      BY <1>0, <2>2, <2>3, ExecuteSplitFrame
    <3>3. QED
      BY <1>0, <1>10, <3>1, <3>2, FrameSound DEF ResolveHumanAppeal
  <2>4. CASE j = i
    <3>1. /\ state'[i] = "RESOLVED" /\ settledBy'[i] = "human"
          /\ ledger'[i].deposited = terms[i].totalAmount
          /\ ledger'[i].toCustomer = c /\ ledger'[i].toProvider = p
      BY <1>0, <2>1, <2>2, ExecuteSplitSound DEF Holding
    <3>2. appellants[i] # NoOne /\ appellants[i] \in Parties(i)
      BY <2>2 DEF Sound, Life
    <3>3. StakeOnce(i)'
      BY <1>0, <1>10, <2>2 DEF TypeOK, Sound, StakeOnce, ResolveHumanAppeal, RefundStake
    <3>4. QED
      BY <1>0, <1>10, <2>1, <2>2, <2>4, <3>1, <3>2, <3>3
         DEF Sound, Life, Paid, Route, ResolveHumanAppeal, Exists, Parties, WindowClosed
  <2>5. QED
    BY <2>3, <2>4
<1>11. ASSUME NEW i \in Intents, NEW a \in Accounts, NEW b \in Accounts, NEW c \in Splits(i),
              ExecuteWithSignatures(i, c, a, b)
       PROVE  Sound(j)'
  <2> DEFINE p == terms[i].totalAmount - c
  <2>1. c \in Nat /\ p \in Nat /\ c + p = terms[i].totalAmount
    BY <1>0, SplitParts, TermsType
  <2>2. /\ Exists(i) /\ Sound(i) /\ ExecuteSplit(i, c, p, "signatures")
        /\ state[i] \in {"FUNDED", "TIMELOCKED"}
        /\ state[i] = "TIMELOCKED" => WindowClosed(i)
    BY <1>11 DEF IInv, ExecuteWithSignatures
  <2>3. CASE j # i
    BY <1>0, <1>11, <2>2, <2>3, FrameSound, ExecuteSplitFrame DEF ExecuteWithSignatures
  <2>4. CASE j = i
    <3>1. /\ state'[i] = "RESOLVED" /\ settledBy'[i] = "signatures"
          /\ ledger'[i].deposited = terms[i].totalAmount
          /\ ledger'[i].toCustomer = c /\ ledger'[i].toProvider = p
      BY <1>0, <2>1, <2>2, ExecuteSplitSound DEF Holding
    <3>2. appellants[i] = NoOne /\ (proposal[i].proposedBy # NoOne => WindowClosed(i))
      BY <2>2 DEF Sound, Life
    <3>3. QED
      BY <1>0, <1>11, <2>1, <2>2, <2>4, <3>1, <3>2
         DEF Sound, Life, Paid, StakeOnce, Route, ExecuteWithSignatures, Exists, Parties, WindowClosed
  <2>5. QED
    BY <2>3, <2>4
<1>12. CASE Tick
  <2>1. /\ proposal'[j].proposedBy = proposal[j].proposedBy
        /\ state[j] # "TIMELOCKED" => proposal'[j] = proposal[j]
    BY <1>0, <1>12 DEF TypeOK, Tick
  <2>2. settledBy[j] = "signatures" => state[j] # "TIMELOCKED"
    BY <1>0 DEF Sound, Life
  <2>3. QED
    BY <1>0, <1>12, <2>1, <2>2
       DEF Sound, Life, Paid, StakeOnce, Route, Tick, Exists, Parties, WindowClosed
<1>13. CASE UNCHANGED vars
  BY <1>0, <1>13, FrameSound DEF vars
<1>14. QED
  BY <1>1, <1>2, <1>3, <1>4, <1>5, <1>6, <1>7, <1>8, <1>9, <1>10, <1>11, <1>12, <1>13 DEF Next

\* The inductive invariant: the type and the life of every intent.
THEOREM Invariance == Spec => []IInv
<1>1. Init => IInv
  BY InitTypeOK, InitSound DEF IInv
<1>2. IInv /\ [Next]_vars => IInv'
  BY StepTypeOK, StepSound DEF IInv
<1>3. QED
  BY <1>1, <1>2, PTL DEF Spec

\* Every intent takes in its total once and pays it out once.
THEOREM SettlementCorrect == Spec => []SettledInFull
<1>1. IInv => SettledInFull
  BY DEF IInv, Sound, Paid, SettledInFull
<1>2. QED
  BY <1>1, Invariance, PTL

\* No stake is sent twice.
THEOREM StakeCorrect == Spec => []StakeSentOnce
<1>1. IInv => StakeSentOnce
  BY DEF IInv, Sound, StakeOnce, StakeSentOnce
<1>2. QED
  BY <1>1, Invariance, PTL

\* The route an intent was settled by agrees with its proposal and its appeal.
THEOREM RouteCorrect == Spec => []SettlementRoute
<1>1. IInv => SettlementRoute
  BY DEF IInv, Sound, Route, SettlementRoute
<1>2. QED
  BY <1>1, Invariance, PTL

(***************************************************************************)
(* Totals: how a total changes with one of its terms.                      *)
(***************************************************************************)

\* Every non-empty set of naturals has a least element.  It replaces induction
\* here: the library's induction theorems take a predicate as parameter.
LEMMA LeastElement ==
  ASSUME NEW S, S \subseteq Nat, S # {}
  PROVE  \E n \in S : \A m \in S : n <= m
<1> DEFINE Less == {p \in Nat \X Nat : p[1] < p[2]}
<1>1. IsWellFoundedOn(Less, Nat)
  BY NatLessThanWellFounded DEF OpToRel
<1>2. PICK n \in S : \A m \in S : ~ (<<m, n>> \in Less)
  <2> HIDE DEF Less
  <2> QED BY <1>1, WFMin
<1>3. ASSUME NEW m \in S PROVE n <= m
  <2>1. <<m, n>> \in Nat \X Nat
    OBVIOUS
  <2>2. ~ (m < n)
    BY <1>2, <2>1
  <2>3. QED
    BY <2>2
<1>4. QED
  BY <1>3

\* A running total of naturals never decreases.
LEMMA RunningTotalMonotone ==
  ASSUME NEW n \in Nat, NEW f \in [0 .. (n - 1) -> Nat],
         NEW acc \in [0 .. n -> Nat], IsRunningTotal(acc, f, n),
         NEW i \in 0 .. n, NEW j \in i .. n
  PROVE  acc[i] <= acc[j]
<1> DEFINE Bad == {k \in i .. n : acc[k] < acc[i]}
<1>1. acc[i] \in Nat /\ acc[j] \in Nat
  OBVIOUS
<1> SUFFICES ASSUME acc[j] < acc[i] PROVE FALSE
  BY <1>1
<1>2. PICK k \in Bad : \A m \in Bad : k <= m
  <2>1. Bad \subseteq Nat
    OBVIOUS
  <2>2. j \in Bad
    OBVIOUS
  <2>3. QED
    BY <2>1, <2>2, LeastElement
<1>3. k \in i .. n /\ acc[k] < acc[i] /\ k # i
  OBVIOUS
<1>4. k - 1 \in i .. n /\ k - 1 \in 0 .. (n - 1)
  BY <1>3
<1>5. acc[k - 1] >= acc[i]
  BY <1>2, <1>4
<1>6. acc[k] = acc[k - 1] + f[k - 1]
  BY <1>4 DEF IsRunningTotal
<1>7. acc[k] >= acc[k - 1]
  BY <1>3, <1>4, <1>6
<1>8. acc[k] \in Nat /\ acc[k - 1] \in Nat /\ acc[i] \in Nat
  BY <1>3, <1>4
<1>9. QED
  BY <1>3, <1>5, <1>7, <1>8

\* Adding to one term adds to the total.
LEMMA TotalGrows ==
  ASSUME NEW n \in Nat, NEW f \in [0 .. (n - 1) -> Nat], NEW sum \in Nat,
         IsTotal(sum, f, n), NEW k \in 0 .. (n - 1), NEW d \in Nat
  PROVE  IsTotal(sum + d, [f EXCEPT ![k] = f[k] + d], n)
<1>1. PICK acc \in [0 .. n -> 0 .. sum] : IsRunningTotal(acc, f, n) /\ acc[n] = sum
  BY DEF IsTotal
<1> DEFINE grown == [i \in 0 .. n |-> IF i > k THEN acc[i] + d ELSE acc[i]]
<1>2. grown \in [0 .. n -> 0 .. (sum + d)]
  <2>1. ASSUME NEW i \in 0 .. n PROVE grown[i] \in 0 .. (sum + d)
    <3>1. acc[i] \in 0 .. sum
      BY <1>1
    <3>2. QED
      BY <3>1
  <2>2. QED
    BY <2>1
<1>3. IsRunningTotal(grown, [f EXCEPT ![k] = f[k] + d], n)
  <2>1. grown[0] = 0
    BY <1>1 DEF IsRunningTotal
  <2>2. ASSUME NEW i \in 0 .. (n - 1)
        PROVE  grown[i + 1] = grown[i] + [f EXCEPT ![k] = f[k] + d][i]
    <3>1. acc[i + 1] = acc[i] + f[i]
      BY <1>1 DEF IsRunningTotal
    <3>2. i + 1 \in 0 .. n /\ i \in 0 .. n /\ f[i] \in Nat /\ f[k] \in Nat
      OBVIOUS
    <3>3. acc[i] \in Nat /\ acc[i + 1] \in Nat
      BY <1>1, <3>2
    <3>4. CASE i = k
      BY <3>1, <3>2, <3>3, <3>4
    <3>5. CASE i # k
      BY <3>1, <3>2, <3>3, <3>5
    <3>6. QED
      BY <3>4, <3>5
  <2>3. QED
    BY <2>1, <2>2 DEF IsRunningTotal
<1>4. grown[n] = sum + d
  BY <1>1
<1>5. QED
  BY <1>2, <1>3, <1>4 DEF IsTotal

\* Taking from one term takes from the total, which covers it.
LEMMA TotalShrinks ==
  ASSUME NEW n \in Nat, NEW f \in [0 .. (n - 1) -> Nat], NEW sum \in Nat,
         IsTotal(sum, f, n), NEW k \in 0 .. (n - 1), NEW d \in 0 .. f[k]
  PROVE  /\ d <= sum
         /\ IsTotal(sum - d, [f EXCEPT ![k] = f[k] - d], n)
<1>1. PICK acc \in [0 .. n -> 0 .. sum] : IsRunningTotal(acc, f, n) /\ acc[n] = sum
  BY DEF IsTotal
<1>2. acc \in [0 .. n -> Nat]
  BY <1>1
<1>3. ASSUME NEW i \in 0 .. n, NEW j \in i .. n PROVE acc[i] <= acc[j]
  BY <1>1, <1>2, <1>3, RunningTotalMonotone
<1>4. acc[k + 1] = acc[k] + f[k]
  BY <1>1 DEF IsRunningTotal
<1>5. f[k] \in Nat /\ d \in Nat /\ d <= f[k] /\ k \in 0 .. n /\ k + 1 \in 0 .. n
  OBVIOUS
<1>6. acc[k] \in Nat /\ acc[k + 1] \in Nat
  BY <1>2, <1>5
<1>7. acc[k + 1] >= d
  BY <1>4, <1>5, <1>6
<1>8. ASSUME NEW i \in 0 .. n, i > k PROVE acc[i] >= d /\ acc[i] \in Nat
  <2>1. acc[k + 1] <= acc[i]
    BY <1>3, <1>5, <1>8
  <2>2. acc[i] \in Nat
    BY <1>2
  <2>3. QED
    BY <1>5, <1>6, <1>7, <2>1, <2>2
<1>9. d <= sum
  BY <1>1, <1>8
<1> DEFINE shrunk == [i \in 0 .. n |-> IF i > k THEN acc[i] - d ELSE acc[i]]
<1>10. shrunk \in [0 .. n -> 0 .. (sum - d)]
  <2>1. ASSUME NEW i \in 0 .. n PROVE shrunk[i] \in 0 .. (sum - d)
    <3>1. acc[i] \in Nat /\ acc[i] <= sum
      BY <1>1
    <3>2. CASE i > k
      BY <1>5, <1>8, <1>9, <3>1, <3>2
    <3>3. CASE ~ (i > k)
      <4>1. acc[i] <= acc[k]
        BY <1>3, <1>5, <3>3
      <4>2. acc[k + 1] <= sum
        BY <1>1, <1>5
      <4>3. acc[i] <= sum - d
        BY <1>4, <1>5, <1>6, <3>1, <4>1, <4>2
      <4>4. QED
        BY <1>5, <3>1, <3>3, <4>3
    <3>4. QED
      BY <3>2, <3>3
  <2>2. QED
    BY <2>1
<1>11. IsRunningTotal(shrunk, [f EXCEPT ![k] = f[k] - d], n)
  <2>1. shrunk[0] = 0
    BY <1>1 DEF IsRunningTotal
  <2>2. ASSUME NEW i \in 0 .. (n - 1)
        PROVE  shrunk[i + 1] = shrunk[i] + [f EXCEPT ![k] = f[k] - d][i]
    <3>1. acc[i + 1] = acc[i] + f[i]
      BY <1>1 DEF IsRunningTotal
    <3>2. i + 1 \in 0 .. n /\ i \in 0 .. n /\ f[i] \in Nat
      OBVIOUS
    <3>3. acc[i] \in Nat /\ acc[i + 1] \in Nat
      BY <1>2, <3>2
    <3>4. CASE i = k
      BY <1>5, <3>1, <3>2, <3>3, <3>4
    <3>5. CASE i # k
      BY <1>5, <3>1, <3>2, <3>3, <3>5
    <3>6. QED
      BY <3>4, <3>5
  <2>3. QED
    BY <2>1, <2>2 DEF IsRunningTotal
<1>12. shrunk[n] = sum - d
  BY <1>1
<1>13. QED
  BY <1>9, <1>10, <1>11, <1>12 DEF IsTotal

\* The total of zeros is zero.
LEMMA TotalOfZeros ==
  ASSUME NEW n \in Nat
  PROVE  IsTotal(0, [i \in 0 .. (n - 1) |-> 0], n)
<1> DEFINE zeros == [i \in 0 .. n |-> 0]
<1>1. zeros \in [0 .. n -> 0 .. 0] /\ zeros[n] = 0
  OBVIOUS
<1>2. IsRunningTotal(zeros, [i \in 0 .. (n - 1) |-> 0], n)
  BY DEF IsRunningTotal
<1>3. QED
  BY <1>1, <1>2 DEF IsTotal

(***************************************************************************)
(* The balances.                                                           *)
(***************************************************************************)

\* What the intents are owed out of the pooled balance of token t.
Held(t) == [i \in Intents |-> HeldIn(t, i)]
Covered(t) == IsTotal(pool[t], Held(t), MaxIntents)

MoneyInv == IInv /\ Solvent /\ StakesBacked

LEMMA HeldType ==
  ASSUME TypeOK, NEW t \in Tokens
  PROVE  Held(t) \in [Intents -> Nat]
BY TermsType DEF Held, HeldIn

\* A step that moves no token and no intent in or out of Holding.
LEMMA CoveredFrame ==
  ASSUME NEW t \in Tokens, Covered(t), pool'[t] = pool[t],
         \A i \in Intents : HeldIn(t, i)' = HeldIn(t, i)
  PROVE  Covered(t)'
<1>1. Held(t)' = Held(t)
  BY DEF Held
<1>2. QED
  BY <1>1 DEF Covered

\* Only an intent's state and terms decide what it is owed.
LEMMA HeldFrame ==
  ASSUME NEW t \in Tokens, NEW i \in Intents, terms'[i] = terms[i],
         state'[i] \in Holding <=> state[i] \in Holding
  PROVE  HeldIn(t, i)' = HeldIn(t, i)
BY DEF HeldIn

\* Settling an intent pays out exactly what it was owed.
LEMMA ExecuteSplitCovered ==
  ASSUME TypeOK, NEW t \in Tokens, Covered(t), NEW i \in Intents, Exists(i), state[i] \in Holding,
         NEW c \in Nat, NEW p \in Nat, c + p = terms[i].totalAmount, NEW how,
         ExecuteSplit(i, c, p, how), terms' = terms
  PROVE  Covered(t)'
<1> DEFINE owed == terms[i].totalAmount
<1>1. ASSUME NEW j \in Intents \ {i} PROVE HeldIn(t, j)' = HeldIn(t, j)
  BY ExecuteSplitFrame, HeldFrame
<1>2. HeldIn(t, i)' = 0
  BY DEF TypeOK, ExecuteSplit, MoveTo, HeldIn, Holding
<1>3. CASE t = terms[i].token
  <2>1. HeldIn(t, i) = owed /\ owed \in Nat
    BY <1>3, TermsType DEF HeldIn
  <2>2. pool'[t] = pool[t] - owed
    BY <1>3 DEF TypeOK, ExecuteSplit, PayOut
  <2>3. /\ Held(t) \in [0 .. (MaxIntents - 1) -> Nat]
        /\ i \in 0 .. (MaxIntents - 1) /\ MaxIntents \in Nat
    BY HeldType, BoundsAssumption DEF Intents
  <2>4. Held(t)[i] = owed /\ owed \in 0 .. Held(t)[i]
    BY <2>1 DEF Held
  <2>5. pool[t] \in Nat
    BY DEF TypeOK
  <2>6. IsTotal(pool[t] - owed, [Held(t) EXCEPT ![i] = Held(t)[i] - owed], MaxIntents)
    BY <2>3, <2>4, <2>5, TotalShrinks DEF Covered
  <2>7. Held(t)' = [Held(t) EXCEPT ![i] = Held(t)[i] - owed]
    <3>1. Held(t)' = [Held(t) EXCEPT ![i] = 0]
      BY <1>1, <1>2 DEF Held
    <3>2. Held(t)[i] - owed = 0
      BY <2>1, <2>4
    <3>3. QED
      BY <3>1, <3>2
  <2>8. QED
    BY <2>2, <2>6, <2>7 DEF Covered
<1>4. CASE t # terms[i].token
  <2>1. HeldIn(t, i) = 0
    BY <1>4 DEF HeldIn
  <2>2. pool'[t] = pool[t]
    BY <1>4 DEF TypeOK, ExecuteSplit, PayOut
  <2>3. QED
    BY <1>1, <1>2, <2>1, <2>2, CoveredFrame
<1>5. QED
  BY <1>3, <1>4

LEMMA StepSolvent == MoneyInv /\ [Next]_vars => Solvent'
<1> SUFFICES ASSUME MoneyInv, [Next]_vars, NEW t \in Tokens PROVE Covered(t)'
  BY DEF Solvent, Covered, Held
<1> USE DEF core, appeals, money
<1>0. TypeOK /\ Covered(t) /\ \A i \in Intents : Sound(i)
  BY DEF MoneyInv, IInv, Solvent, Covered, Held
<1>1. ASSUME NEW a \in Accounts, NEW b \in Accounts, NEW u \in Tokens, NEW n \in Amounts,
             CreateIntent(a, b, u, n)
      PROVE  Covered(t)'
  <2>1. nextIntentId \in Intents
    BY <1>0, <1>1, BoundsAssumption DEF TypeOK, CreateIntent, Intents
  <2>2. state[nextIntentId] = "AWAITING_FUNDS"
    <3>1. ~ (nextIntentId < nextIntentId)
      BY <1>0 DEF TypeOK
    <3>2. QED
      BY <1>0, <2>1, <3>1 DEF Sound, Life
  <2>3. ASSUME NEW i \in Intents PROVE HeldIn(t, i)' = HeldIn(t, i)
    <3>1. CASE i = nextIntentId
      BY <1>1, <2>2, <3>1 DEF CreateIntent, HeldIn, Holding
    <3>2. CASE i # nextIntentId
      BY <1>0, <1>1, <3>2 DEF TypeOK, CreateIntent, HeldIn
    <3>3. QED
      BY <3>1, <3>2
  <2>4. QED
    BY <1>0, <1>1, <2>3, CoveredFrame DEF CreateIntent
<1>2. CASE UNCHANGED <<terms, state, pool>>
  BY <1>0, <1>2, CoveredFrame, HeldFrame
<1>3. ASSUME NEW i \in Intents, FundIntent(i)
      PROVE  Covered(t)'
  <2> DEFINE amount == terms[i].totalAmount
  <2>1. ASSUME NEW j \in Intents \ {i} PROVE HeldIn(t, j)' = HeldIn(t, j)
    BY <1>0, <1>3 DEF TypeOK, FundIntent, MoveTo, HeldIn
  <2>2. HeldIn(t, i) = 0 /\ amount \in Nat
    BY <1>0, <1>3, TermsType DEF FundIntent, HeldIn, Holding
  <2>3. state'[i] = "FUNDED" /\ terms' = terms
    BY <1>0, <1>3 DEF TypeOK, FundIntent, MoveTo
  <2>4. CASE t = terms[i].token
    <3>1. HeldIn(t, i)' = amount
      BY <2>3, <2>4 DEF HeldIn, Holding
    <3>2. pool'[t] = pool[t] + amount
      BY <1>0, <1>3, <2>4 DEF TypeOK, FundIntent
    <3>3. /\ Held(t) \in [0 .. (MaxIntents - 1) -> Nat]
          /\ i \in 0 .. (MaxIntents - 1) /\ MaxIntents \in Nat
      BY <1>0, HeldType, BoundsAssumption DEF Intents
    <3>4. pool[t] \in Nat
      BY <1>0 DEF TypeOK
    <3>5. IsTotal(pool[t] + amount, [Held(t) EXCEPT ![i] = Held(t)[i] + amount], MaxIntents)
      BY <1>0, <2>2, <3>3, <3>4, TotalGrows DEF Covered
    <3>6. Held(t)' = [Held(t) EXCEPT ![i] = Held(t)[i] + amount]
      <4>1. Held(t)' = [Held(t) EXCEPT ![i] = amount]
        BY <2>1, <3>1 DEF Held
      <4>2. Held(t)[i] + amount = amount
        BY <2>2 DEF Held
      <4>3. QED
        BY <4>1, <4>2
    <3>7. QED
      BY <3>2, <3>5, <3>6 DEF Covered
  <2>5. CASE t # terms[i].token
    <3>1. HeldIn(t, i)' = 0
      BY <2>3, <2>5 DEF HeldIn
    <3>2. pool'[t] = pool[t]
      BY <1>0, <1>3, <2>5 DEF TypeOK, FundIntent
    <3>3. QED
      BY <1>0, <2>1, <2>2, <3>1, <3>2, CoveredFrame
  <2>6. QED
    BY <2>4, <2>5
<1>4. ASSUME NEW i \in Intents, ExecuteAbandonment(i)
      PROVE  Covered(t)'
  <2>1. proposal[i].proposedBy = NoOne
    BY <1>0, <1>4 DEF ExecuteAbandonment, Sound, Life
  <2>2. ExecuteSplit(i, terms[i].totalAmount, 0, "abandonment")
    BY <1>4, <2>1 DEF ExecuteAbandonment
  <2>3. /\ Exists(i) /\ state[i] \in Holding /\ terms' = terms
        /\ terms[i].totalAmount \in Nat /\ terms[i].totalAmount + 0 = terms[i].totalAmount
    BY <1>0, <1>4, TermsType DEF ExecuteAbandonment, Holding
  <2>4. QED
    BY <1>0, <2>2, <2>3, ExecuteSplitCovered
<1>5. ASSUME NEW i \in Intents, MoveTo(i, state'[i]), state[i] \in Holding, state'[i] \in Holding,
             terms' = terms, pool' = pool
      PROVE  Covered(t)'
  <2>1. ASSUME NEW j \in Intents PROVE state'[j] \in Holding <=> state[j] \in Holding
    BY <1>0, <1>5 DEF TypeOK, MoveTo
  <2>2. QED
    BY <1>0, <1>5, <2>1, CoveredFrame, HeldFrame
<1>6. ASSUME NEW i \in Intents, NEW a \in Accounts, RaiseDispute(i, a)
      PROVE  Covered(t)'
  BY <1>0, <1>5, <1>6 DEF TypeOK, RaiseDispute, MoveTo, Holding
<1>7. ASSUME NEW i \in Intents, NEW a \in Accounts, NEW f \in Fees, EscalateAppeal(i, a, f)
      PROVE  Covered(t)'
  BY <1>0, <1>5, <1>7 DEF TypeOK, EscalateAppeal, MoveTo, Holding
<1>8. ASSUME NEW i \in Intents, NEW a \in Accounts, NEW c \in Splits(i), SubmitAIProposal(i, a, c)
      PROVE  Covered(t)'
  BY <1>0, <1>5, <1>8 DEF TypeOK, SubmitAIProposal, MoveTo, Holding
<1>9. ASSUME NEW i \in Intents, NEW c \in Splits(i), NEW how, Exists(i), state[i] \in Holding,
             ExecuteSplit(i, c, terms[i].totalAmount - c, how), terms' = terms
      PROVE  Covered(t)'
  <2>1. c \in Nat /\ terms[i].totalAmount - c \in Nat
        /\ c + (terms[i].totalAmount - c) = terms[i].totalAmount
    BY <1>0, SplitParts, TermsType
  <2>2. QED
    BY <1>0, <1>9, <2>1, ExecuteSplitCovered
<1>10. ASSUME NEW i \in Intents, NEW a \in Accounts, NEW c \in Splits(i), NEW ok \in BOOLEAN,
              ResolveHumanAppeal(i, a, c, ok)
       PROVE  Covered(t)'
  BY <1>9, <1>10 DEF ResolveHumanAppeal, Holding
<1>11. ASSUME NEW i \in Intents, NEW a \in Accounts, NEW b \in Accounts, NEW c \in Splits(i),
              ExecuteWithSignatures(i, c, a, b)
       PROVE  Covered(t)'
  BY <1>9, <1>11 DEF ExecuteWithSignatures, Holding
<1>12. ASSUME \/ \E a \in Accounts, u \in Tokens, n \in Amounts : Approve(a, u, n)
              \/ \E a \in Accounts, f \in Fees : SetAppealFee(a, f)
              \/ \E i \in Intents, a \in Accounts : WithdrawStuckStake(i, a)
              \/ Tick
              \/ UNCHANGED vars
       PROVE  UNCHANGED <<terms, state, pool>>
  BY <1>12 DEF Approve, SetAppealFee, WithdrawStuckStake, Tick, vars
<1>13. QED
  BY <1>1, <1>2, <1>3, <1>4, <1>6, <1>7, <1>8, <1>10, <1>11, <1>12 DEF Next

\* The ether follows the stakes: a step either leaves both alone, or changes
\* the stake of one intent and the balance by the same amount.
LEMMA StakePaidIn ==
  ASSUME TypeOK, StakesBacked, NEW i \in Intents, NEW value \in Nat, appealStakes[i] = 0,
         ether' = ether + value, appealStakes' = [appealStakes EXCEPT ![i] = value]
  PROVE  StakesBacked'
<1>1. /\ appealStakes \in [0 .. (MaxIntents - 1) -> Nat] /\ ether \in Nat
      /\ i \in 0 .. (MaxIntents - 1) /\ MaxIntents \in Nat
  BY BoundsAssumption DEF TypeOK, Intents
<1>2. IsTotal(ether + value, [appealStakes EXCEPT ![i] = appealStakes[i] + value], MaxIntents)
  BY <1>1, TotalGrows DEF StakesBacked
<1>3. appealStakes[i] + value = value
  OBVIOUS
<1>4. QED
  BY <1>2, <1>3 DEF StakesBacked

LEMMA StakePaidOut ==
  ASSUME TypeOK, StakesBacked, NEW i \in Intents,
         ether' = ether - appealStakes[i], appealStakes' = [appealStakes EXCEPT ![i] = 0]
  PROVE  StakesBacked'
<1>1. /\ appealStakes \in [0 .. (MaxIntents - 1) -> Nat] /\ ether \in Nat
      /\ i \in 0 .. (MaxIntents - 1) /\ MaxIntents \in Nat
  BY BoundsAssumption DEF TypeOK, Intents
<1>2. appealStakes[i] \in 0 .. appealStakes[i] /\ appealStakes[i] - appealStakes[i] = 0
  BY <1>1
<1>3. IsTotal(ether - appealStakes[i],
              [appealStakes EXCEPT ![i] = appealStakes[i] - appealStakes[i]], MaxIntents)
  BY <1>1, <1>2, TotalShrinks DEF StakesBacked
<1>4. QED
  BY <1>2, <1>3 DEF StakesBacked

LEMMA StepStakesBacked == MoneyInv /\ [Next]_vars => StakesBacked'
<1> SUFFICES ASSUME MoneyInv, [Next]_vars PROVE StakesBacked'
  OBVIOUS
<1> USE DEF core, appeals, money
<1>0. TypeOK /\ StakesBacked /\ \A i \in Intents : Sound(i)
  BY DEF MoneyInv, IInv
<1>1. CASE UNCHANGED <<ether, appealStakes>>
  BY <1>0, <1>1 DEF StakesBacked
<1>2. ASSUME NEW i \in Intents, NEW a \in Accounts, NEW f \in Fees, EscalateAppeal(i, a, f)
      PROVE  StakesBacked'
  <2>1. appealStakes[i] = 0
    BY <1>0, <1>2 DEF EscalateAppeal, Sound, Life
  <2>2. f \in Nat
    BY BoundsAssumption
  <2>3. QED
    BY <1>0, <1>2, <2>1, <2>2, StakePaidIn DEF EscalateAppeal
<1>3. ASSUME NEW i \in Intents, NEW a \in Accounts, WithdrawStuckStake(i, a)
      PROVE  StakesBacked'
  BY <1>0, <1>3, StakePaidOut DEF WithdrawStuckStake
<1>4. ASSUME NEW i \in Intents, NEW a \in Accounts, NEW c \in Splits(i), NEW ok \in BOOLEAN,
             ResolveHumanAppeal(i, a, c, ok)
      PROVE  StakesBacked'
  <2>1. appellants[i] # NoOne /\ appealStakes[i] \in Nat
    BY <1>0, <1>4 DEF ResolveHumanAppeal, Sound, Life, TypeOK
  <2>2. CASE appealStakes[i] = 0
    <3>1. ether' = ether /\ appealStakes' = [appealStakes EXCEPT ![i] = 0]
      BY <1>4, <2>2 DEF ResolveHumanAppeal, RefundStake
    <3>2. appealStakes' = appealStakes
      BY <1>0, <2>2, <3>1 DEF TypeOK
    <3>3. QED
      BY <1>1, <3>1, <3>2
  <2>3. CASE appealStakes[i] > 0 /\ CanSend(appealStakes[i], ok)
    BY <1>0, <1>4, <2>1, <2>3, StakePaidOut DEF ResolveHumanAppeal, RefundStake
  <2>4. CASE appealStakes[i] > 0 /\ ~ CanSend(appealStakes[i], ok)
    BY <1>1, <1>4, <2>1, <2>4 DEF ResolveHumanAppeal, RefundStake
  <2>5. QED
    BY <2>1, <2>2, <2>3, <2>4
<1>5. ASSUME \/ \E a, b \in Accounts, t \in Tokens, n \in Amounts : CreateIntent(a, b, t, n)
             \/ \E a \in Accounts, t \in Tokens, n \in Amounts : Approve(a, t, n)
             \/ \E a \in Accounts, f \in Fees : SetAppealFee(a, f)
             \/ \E i \in Intents :
                  \/ FundIntent(i)
                  \/ ExecuteAbandonment(i)
                  \/ \E a \in Accounts :
                       \/ RaiseDispute(i, a)
                       \/ \E c \in Splits(i) :
                            \/ SubmitAIProposal(i, a, c)
                            \/ \E b \in Accounts : ExecuteWithSignatures(i, c, a, b)
             \/ Tick
             \/ UNCHANGED vars
      PROVE  UNCHANGED <<ether, appealStakes>>
  BY <1>5 DEF CreateIntent, Approve, SetAppealFee, FundIntent, ExecuteAbandonment, RaiseDispute,
              SubmitAIProposal, ExecuteWithSignatures, Tick, vars
<1>6. QED
  BY <1>1, <1>2, <1>3, <1>4, <1>5 DEF Next

LEMMA InitMoney == Init => Solvent /\ StakesBacked
<1> SUFFICES ASSUME Init PROVE Solvent /\ StakesBacked
  OBVIOUS
<1>1. IsTotal(0, [i \in Intents |-> 0], MaxIntents)
  BY BoundsAssumption, TotalOfZeros DEF Intents
<1>2. StakesBacked
  BY <1>1 DEF Init, StakesBacked
<1>3. ASSUME NEW t \in Tokens PROVE Covered(t)
  <2>1. Held(t) = [i \in Intents |-> 0] /\ pool[t] = 0
    BY DEF Init, Held, HeldIn, Holding
  <2>2. QED
    BY <1>1, <2>1 DEF Covered
<1>4. QED
  BY <1>2, <1>3 DEF Solvent, Covered, Held

\* The pooled balance of every token is what the open intents are owed, and the
\* ether is what the recorded stakes add up to, whatever the calls and their order.
THEOREM MoneyCorrect == Spec => [](Solvent /\ StakesBacked)
<1>1. Init => Solvent /\ StakesBacked
  BY InitMoney
<1>2. IInv /\ Solvent /\ StakesBacked /\ [Next]_vars => (Solvent /\ StakesBacked)'
  BY StepSolvent, StepStakesBacked DEF MoneyInv
<1>3. QED
  BY <1>1, <1>2, Invariance, PTL DEF Spec

\* The ether of the contract is the sum of the stakes on record, through refused
\* refunds and withdrawals of the owner (sol:366-386, 445-454).
THEOREM StakesCorrect == Spec => []StakesBacked
BY MoneyCorrect, PTL

\* No payout and no refund reverts for lack of balance: the contract always
\* covers what it owes on any one open intent, and any one recorded stake.
THEOREM PayoutsCovered ==
  Spec => [] \A i \in Intents :
    /\ state[i] \in Holding => pool[terms[i].token] >= terms[i].totalAmount
    /\ ether >= appealStakes[i]
<1>1. ASSUME IInv, Solvent, StakesBacked, NEW i \in Intents
      PROVE  /\ state[i] \in Holding => pool[terms[i].token] >= terms[i].totalAmount
             /\ ether >= appealStakes[i]
  <2>0. TypeOK /\ Sound(i) /\ i \in 0 .. (MaxIntents - 1) /\ MaxIntents \in Nat
    BY <1>1, BoundsAssumption DEF IInv, Intents
  <2>1. ASSUME state[i] \in Holding
        PROVE  pool[terms[i].token] >= terms[i].totalAmount
    <3> DEFINE t == terms[i].token
               owed == terms[i].totalAmount
    <3>1. Exists(i)
      BY <2>0, <2>1 DEF Sound, Life, Holding
    <3>2. t \in Tokens /\ owed \in Nat
      BY <2>0, <3>1, TermsOfExisting
    <3>3. Held(t) \in [0 .. (MaxIntents - 1) -> Nat] /\ pool[t] \in Nat
      BY <2>0, <3>2, HeldType DEF Intents, TypeOK
    <3>4. Held(t)[i] = owed
      BY <2>1 DEF Held, HeldIn
    <3>5. IsTotal(pool[t], Held(t), MaxIntents)
      BY <1>1, <3>2 DEF Solvent, Held
    <3>6. owed \in 0 .. Held(t)[i]
      BY <3>2, <3>4
    <3>7. owed <= pool[t]
      BY <2>0, <3>3, <3>5, <3>6, TotalShrinks
    <3>8. QED
      BY <3>2, <3>3, <3>7
  <2>2. ether >= appealStakes[i]
    <3>1. appealStakes \in [0 .. (MaxIntents - 1) -> Nat] /\ ether \in Nat
      BY <2>0 DEF TypeOK, Intents
    <3>2. appealStakes[i] \in 0 .. appealStakes[i]
      BY <2>0, <3>1
    <3>3. appealStakes[i] <= ether
      BY <1>1, <2>0, <3>1, <3>2, TotalShrinks DEF StakesBacked
    <3>4. QED
      BY <2>0, <3>1, <3>3
  <2>3. QED
    BY <2>1, <2>2
<1>2. IInv /\ Solvent /\ StakesBacked =>
        \A i \in Intents :
          /\ state[i] \in Holding => pool[terms[i].token] >= terms[i].totalAmount
          /\ ether >= appealStakes[i]
  BY <1>1
<1>3. QED
  BY <1>2, Invariance, MoneyCorrect, PTL

(***************************************************************************)
(* The contract implements EscrowPromise: fundIntent takes, the four ways  *)
(* to resolve settle, everything else stutters.                            *)
(***************************************************************************)

\* A settled intent was taken in whole and is paid out whole.
LEMMA SettleMaps ==
  ASSUME TypeOK, NEW i \in Intents, Sound(i), Exists(i), state[i] \in Holding,
         NEW c \in Nat, NEW p \in Nat, c + p = terms[i].totalAmount,
         NEW how \in {"signatures", "human", "abandonment"}, ExecuteSplit(i, c, p, how)
  PROVE  Promise!Settle(i)
<1>1. /\ state'[i] = "RESOLVED" /\ ledger'[i].deposited = terms[i].totalAmount
      /\ ledger'[i].toCustomer = c /\ ledger'[i].toProvider = p
  BY ExecuteSplitSound
<1>2. ledger[i].deposited = terms[i].totalAmount
  BY DEF Sound, Paid, Holding
<1>3. ASSUME NEW j \in Intents \ {i} PROVE state'[j] = state[j] /\ ledger'[j] = ledger[j]
  BY ExecuteSplitFrame
<1>4. Stage(state[i]) = "holding" /\ Stage(state'[i]) = "settled"
  BY <1>1 DEF Stage, Holding
<1> DEFINE stages == [k \in Intents |-> Stage(state[k])]
           taken == [k \in Intents |-> ledger[k].deposited]
           customers == [k \in Intents |-> ledger[k].toCustomer]
           providers == [k \in Intents |-> ledger[k].toProvider]
<1>5. stages[i] = "holding" /\ stages' = [stages EXCEPT ![i] = "settled"]
  BY <1>3, <1>4
<1>6. /\ customers' = [customers EXCEPT ![i] = customers'[i]] /\ customers'[i] = c
      /\ providers' = [providers EXCEPT ![i] = providers'[i]] /\ providers'[i] = p
  BY <1>1, <1>3
<1>7. taken' = taken /\ taken[i] = terms[i].totalAmount
  BY <1>1, <1>2, <1>3
<1>8. QED
  BY <1>5, <1>6, <1>7 DEF Promise!Settle

LEMMA TakeMaps ==
  ASSUME TypeOK, NEW i \in Intents, Sound(i), FundIntent(i)
  PROVE  Promise!Take(i)
<1>1. Exists(i) /\ state[i] = "AWAITING_FUNDS" /\ state'[i] = "FUNDED"
  BY DEF TypeOK, FundIntent, MoveTo
<1>2. terms[i].totalAmount \in Nat \ {0}
  BY <1>1, TermsOfExisting
<1>3. /\ ledger'[i].deposited = ledger[i].deposited + terms[i].totalAmount
      /\ ledger'[i].toCustomer = ledger[i].toCustomer
      /\ ledger'[i].toProvider = ledger[i].toProvider
  BY DEF TypeOK, FundIntent
<1>4. ledger[i].deposited = 0
  BY <1>1 DEF Sound, Paid
<1>5. ASSUME NEW j \in Intents \ {i} PROVE state'[j] = state[j] /\ ledger'[j] = ledger[j]
  BY DEF TypeOK, FundIntent, MoveTo
<1>6. Stage(state[i]) = "open" /\ Stage(state'[i]) = "holding"
  BY <1>1 DEF Stage
<1> DEFINE stages == [k \in Intents |-> Stage(state[k])]
           taken == [k \in Intents |-> ledger[k].deposited]
           customers == [k \in Intents |-> ledger[k].toCustomer]
           providers == [k \in Intents |-> ledger[k].toProvider]
<1>7. stages[i] = "open" /\ stages' = [stages EXCEPT ![i] = "holding"]
  BY <1>5, <1>6
<1>8. taken' = [taken EXCEPT ![i] = taken'[i]] /\ taken'[i] > 0
  <2>1. ledger'[i].deposited > 0
    BY <1>2, <1>3, <1>4
  <2>2. taken' = [taken EXCEPT ![i] = taken'[i]]
    BY <1>5
  <2>3. QED
    BY <2>1, <2>2
<1>9. customers' = customers /\ providers' = providers
  BY <1>3, <1>5
<1>10. QED
  BY <1>7, <1>8, <1>9 DEF Promise!Take

LEMMA MoveStutters ==
  ASSUME TypeOK, NEW i \in Intents, NEW s \in Holding, state[i] \in Holding,
         MoveTo(i, s), UNCHANGED ledger
  PROVE  UNCHANGED Promise!vars
<1>1. ASSUME NEW j \in Intents PROVE Stage(state'[j]) = Stage(state[j])
  BY DEF TypeOK, MoveTo, Stage, Holding
<1>2. QED
  BY <1>1 DEF Promise!vars

LEMMA StepMaps == IInv /\ [Next]_vars => [Promise!Next]_(Promise!vars)
<1> SUFFICES ASSUME IInv, [Next]_vars PROVE [Promise!Next]_(Promise!vars)
  OBVIOUS
<1> USE DEF core, appeals, money
<1>0. TypeOK /\ \A i \in Intents : Sound(i)
  BY DEF IInv
<1>1. CASE UNCHANGED <<state, ledger>>
  BY <1>1 DEF Promise!vars
<1>2. ASSUME NEW i \in Intents, FundIntent(i)
      PROVE  Promise!Next
  BY <1>0, <1>2, TakeMaps DEF Promise!Next
<1>3. ASSUME NEW i \in Intents, ExecuteAbandonment(i)
      PROVE  Promise!Next
  <2>1. proposal[i].proposedBy = NoOne
    BY <1>0, <1>3 DEF ExecuteAbandonment, Sound, Life
  <2>2. ExecuteSplit(i, terms[i].totalAmount, 0, "abandonment")
    BY <1>3, <2>1 DEF ExecuteAbandonment
  <2>3. /\ Exists(i) /\ state[i] \in Holding
        /\ terms[i].totalAmount \in Nat /\ terms[i].totalAmount + 0 = terms[i].totalAmount
    BY <1>0, <1>3, TermsType DEF ExecuteAbandonment, Holding
  <2>4. Promise!Settle(i)
    BY <1>0, <2>2, <2>3, SettleMaps
  <2>5. QED
    BY <2>4 DEF Promise!Next
<1>4. ASSUME NEW i \in Intents, NEW c \in Splits(i), NEW how \in {"signatures", "human"},
             Exists(i), state[i] \in Holding, ExecuteSplit(i, c, terms[i].totalAmount - c, how)
      PROVE  Promise!Next
  <2>1. c \in Nat /\ terms[i].totalAmount - c \in Nat
        /\ c + (terms[i].totalAmount - c) = terms[i].totalAmount
    BY <1>0, SplitParts, TermsType
  <2>2. Promise!Settle(i)
    BY <1>0, <1>4, <2>1, SettleMaps
  <2>3. QED
    BY <2>2 DEF Promise!Next
<1>5. ASSUME NEW i \in Intents, NEW a \in Accounts, NEW c \in Splits(i), NEW ok \in BOOLEAN,
             ResolveHumanAppeal(i, a, c, ok)
      PROVE  Promise!Next
  BY <1>4, <1>5 DEF ResolveHumanAppeal, Holding
<1>6. ASSUME NEW i \in Intents, NEW a \in Accounts, NEW b \in Accounts, NEW c \in Splits(i),
             ExecuteWithSignatures(i, c, a, b)
      PROVE  Promise!Next
  BY <1>4, <1>6 DEF ExecuteWithSignatures, Holding
<1>7. ASSUME NEW i \in Intents, NEW a \in Accounts,
             \/ RaiseDispute(i, a)
             \/ \E f \in Fees : EscalateAppeal(i, a, f)
             \/ \E c \in Splits(i) : SubmitAIProposal(i, a, c)
      PROVE  UNCHANGED Promise!vars
  <2>1. /\ state[i] \in Holding /\ ledger' = ledger
        /\ \E s \in Holding : MoveTo(i, s)
    BY <1>7 DEF RaiseDispute, EscalateAppeal, SubmitAIProposal, Holding
  <2>2. QED
    BY <1>0, <2>1, MoveStutters
<1>8. ASSUME \/ \E a, b \in Accounts, t \in Tokens, n \in Amounts : CreateIntent(a, b, t, n)
             \/ \E a \in Accounts, t \in Tokens, n \in Amounts : Approve(a, t, n)
             \/ \E a \in Accounts, f \in Fees : SetAppealFee(a, f)
             \/ \E i \in Intents, a \in Accounts : WithdrawStuckStake(i, a)
             \/ Tick
             \/ UNCHANGED vars
      PROVE  UNCHANGED <<state, ledger>>
  BY <1>8 DEF CreateIntent, Approve, SetAppealFee, WithdrawStuckStake, Tick, vars
<1>9. QED
  BY <1>1, <1>2, <1>3, <1>5, <1>6, <1>7, <1>8 DEF Next

\* Whatever happens on the contract, each intent looks like a plain escrow that
\* takes its money in once and gives all of it to the two parties, once.
THEOREM Refinement == Spec => ImplementsPromise
<1>1. Init => Promise!Init
  BY DEF Init, Promise!Init, Stage, NoMovement
<1>2. IInv /\ [Next]_vars => [Promise!Next]_(Promise!vars)
  BY StepMaps
<1>3. QED
  BY <1>1, <1>2, Invariance, PTL DEF Spec, ImplementsPromise, Promise!Spec
=============================================================================
