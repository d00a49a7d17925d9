--------------------------- MODULE IntentraEscrow ---------------------------
(***************************************************************************)
(* The on-chain escrow, contracts/src/IntentraEscrow.sol: every intent of  *)
(* the registry, the token balance the contract pools for all of them, the *)
(* ether it keeps for appeals, and the clock its two timeouts read.        *)
(*                                                                         *)
(* A transaction of the contract is one action: a call that reverts leaves *)
(* no trace, so a failed require is a guard.  The calls nested in          *)
(* resolveHumanAppeal and withdrawStuckStake run after every effect of the *)
(* outer function, so a reentrant call is that call made right after it.   *)
(*                                                                         *)
(* Timestamps are kept as ages.  The code compares block.timestamp only    *)
(* with lastActivityAt + ABANDONMENT_TIMEOUT and with proposedAt +         *)
(* APPEAL_TIMELOCK; idle[i] and proposal[i].age are the two differences,   *)
(* saturated at the timeout, and advance only in the states that read      *)
(* them.  Time is thereby unbounded in a finite state space.               *)
(*                                                                         *)
(* An operator marked Fault is a plausible error in the function that      *)
(* follows it; nothing uses it but the mutation tests of the properties.   *)
(***************************************************************************)
EXTENDS Integers, RunningTotals

CONSTANTS
  Accounts,             \* addresses that call the contract
  NoOne,                \* address(0)
  AiArbitrator,         \* immutable aiArbitrator
  Owner,                \* Ownable2Step owner, the Human Oracle
  Tokens,               \* ERC-20 contracts an intent may name
  Amounts,              \* amounts an intent may be created for (bound)
  Fees,                 \* appeal fees and stakes in ether (bound)
  MaxIntents,           \* intents the registry may reach (bound)
  ABANDONMENT_TIMEOUT,  \* 14 days, in ticks
  APPEAL_TIMELOCK       \* 48 hours, in ticks

ASSUME PartiesAssumption ==
  /\ NoOne \notin Accounts \cup Tokens
  /\ {AiArbitrator, Owner} \subseteq Accounts

ASSUME BoundsAssumption ==
  /\ Amounts \subseteq Nat \ {0}
  /\ Fees \subseteq Nat
  /\ MaxIntents \in Nat

ASSUME TimeoutsAssumption ==
  ABANDONMENT_TIMEOUT \in Nat /\ APPEAL_TIMELOCK \in Nat

VARIABLES
  nextIntentId,   \* the next id createIntent hands out
  terms,          \* what createIntent wrote: parties, token, total
  state,          \* IntentState of each intent
  idle,           \* age of lastActivityAt
  proposal,       \* activeProposal, with the age of proposedAt
  appealFee,      \* stake escalateAppeal asks for
  appealStakes,   \* stake recorded for each intent
  appellants,     \* who filed the appeal
  pool,           \* token balance of the contract, one per token
  ether,          \* ether balance of the contract
  spendable,      \* external: what a token lets the escrow pull from an account
  ledger,         \* history: token moved in and out for each intent
  settledBy,      \* history: the operation that resolved the intent
  stakeSentTo     \* history: who the stake of an intent was last sent to

core == <<terms, state, idle, proposal>>
appeals == <<appealStakes, appellants, ether, stakeSentTo>>
money == <<pool, spendable, ledger, settledBy>>
vars == <<nextIntentId, core, appealFee, appeals, money>>

Intents == 0 .. (MaxIntents - 1)
Holding == {"FUNDED", "IN_DISPUTE", "TIMELOCKED", "APPEALED"}
IntentState == {"AWAITING_FUNDS", "RESOLVED"} \cup Holding

Terms == [customer : Accounts, provider : Accounts, token : Tokens, totalAmount : Amounts]
NoTerms == [customer |-> NoOne, provider |-> NoOne, token |-> NoOne, totalAmount |-> 0]
NoProposal == [customerAmount |-> 0, providerAmount |-> 0, age |-> 0, proposedBy |-> NoOne]
NoMovement == [deposited |-> 0, toCustomer |-> 0, toProvider |-> 0]

Exists(i) == terms[i].customer # NoOne
Parties(i) == {terms[i].customer, terms[i].provider}
Signers(i) == Parties(i) \cup {AiArbitrator}

\* The splits _requireAmountMatch accepts, by the customer's part.
Splits(i) == 0 .. terms[i].totalAmount

WindowClosed(i) == proposal[i].age >= APPEAL_TIMELOCK
Silent(i) == idle[i] >= ABANDONMENT_TIMEOUT

Init ==
  /\ nextIntentId = 0
  /\ terms = [i \in Intents |-> NoTerms]
  /\ state = [i \in Intents |-> "AWAITING_FUNDS"]
  /\ idle = [i \in Intents |-> 0]
  /\ proposal = [i \in Intents |-> NoProposal]
  /\ appealFee \in Fees
  /\ appealStakes = [i \in Intents |-> 0]
  /\ appellants = [i \in Intents |-> NoOne]
  /\ pool = [t \in Tokens |-> 0]
  /\ ether = 0
  /\ spendable = [a \in Accounts |-> [t \in Tokens |-> 0]]
  /\ ledger = [i \in Intents |-> NoMovement]
  /\ settledBy = [i \in Intents |-> "nothing"]
  /\ stakeSentTo = [i \in Intents |-> NoOne]

(***************************************************************************)
(* Steps shared by several functions of the contract.                      *)
(***************************************************************************)

\* The state assignment of a handler together with lastActivityAt = now.
MoveTo(i, s) ==
  /\ state' = [state EXCEPT ![i] = s]
  /\ idle' = [idle EXCEPT ![i] = 0]

\* Fault: only one of the two transfers is made (else if for the second if).
PayOutOneParty(i, toCustomer, toProvider) ==
  LET t == terms[i].token
      paid == IF toCustomer > 0 THEN toCustomer ELSE toProvider
  IN
  /\ pool[t] >= paid
  /\ pool' = [pool EXCEPT ![t] = @ - paid]
  /\ ledger' = [ledger EXCEPT ![i] =
       [deposited  |-> @.deposited,
        toCustomer |-> @.toCustomer + toCustomer,
        toProvider |-> IF toCustomer > 0 THEN @.toProvider ELSE @.toProvider + toProvider]]
  /\ UNCHANGED spendable

\* The two safeTransfer calls that pay an intent out: the token reverts them
\* when the pooled balance does not cover the amounts.
PayOut(i, toCustomer, toProvider) ==
  LET t == terms[i].token IN
  /\ pool[t] >= toCustomer + toProvider
  /\ pool' = [pool EXCEPT ![t] = @ - (toCustomer + toProvider)]
  /\ ledger' = [ledger EXCEPT ![i] =
       [deposited  |-> @.deposited,
        toCustomer |-> @.toCustomer + toCustomer,
        toProvider |-> @.toProvider + toProvider]]
  /\ UNCHANGED spendable

ExecuteSplit(i, toCustomer, toProvider, how) ==
  /\ MoveTo(i, "RESOLVED")
  /\ PayOut(i, toCustomer, toProvider)
  /\ settledBy' = [settledBy EXCEPT ![i] = how]

(***************************************************************************)
(* The functions of the contract.                                          *)
(***************************************************************************)

CreateIntent(sender, provider, t, amount) ==
  /\ nextIntentId < MaxIntents
  /\ provider # sender
  /\ nextIntentId' = nextIntentId + 1
  /\ terms' = [terms EXCEPT ![nextIntentId] =
       [customer |-> sender, provider |-> provider, token |-> t, totalAmount |-> amount]]
  /\ idle' = [idle EXCEPT ![nextIntentId] = 0]
  /\ UNCHANGED <<state, proposal, appealFee, appeals, money>>

\* Fault: a transferFrom that returns false counts as a deposit.
FundUnpaidIntent(i) ==
  LET customer == terms[i].customer
      t == terms[i].token
      amount == terms[i].totalAmount
  IN
  /\ Exists(i)
  /\ state[i] = "AWAITING_FUNDS"
  /\ MoveTo(i, "FUNDED")
  /\ spendable' = [spendable EXCEPT ![customer][t] = @ - amount]
  /\ pool' = [pool EXCEPT ![t] = @ + amount]
  /\ ledger' = [ledger EXCEPT ![i].deposited = @ + amount]
  /\ UNCHANGED <<nextIntentId, terms, proposal, appealFee, appeals, settledBy>>

\* Nothing restricts the caller: the customer's allowance is the only consent.
FundIntent(i) ==
  LET customer == terms[i].customer
      t == terms[i].token
      amount == terms[i].totalAmount
  IN
  /\ Exists(i)
  /\ state[i] = "AWAITING_FUNDS"
  /\ spendable[customer][t] >= amount
  /\ MoveTo(i, "FUNDED")
  /\ spendable' = [spendable EXCEPT ![customer][t] = @ - amount]
  /\ pool' = [pool EXCEPT ![t] = @ + amount]
  /\ ledger' = [ledger EXCEPT ![i].deposited = @ + amount]
  /\ UNCHANGED <<nextIntentId, terms, proposal, appealFee, appeals, settledBy>>

RaiseDispute(i, sender) ==
  /\ Exists(i)
  /\ state[i] = "FUNDED"
  /\ sender \in Parties(i)
  /\ MoveTo(i, "IN_DISPUTE")
  /\ UNCHANGED <<nextIntentId, terms, proposal, appealFee, appeals, money>>

SubmitAIProposal(i, sender, c) ==
  /\ sender = AiArbitrator
  /\ Exists(i)
  /\ state[i] = "IN_DISPUTE"
  /\ proposal' = [proposal EXCEPT ![i] =
       [customerAmount |-> c, providerAmount |-> terms[i].totalAmount - c,
        age |-> 0, proposedBy |-> sender]]
  /\ MoveTo(i, "TIMELOCKED")
  /\ UNCHANGED <<nextIntentId, terms, appealFee, appeals, money>>

\* Fault: no state check, so a pair of signatures can be replayed.
ReplaySignatures(i, c, signerA, signerB) ==
  /\ Exists(i)
  /\ state[i] # "AWAITING_FUNDS"
  /\ state[i] = "TIMELOCKED" => WindowClosed(i)
  /\ signerA # signerB
  /\ signerA \in Signers(i)
  /\ signerB \in Signers(i)
  /\ ExecuteSplit(i, c, terms[i].totalAmount - c, "signatures")
  /\ UNCHANGED <<nextIntentId, terms, proposal, appealFee, appeals>>

\* Fault: two signatures settle an appeal behind the human's back.
SignaturesOverAppeal(i, c, signerA, signerB) ==
  /\ Exists(i)
  /\ state[i] \in {"FUNDED", "TIMELOCKED", "APPEALED"}
  /\ state[i] = "TIMELOCKED" => WindowClosed(i)
  /\ signerA # signerB
  /\ signerA \in Signers(i)
  /\ signerB \in Signers(i)
  /\ ExecuteSplit(i, c, terms[i].totalAmount - c, "signatures")
  /\ UNCHANGED <<nextIntentId, terms, proposal, appealFee, appeals>>

\* Anyone may relay two signatures; signatures over a split never expire, so
\* any two valid signers may have signed it at any earlier time.
ExecuteWithSignatures(i, c, signerA, signerB) ==
  /\ Exists(i)
  /\ state[i] \in {"FUNDED", "TIMELOCKED"}
  /\ state[i] = "TIMELOCKED" => WindowClosed(i)
  /\ signerA # signerB
  /\ signerA \in Signers(i)
  /\ signerB \in Signers(i)
  /\ ExecuteSplit(i, c, terms[i].totalAmount - c, "signatures")
  /\ UNCHANGED <<nextIntentId, terms, proposal, appealFee, appeals>>

EscalateAppeal(i, sender, value) ==
  /\ Exists(i)
  /\ state[i] = "TIMELOCKED"
  /\ sender \in Parties(i)
  /\ ~WindowClosed(i)
  /\ value >= appealFee
  /\ MoveTo(i, "APPEALED")
  /\ ether' = ether + value
  /\ appealStakes' = [appealStakes EXCEPT ![i] = value]
  /\ appellants' = [appellants EXCEPT ![i] = sender]
  /\ UNCHANGED <<nextIntentId, terms, proposal, appealFee, stakeSentTo, money>>

\* A call that sends ether; it fails when the balance does not cover it, and
\* accepted says whether the receiver took it.
CanSend(value, accepted) == accepted /\ ether >= value

\* Fault: the record of a refunded stake is kept.
RefundRecordedStake(i, accepted) ==
  LET stake == appealStakes[i] IN
  /\ UNCHANGED appealStakes
  /\ IF stake > 0 /\ appellants[i] # NoOne /\ CanSend(stake, accepted)
     THEN /\ ether' = ether - stake
          /\ stakeSentTo' = [stakeSentTo EXCEPT ![i] = appellants[i]]
     ELSE UNCHANGED <<ether, stakeSentTo>>

\* The recorded stake is cleared and goes back to the appellant.  A refund that
\* fails does not revert the ruling: the stake is recorded again.
RefundStake(i, accepted) ==
  LET stake == appealStakes[i]
      due == stake > 0 /\ appellants[i] # NoOne
  IN
  \/ /\ ~ due
     /\ appealStakes' = [appealStakes EXCEPT ![i] = 0]
     /\ UNCHANGED <<ether, stakeSentTo>>
  \/ /\ due
     /\ CanSend(stake, accepted)
     /\ ether' = ether - stake
     /\ appealStakes' = [appealStakes EXCEPT ![i] = 0]
     /\ stakeSentTo' = [stakeSentTo EXCEPT ![i] = appellants[i]]
  \/ /\ due
     /\ ~ CanSend(stake, accepted)
     /\ UNCHANGED <<ether, appealStakes, stakeSentTo>>

ResolveHumanAppeal(i, sender, c, accepted) ==
  /\ sender = Owner
  /\ Exists(i)
  /\ state[i] = "APPEALED"
  /\ ExecuteSplit(i, c, terms[i].totalAmount - c, "human")
  /\ RefundStake(i, accepted)
  /\ UNCHANGED <<nextIntentId, terms, proposal, appealFee, appellants>>

\* Fault: a disputed intent cannot be abandoned.
AbandonFundedOnly(i) ==
  /\ Exists(i)
  /\ state[i] = "FUNDED"
  /\ Silent(i)
  /\ ExecuteSplit(i, terms[i].totalAmount, 0, "abandonment")
  /\ UNCHANGED <<nextIntentId, terms, proposal, appealFee, appeals>>

\* An abandoned intent pays the standing proposal, or refunds everything.
ExecuteAbandonment(i) ==
  /\ Exists(i)
  /\ state[i] \in {"FUNDED", "IN_DISPUTE"}
  /\ Silent(i)
  /\ IF proposal[i].proposedBy # NoOne
     THEN ExecuteSplit(i, proposal[i].customerAmount, proposal[i].providerAmount, "abandonment")
     ELSE ExecuteSplit(i, terms[i].totalAmount, 0, "abandonment")
  /\ UNCHANGED <<nextIntentId, terms, proposal, appealFee, appeals>>

SetAppealFee(sender, newFee) ==
  /\ sender = Owner
  /\ appealFee' = newFee
  /\ UNCHANGED <<nextIntentId, core, appeals, money>>

\* Fault: the withdrawn stake stays on record.
WithdrawAgain(i, sender) ==
  /\ sender = Owner
  /\ appealStakes[i] # 0
  /\ CanSend(appealStakes[i], TRUE)
  /\ ether' = ether - appealStakes[i]
  /\ stakeSentTo' = [stakeSentTo EXCEPT ![i] = Owner]
  /\ UNCHANGED <<nextIntentId, core, appealFee, appealStakes, appellants, money>>

WithdrawStuckStake(i, sender) ==
  /\ sender = Owner
  /\ appealStakes[i] # 0
  /\ CanSend(appealStakes[i], TRUE)
  /\ ether' = ether - appealStakes[i]
  /\ appealStakes' = [appealStakes EXCEPT ![i] = 0]
  /\ stakeSentTo' = [stakeSentTo EXCEPT ![i] = Owner]
  /\ UNCHANGED <<nextIntentId, core, appealFee, appellants, money>>

(***************************************************************************)
(* The environment: token approvals and the passing of time.               *)
(***************************************************************************)

\* A customer changes the balance or the allowance the token knows: only
\* fundIntent reads it, so only a customer with an intent to fund matters.
Approve(a, t, n) ==
  /\ \E i \in Intents : state[i] = "AWAITING_FUNDS" /\ terms[i].customer = a /\ terms[i].token = t
  /\ spendable' = [spendable EXCEPT ![a][t] = n]
  /\ UNCHANGED <<nextIntentId, core, appealFee, appeals, pool, ledger, settledBy>>

Older(age, timeout) == IF age < timeout THEN age + 1 ELSE age

Tick ==
  /\ idle' = [i \in Intents |->
       IF state[i] \in {"FUNDED", "IN_DISPUTE"}
       THEN Older(idle[i], ABANDONMENT_TIMEOUT) ELSE idle[i]]
  /\ proposal' = [i \in Intents |->
       IF state[i] = "TIMELOCKED"
       THEN [proposal[i] EXCEPT !.age = Older(@, APPEAL_TIMELOCK)] ELSE proposal[i]]
  /\ UNCHANGED <<nextIntentId, terms, state, appealFee, appeals, money>>

Next ==
  \/ \E a, b \in Accounts, t \in Tokens, n \in Amounts : CreateIntent(a, b, t, n)
  \/ \E a \in Accounts, t \in Tokens, n \in Amounts : Approve(a, t, n)
  \/ \E a \in Accounts, f \in Fees : SetAppealFee(a, f)
  \/ \E i \in Intents :
       \/ FundIntent(i)
       \/ ExecuteAbandonment(i)
       \/ \E a \in Accounts :
            \/ RaiseDispute(i, a)
            \/ WithdrawStuckStake(i, a)
            \/ \E f \in Fees : EscalateAppeal(i, a, f)
            \/ \E c \in Splits(i) :
                 \/ SubmitAIProposal(i, a, c)
                 \/ \E ok \in BOOLEAN : ResolveHumanAppeal(i, a, c, ok)
                 \/ \E b \in Accounts : ExecuteWithSignatures(i, c, a, b)
  \/ Tick

Spec == Init /\ [][Next]_vars

(***************************************************************************)
(* Anyone may call executeAbandonment and the reconciliation worker does   *)
(* (workers/reconciliation.py:34-59), so it is fair; so is time.  Nobody   *)
(* owes the system a dispute, an appeal, a signature or a ruling.          *)
(***************************************************************************)
Fairness == WF_vars(Tick) /\ \A i \in Intents : WF_vars(ExecuteAbandonment(i))

FairSpec == Spec /\ Fairness

(***************************************************************************)
(* Properties.                                                             *)
(***************************************************************************)

\* Every variable stays within the type its Solidity declaration gives it.
TypeOK ==
  /\ nextIntentId \in 0 .. MaxIntents
  /\ terms \in [Intents -> Terms \cup {NoTerms}]
  /\ state \in [Intents -> IntentState]
  /\ idle \in [Intents -> 0 .. ABANDONMENT_TIMEOUT]
  /\ proposal \in [Intents -> [customerAmount : Nat, providerAmount : Nat,
                               age : 0 .. APPEAL_TIMELOCK,
                               proposedBy : Accounts \cup {NoOne}]]
  /\ appealFee \in Fees
  /\ appealStakes \in [Intents -> Nat]
  /\ appellants \in [Intents -> Accounts \cup {NoOne}]
  /\ pool \in [Tokens -> Nat]
  /\ ether \in Nat
  /\ spendable \in [Accounts -> [Tokens -> Nat]]
  /\ ledger \in [Intents -> [deposited : Nat, toCustomer : Nat, toProvider : Nat]]
  /\ settledBy \in [Intents -> {"nothing", "signatures", "human", "abandonment"}]
  /\ stakeSentTo \in [Intents -> Accounts \cup {NoOne}]

\* What intent i is owed out of the pooled balance of token t.
HeldIn(t, i) == IF state[i] \in Holding /\ terms[i].token = t THEN terms[i].totalAmount ELSE 0

\* The pooled balance of each token is exactly the sum of what the unresolved
\* funded intents hold: no interleaving of intents lets one be paid with the
\* money of another, and no payout reverts for lack of balance (sol:491-511,
\* and :347-390 which pays by itself).
Solvent == \A t \in Tokens : IsTotal(pool[t], [i \in Intents |-> HeldIn(t, i)], MaxIntents)

\* The contract's ether is exactly the sum of the stakes it has on record,
\* through refused refunds and owner withdrawals (sol:331, 366-386, 445-454).
StakesBacked == IsTotal(ether, appealStakes, MaxIntents)

\* An intent takes in its total once, and pays out its total once, by whichever
\* of the four ways it is resolved (the split-conservation and
\* no-double-resolution tests, t.sol:600-629, for every order of calls).
SettledInFull ==
  \A i \in Intents :
    /\ ledger[i].deposited = IF state[i] = "AWAITING_FUNDS" THEN 0 ELSE terms[i].totalAmount
    /\ ledger[i].toCustomer + ledger[i].toProvider =
         IF state[i] = "RESOLVED" THEN terms[i].totalAmount ELSE 0

\* A stake is never sent twice: once somebody got it, nothing is left on record,
\* whether the owner withdrew it before or after the ruling.
StakeSentOnce == \A i \in Intents : stakeSentTo[i] # NoOne => appealStakes[i] = 0

\* The three ways to settle keep out of each other's way: an intent that was
\* appealed is settled by the human only, one with a proposal that was not
\* appealed only after its whole appeal window, and one abandoned never had a
\* proposal and went back to the customer whole.
SettlementRoute ==
  \A i \in Intents :
    /\ state[i] = "RESOLVED" /\ appellants[i] # NoOne => settledBy[i] = "human"
    /\ settledBy[i] = "human" => appellants[i] \in Parties(i)
    /\ settledBy[i] = "signatures" /\ proposal[i].proposedBy # NoOne => WindowClosed(i)
    /\ settledBy[i] = "abandonment" =>
         /\ proposal[i].proposedBy = NoOne
         /\ ledger[i].toCustomer = terms[i].totalAmount

\* Money whose parties and arbitrator all fall silent is not locked: a funded
\* or disputed intent always leaves those states (sol:394-396).
SilenceReleasesFunds ==
  \A i \in Intents : state[i] \in {"FUNDED", "IN_DISPUTE"} ~> state[i] \notin {"FUNDED", "IN_DISPUTE"}

\* The abstract escrow: open, holding, settled once (module EscrowPromise).
Stage(s) ==
  IF s = "AWAITING_FUNDS" THEN "open" ELSE IF s = "RESOLVED" THEN "settled" ELSE "holding"

Promise == INSTANCE EscrowPromise WITH
  Jobs <- Intents,
  stage <- [i \in Intents |-> Stage(state[i])],
  taken <- [i \in Intents |-> ledger[i].deposited],
  customerGot <- [i \in Intents |-> ledger[i].toCustomer],
  providerGot <- [i \in Intents |-> ledger[i].toProvider]

\* The contract implements the abstract escrow.
ImplementsPromise == Promise!Spec
=============================================================================
