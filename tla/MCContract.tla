----------------------------- MODULE MCContract -----------------------------
(***************************************************************************)
(* Instances for TLC of Settlement, the contract with the backend around   *)
(* it, and of the contract alone, whose functions the backend does not     *)
(* call are called too.  The first state says which runs; c1 .. c14 are    *)
(* the variables of the latter, in the order of its VARIABLES.  What does  *)
(* not run keeps its first values meanwhile.                               *)
(***************************************************************************)
EXTENDS Settlement

VARIABLES part, c1, c2, c3, c4, c5, c6, c7, c8, c9, c10, c11, c12, c13, c14

\* One intent, every split of up to three units, timeouts of several ticks.
E == INSTANCE IntentraEscrow WITH
  Accounts <- {Customer, Provider, Arbitrator, Human}, AiArbitrator <- Arbitrator, Owner <- Human,
  Tokens <- {Usdc}, Amounts <- {1, 2, 3}, Fees <- {0, 1}, MaxIntents <- 1,
  ABANDONMENT_TIMEOUT <- 3, APPEAL_TIMELOCK <- 2,
  nextIntentId <- c1, terms <- c2, state <- c3, idle <- c4, proposal <- c5, appealFee <- c6,
  appealStakes <- c7, appellants <- c8, pool <- c9, ether <- c10, spendable <- c11,
  ledger <- c12, settledBy <- c13, stakeSentTo <- c14

others == <<c1, c2, c3, c4, c5, c6, c7, c8, c9, c10, c11, c12, c13, c14>>

PartsInit == part \in {"settlement", "contract"} /\ Init /\ E!Init

PartsNext ==
  /\ UNCHANGED part
  /\ \/ part = "settlement" /\ Next /\ UNCHANGED others
     \/ part = "contract" /\ E!Next /\ UNCHANGED vars

\* The fairness of each, while it runs.
PartsFairness ==
  /\ WF_vars(part = "settlement" /\ Tick)
  /\ WF_vars(part = "settlement" /\ Reconcile)
  /\ WF_vars(part = "settlement" /\ Watch)
  /\ \A k \in Kind :
       /\ WF_vars(part = "settlement" /\ Send(k))
       /\ SF_vars(part = "settlement" /\ Mine(k))
  /\ <>[][~ (part = "settlement" /\ ReleaseExecute)]_vars
  /\ WF_others(part = "contract" /\ E!Tick)
  /\ WF_others(part = "contract" /\ E!ExecuteAbandonment(Intent))

PartsSpec == PartsInit /\ [][PartsNext]_<<part, vars, others>> /\ PartsFairness

(***************************************************************************)
(* What ends although everybody is silent.                                 *)
(***************************************************************************)

\* Settlement: money everybody has forgotten leaves the escrow, through refused,
\* reverted and lost transactions and disputes that restart the contract's clock,
\* unless the job was escalated to a human (reconciliation.py:34-59).
ForgottenMoneyLeaves ==
  part = "settlement" /\ HoldsMoney ~> (part = "settlement" => ~ HoldsMoney \/ state = "ESCALATED")

\* The contract: money whose parties and arbitrator all fall silent is not locked,
\* a funded or disputed intent always leaves those states (sol:394-396).
SilenceReleasesFunds == E!SilenceReleasesFunds
=============================================================================
