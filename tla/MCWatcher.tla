----------------------------- MODULE MCWatcher -----------------------------
(***************************************************************************)
(* Instances for TLC of the two components that follow the escrow's logs,  *)
(* as far as their safety goes: Disputes with two requests, and            *)
(* ChainEvents with two jobs, or with one job and one transaction more.    *)
(* The first state says which runs; what does not run keeps its first      *)
(* values meanwhile.                                                       *)
(***************************************************************************)
EXTENDS MCDisputes, ChainEvents, TLC

CONSTANTS j1, j2, j3, a1, a2, a3

VARIABLE part

\* How large ChainEvents is in each of its two parts, within the constants.
TwoJobs == [jobs |-> {j1, j2}, amounts |-> {a1, a2}, routes |-> {"FUND", "RELEASE"},
            txs |-> 2, failed |-> 1]
OneJob == [jobs |-> {j3}, amounts |-> {a3}, routes |-> {"FUND", "SUBMIT"},
           txs |-> 3, failed |-> 0]

\* A step in which no other job, route or amount takes part.
Within(size) ==
  /\ sent' <= size.txs
  /\ sent' - Len(logs') <= size.failed
  /\ \A n \in DOMAIN logs' : logs'[n].amount \in size.amounts
  /\ \A d \in Directions, h \in Hashes :
       payment'[d][h] # payment[d][h] => d \in size.routes /\ payment'[d][h].job \in size.jobs
  /\ \A j \in Jobs \ size.jobs : jobState'[j] = jobState[j] /\ expired'[j] = expired[j]

PartsInit ==
  /\ Init /\ FundingInit
  /\ part \in {"dispute", "one job", "two jobs"}
  /\ {amount[j1], amount[j2]} \subseteq {a1, a2} /\ amount[j3] = a3
  /\ part # "two jobs" => amount[j1] = amount[j2]

PartsNext ==
  /\ UNCHANGED part
  /\ \/ part = "dispute" /\ Next /\ UNCHANGED fundingVars
     \/ part = "one job" /\ FundingNext /\ Within(OneJob) /\ UNCHANGED vars
     \/ part = "two jobs" /\ FundingNext /\ Within(TwoJobs) /\ UNCHANGED vars

PartsSpec == PartsInit /\ [][PartsNext]_<<part, vars, fundingVars>>

\* Amounts are only compared, and two of the jobs are alike.
Symmetry == Permutations({j1, j2}) \cup Permutations({a1, a2})
=============================================================================
