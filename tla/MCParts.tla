------------------------------ MODULE MCParts -------------------------------
(***************************************************************************)
(* Five components that are small by themselves, side by side for TLC:     *)
(* Posts, Leader and Ladder, whose names are their own, and instances of   *)
(* RequestLocks and ChainEvents, whose variables are v1 .. v13, in the     *)
(* order of their VARIABLES.  The first state says which one runs, and the *)
(* variables of the others keep their first values meanwhile.              *)
(***************************************************************************)
EXTENDS Posts, Leader, Ladder, TLC

CONSTANTS
  r1, r2, r3, r4, task,      \* requests, a background task
  j1, j2, a1,                \* jobs, an amount
  key, x, y,                 \* an Idempotency-Key, two payloads
  f1                         \* a photo

VARIABLES part, v1, v2, v3, v4, v5, v6, v7, v8, v9, v10, v11, v12, v13

From6 == <<v6, v7, v8, v9, v10, v11, v12, v13>>
others == <<v1, v2, v3, v4, v5, From6>>

\* Not used by the component that runs.
Unused6 ==
  /\ v6 = Nothing /\ v7 = Nothing /\ v8 = Nothing /\ v9 = Nothing /\ v10 = Nothing
  /\ v11 = Nothing /\ v12 = Nothing /\ v13 = Nothing
Unused1 == v1 = Nothing /\ v2 = Nothing /\ v3 = Nothing /\ v4 = Nothing /\ v5 = Nothing /\ Unused6

\* Posts: three requests with one key, of which one has another payload, and one
\* without a key.
PostKey == r1 :> key @@ r2 :> key @@ r3 :> key @@ r4 :> NoKey
PostPayload == r1 :> x @@ r2 :> x @@ r3 :> y @@ r4 :> x

\* Two requests that may be refused and a background task share two connections and two
\* rows; the database terminates one connection.
L == INSTANCE RequestLocks WITH
  Requests <- {r1, r2}, Background <- {task}, Jobs <- {j1, j2}, Free <- Nothing,
  PoolSize <- 2, MaxTerminated <- 1, pc <- v1, job <- v2, conns <- v3, holder <- v4,
  terminated <- v5

\* One job, three transactions; polls stop failing at some time.
C == INSTANCE ChainEvents WITH
  Jobs <- {j1}, NoJob <- Nothing, Amounts <- {a1}, LogRange <- 2, MaxTxs <- 3, MaxFailed <- 0,
  Terms <- {Nothing}, Released <- {}, Submitted <- {},
  jobState <- v1, amount <- v2, intentOf <- v3, expired <- v4, offered <- v5, payment <- v6,
  seen <- v7, cursor <- v8, sweep <- v9, sent <- v10, logs <- v11, fundedBy <- v12, skipped <- v13

ASSUME PartsAssumption == L!TasksAssumption /\ L!SizesAssumption

\* One job of the ladder, when the ladder does not run.
AnyJob == amount = 3 /\ category = "NO_SHOW" /\ \A e \in evidence : e.file = f1

PartsInit ==
  /\ Init /\ LeaderInit /\ LadderInit
  /\ \/ part = "posts" /\ AnyJob /\ Unused1
     \/ part = "leader" /\ AnyJob /\ Unused1
     \/ part = "ladder" /\ Unused1
     \/ part = "locks" /\ AnyJob /\ L!Init /\ Unused6
     \/ part = "funding" /\ AnyJob /\ C!FundingInit

PartsNext ==
  /\ UNCHANGED part
  /\ \/ part = "posts" /\ Next /\ UNCHANGED <<leaderVars, ladderVars, others>>
     \/ part = "leader" /\ LeaderNext /\ UNCHANGED <<vars, ladderVars, others>>
     \/ part = "ladder" /\ LadderNext /\ UNCHANGED <<vars, leaderVars, others>>
     \/ part = "locks" /\ L!Next /\ UNCHANGED <<vars, leaderVars, ladderVars, From6>>
     \/ part = "funding" /\ C!FundingNext /\ UNCHANGED <<vars, leaderVars, ladderVars>>

locksVars == L!vars
fundingVars == C!fundingVars

\* The fairness of the components that have liveness properties, while they run.
PartsFairness ==
  /\ \A w \in L!Tasks :
       /\ WF_locksVars(part = "locks" /\ L!Step(w))
       /\ SF_locksVars(part = "locks" /\ L!Connect(w))
       /\ SF_locksVars(part = "locks" /\ L!Lock(w))
  /\ \A i \in Instances : WF_leaderVars(part = "leader" /\ Step(i))
  /\ WF_fundingVars(part = "funding" /\ C!Poll)
  /\ <>[][~ (part = "funding" /\ C!PollFails)]_fundingVars

PartsSpec == PartsInit /\ [][PartsNext]_<<part, vars, leaderVars, ladderVars, others>> /\ PartsFairness

(***************************************************************************)
(* The liveness properties, as the modules state them, each for its part.  *)
(***************************************************************************)

\* RequestLocks: nobody waits for ever for a connection or a row, unless a refused
\* request is waiting for its own row.
TasksFinish ==
  \A w \in {r1, r2, task} :
    part = "locks" /\ v1[w] # "idle" ~>
      (part = "locks" => v1[w] \in {"answered", "idle"} \/ L!WaitsForItself)

\* Leader: the lock passes on; with instances that come and go, some instance runs
\* the workers again and again (runner.py:45-57).
SomebodyWorks == []<>(part = "leader" => SomeoneWorks)

\* ChainEvents: an IntentFunded log that is read after its job was bound to the
\* intent ends FUNDING (chain_events.py:50-64).
FundingIsRecorded ==
  \A h \in C!Hashes :
    part = "funding" /\ C!Unnoticed(j1, h) ~>
      (part = "funding" => v1[j1] # "FUNDING" \/ ~ C!IsBoundTo(j1, h) \/ h \in v13)

\* ChainEvents: a createIntent that is reported before its log is read gets its job
\* bound, however late the sweep is (chain_events.py:39-47).
ReportedIntentIsBound ==
  \A h \in C!Hashes :
    part = "funding" /\ C!ReportedUnread(j1, h) ~>
      (part = "funding" => C!IsBoundTo(j1, h) \/ h \in v13 \/ C!JobsReporting(h) # {j1})
=============================================================================
