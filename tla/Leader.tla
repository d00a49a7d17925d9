------------------------------- MODULE Leader -------------------------------
(***************************************************************************)
(* Which instance runs the worker loops: a session-level advisory lock of  *)
(* the database, and the campaign for it (workers/leader.py, runner.py).   *)
(* Its names are its own, so that it can stand beside other components.    *)
(*                                                                         *)
(* An operator marked Fault is a plausible error in the function that      *)
(* follows it; nothing uses it but the mutation tests of the properties.   *)
(***************************************************************************)
EXTENDS Naturals, FiniteSets

CONSTANTS
  Instances,    \* processes of the API
  Free,         \* the lock is held by no session
  MaxLosses,    \* connections that are lost (bound)
  MaxDeploys    \* times an instance is stopped or dies (bound)

ASSUME FreeAssumption == IsFiniteSet(Instances) /\ Free \notin Instances
ASSUME LimitsAssumption == MaxLosses \in Nat /\ MaxDeploys \in Nat

VARIABLES
  holder,      \* external: the session that holds the advisory lock
  connection,  \* Leadership.connection of an instance: held, as it believes
  campaign,    \* "campaigning", "leading" or "over"
  workers,     \* the three loops run
  losses,      \* connections lost so far
  deploys      \* stops and deaths so far

leaderVars == <<holder, connection, campaign, workers, losses, deploys>>

LeaderInit ==
  /\ holder = Free
  /\ connection = [p \in Instances |-> FALSE]
  /\ campaign = [p \in Instances |-> "campaigning"]
  /\ workers = [p \in Instances |-> FALSE]
  /\ losses = 0 /\ deploys = 0

\* Fault: what pg_try_advisory_lock says is not looked at.
AcquireAnyway(p) ==
  /\ campaign[p] = "campaigning"
  /\ holder' = IF holder = Free THEN p ELSE holder
  /\ connection' = [connection EXCEPT ![p] = TRUE]
  /\ campaign' = [campaign EXCEPT ![p] = "leading"]
  /\ workers' = [workers EXCEPT ![p] = TRUE]
  /\ UNCHANGED <<losses, deploys>>

\* acquire and _start_loops: the campaign ends with the first success.
Acquire(p) ==
  /\ campaign[p] = "campaigning"
  /\ holder = Free
  /\ holder' = p
  /\ connection' = [connection EXCEPT ![p] = TRUE]
  /\ campaign' = [campaign EXCEPT ![p] = "leading"]
  /\ workers' = [workers EXCEPT ![p] = TRUE]
  /\ UNCHANGED <<losses, deploys>>

\* The connection that holds the lock breaks: the database frees the lock, and
\* nothing in the instance looks.
LoseConnection(p) ==
  /\ holder = p
  /\ losses < MaxLosses
  /\ losses' = losses + 1
  /\ holder' = Free
  /\ UNCHANGED <<connection, campaign, workers, deploys>>

\* stop: no more campaigning; the loops finish what they are at.
Stop(p) ==
  /\ campaign[p] # "over"
  /\ deploys < MaxDeploys
  /\ deploys' = deploys + 1
  /\ campaign' = [campaign EXCEPT ![p] = "over"]
  /\ UNCHANGED <<holder, connection, workers, losses>>

LoopsFinish(p) ==
  /\ campaign[p] = "over"
  /\ workers[p]
  /\ workers' = [workers EXCEPT ![p] = FALSE]
  /\ UNCHANGED <<holder, connection, campaign, losses, deploys>>

\* Fault: the lock is released before the loops are done.
ReleaseAtOnce(p) ==
  /\ campaign[p] = "over"
  /\ connection[p]
  /\ connection' = [connection EXCEPT ![p] = FALSE]
  /\ holder' = IF holder = p THEN Free ELSE holder
  /\ UNCHANGED <<campaign, workers, losses, deploys>>

\* Fault: the lock is kept.
KeepLock(p) ==
  /\ campaign[p] = "over"
  /\ ~ workers[p]
  /\ connection[p]
  /\ connection' = [connection EXCEPT ![p] = FALSE]
  /\ UNCHANGED <<holder, campaign, workers, losses, deploys>>

\* release, after the loops.
Release(p) ==
  /\ campaign[p] = "over"
  /\ ~ workers[p]
  /\ connection[p]
  /\ connection' = [connection EXCEPT ![p] = FALSE]
  /\ holder' = IF holder = p THEN Free ELSE holder
  /\ UNCHANGED <<campaign, workers, losses, deploys>>

\* The process dies, and its connection with it; the platform starts it again.
Die(p) ==
  /\ deploys < MaxDeploys
  /\ deploys' = deploys + 1
  /\ holder' = IF holder = p THEN Free ELSE holder
  /\ connection' = [connection EXCEPT ![p] = FALSE]
  /\ campaign' = [campaign EXCEPT ![p] = "campaigning"]
  /\ workers' = [workers EXCEPT ![p] = FALSE]
  /\ UNCHANGED losses

\* The instance is started again.
Start(p) ==
  /\ campaign[p] = "over"
  /\ ~ connection[p] /\ ~ workers[p]
  /\ campaign' = [campaign EXCEPT ![p] = "campaigning"]
  /\ UNCHANGED <<holder, connection, workers, losses, deploys>>

\* A step of the instance itself; refusals and errors of the campaign change nothing.
Step(p) == Acquire(p) \/ LoopsFinish(p) \/ Release(p) \/ Start(p)
LeaderNext == \E p \in Instances : Step(p) \/ LoseConnection(p) \/ Stop(p) \/ Die(p)

LeaderSpec == LeaderInit /\ [][LeaderNext]_leaderVars

LeaderFairSpec == LeaderSpec /\ \A p \in Instances : WF_leaderVars(Step(p))

(***************************************************************************)
(* Properties.                                                             *)
(***************************************************************************)

Working == {p \in Instances : workers[p]}

\* A deploy never doubles the workers: two instances run them only after the
\* connection with the lock was lost, once for each loss (leader.py:1).
DoubledByLossOnly == Cardinality(Working) <= 1 + losses

\* Some instance runs the workers.
SomeoneWorks == Working # {}
=============================================================================
