---------------------------- MODULE RequestLocks ----------------------------
(***************************************************************************)
(* What the backend's tasks wait for: a connection of the pool and the     *)
(* FOR UPDATE lock of a transactions row.                                  *)
(*                                                                         *)
(* A request that changes a job opens one database transaction, locks the  *)
(* row (machine.lock), asks policy (transactions/policy.py), and commits   *)
(* or rolls back.  The watcher and reconciliation lock rows the same way   *)
(* and ask nobody.  A refusal is written to the audit trail by             *)
(* note_out_of_band on a second connection, before the first transaction   *)
(* ends; the audit row's foreign key makes that insert take FOR KEY SHARE  *)
(* on the row, which waits for another connection's FOR UPDATE.            *)
(*                                                                         *)
(* An operator marked Fault is a plausible error in the function that      *)
(* follows it; nothing uses it but the mutation tests of the properties.   *)
(***************************************************************************)
EXTENDS Integers, FiniteSetsExt

CONSTANTS
  Requests,     \* requests, each made once
  Background,   \* tasks that come back for ever: watcher, reconciliation
  Jobs,         \* rows of transactions
  Free,         \* no holder
  PoolSize,     \* pool_size + max_overflow
  MaxTerminated \* connections the database may terminate (bound)

TasksAssumption == Requests \cap Background = {} /\ Free \notin Requests \cup Background
SizesAssumption == PoolSize \in Nat \ {0} /\ MaxTerminated \in Nat

VARIABLES
  pc,          \* where each task is
  job,         \* the row it works on
  conns,       \* connections it has checked out
  holder,      \* the task whose connection holds the row FOR UPDATE
  terminated   \* connections terminated so far

vars == <<pc, job, conns, holder, terminated>>

Tasks == Requests \cup Background
InUse == MapThenSumSet(LAMBDA w : conns[w], Tasks)
Resting(w) == IF w \in Requests THEN "answered" ELSE "idle"

Init ==
  /\ pc = [w \in Tasks |-> "idle"]
  /\ job \in [Tasks -> Jobs]
  /\ conns = [w \in Tasks |-> 0]
  /\ holder = [j \in Jobs |-> Free]
  /\ terminated = 0

Goto(w, place) == pc' = [pc EXCEPT ![w] = place]

\* Fault: the session is not closed on the way out.
KeepSession(w) == UNCHANGED <<conns, holder>>

\* session_scope ends: commit or rollback, the lock and the connection go back.
CloseSession(w) ==
  /\ conns' = [conns EXCEPT ![w] = 0]
  /\ holder' = [j \in Jobs |-> IF holder[j] = w THEN Free ELSE holder[j]]

\* Background tasks go from row to row; a request is for one row.
Begin(w, j) ==
  /\ pc[w] = "idle"
  /\ w \in Requests => j = job[w]
  /\ job' = [job EXCEPT ![w] = j]
  /\ Goto(w, "connecting")
  /\ UNCHANGED <<conns, holder, terminated>>

Connect(w) ==
  /\ pc[w] = "connecting"
  /\ InUse < PoolSize
  /\ conns' = [conns EXCEPT ![w] = 1]
  /\ Goto(w, "locking")
  /\ UNCHANGED <<job, holder, terminated>>

\* Thirty seconds without a connection: the request fails, a loop tries later.
ConnectTimesOut(w) ==
  /\ pc[w] = "connecting"
  /\ InUse >= PoolSize
  /\ Goto(w, Resting(w))
  /\ UNCHANGED <<job, conns, holder, terminated>>

Lock(w) ==
  /\ pc[w] = "locking"
  /\ holder[job[w]] = Free
  /\ holder' = [holder EXCEPT ![job[w]] = w]
  /\ Goto(w, "deciding")
  /\ UNCHANGED <<job, conns, terminated>>

\* ALLOW, or no policy to ask: the change and its audit row commit.
Allow(w) ==
  /\ pc[w] = "deciding"
  /\ CloseSession(w)
  /\ Goto(w, Resting(w))
  /\ UNCHANGED <<job, terminated>>

\* BLOCK or ASK: note_out_of_band opens a session of its own.
Refuse(w) ==
  /\ w \in Requests
  /\ pc[w] = "deciding"
  /\ Goto(w, "noting")
  /\ UNCHANGED <<job, conns, holder, terminated>>

NoteConnect(w) ==
  /\ pc[w] = "noting"
  /\ InUse < PoolSize
  /\ conns' = [conns EXCEPT ![w] = @ + 1]
  /\ Goto(w, "inserting")
  /\ UNCHANGED <<job, holder, terminated>>

\* The note gives up without a connection, and its error is swallowed.
NoteTimesOut(w) ==
  /\ pc[w] = "noting"
  /\ InUse >= PoolSize
  /\ Goto(w, "raising")
  /\ UNCHANGED <<job, conns, holder, terminated>>

\* The key-share lock of the insert waits for every FOR UPDATE on the row: the
\* request's own first connection is another transaction to the database.
InsertNote(w) ==
  /\ pc[w] = "inserting"
  /\ holder[job[w]] = Free
  /\ conns' = [conns EXCEPT ![w] = @ - 1]
  /\ Goto(w, "raising")
  /\ UNCHANGED <<job, holder, terminated>>

RaiseRefusal(w) ==
  /\ pc[w] = "raising"
  /\ CloseSession(w)
  /\ Goto(w, Resting(w))
  /\ UNCHANGED <<job, terminated>>

\* The database ends the connection of a request that sits in a transaction.
\* The task learns of it when it next uses the connection.
Terminate(w) ==
  /\ pc[w] = "inserting"
  /\ holder[job[w]] = w
  /\ terminated < MaxTerminated
  /\ terminated' = terminated + 1
  /\ holder' = [holder EXCEPT ![job[w]] = Free]
  /\ UNCHANGED <<pc, job, conns>>

Step(w) ==
  \/ Connect(w)
  \/ ConnectTimesOut(w)
  \/ Lock(w)
  \/ Allow(w)
  \/ Refuse(w)
  \/ NoteConnect(w)
  \/ NoteTimesOut(w)
  \/ InsertNote(w)
  \/ RaiseRefusal(w)

Next ==
  \/ \E w \in Tasks, j \in Jobs : Begin(w, j)
  \/ \E w \in Tasks : Step(w) \/ Terminate(w)

Spec == Init /\ [][Next]_vars

(***************************************************************************)
(* The event loop runs every task that can go on.  The pool and the row    *)
(* lock serve their waiters in order, so a task that can have either again *)
(* and again gets it: strong fairness.                                     *)
(***************************************************************************)
Fairness == \A w \in Tasks : WF_vars(Step(w)) /\ SF_vars(Connect(w)) /\ SF_vars(Lock(w))

FairSpec == Spec /\ Fairness

(***************************************************************************)
(* Properties.                                                             *)
(***************************************************************************)

\* However small the pool, nobody waits for ever: every request is answered and
\* every background task gets back to its loop, unless a refused request is
\* waiting for its own row.
WaitsForItself == \E v \in Requests : pc[v] = "inserting" /\ holder[job[v]] = v
TasksFinish == \A w \in Tasks : pc[w] # "idle" ~> pc[w] \in {"answered", "idle"} \/ WaitsForItself

(***************************************************************************)
(* A statement of the documentation that the code does not meet.           *)
(***************************************************************************)

\* "BLOCK and ASK are recorded in the trail and then raised as 403 or 409"
\* (transactions/policy.py:45): a refusal reaches its caller.
RefusalsAreRaised == \A w \in Requests : pc[w] = "noting" ~> pc[w] = "answered"
=============================================================================
