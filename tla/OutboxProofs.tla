---------------------------- MODULE OutboxProofs ----------------------------
(***************************************************************************)
(* For any number of processes, rows, failed calls and crashes: a row goes *)
(* out once, and once more for every hash that was lost, and the verdict   *)
(* on it is the chain's.                                                   *)
(*                                                                         *)
(* The invariant says that a row that is being sent is QUEUED, has no hash *)
(* yet and one sender, and that whoever judges a row has a hash of it.     *)
(***************************************************************************)
EXTENDS Outbox, FiniteSetTheorems, SequenceTheorems, TLAPS

Place == {"start", "idle", "loop", "built", "sent", "waiting", "rechecking", "found", "givingUp",
          "dead"}
Outcome == {"pending", "success", "reverted", "dropped"}
Tx == [row : Rows, outcome : Outcome]

\* The type invariant of the rows and the tasks.
TypeOK ==
  /\ status \in [Rows -> Status]
  /\ sentAs \in [Rows -> 0 .. Len(txs)]
  /\ overdue \in [Rows -> BOOLEAN]
  /\ txs \in Seq(Tx)
  /\ accepts \in [Rows -> BOOLEAN]
  /\ pc \in [Workers -> Place]
  /\ at \in [Workers -> Rows \cup {0}]
  /\ todo \in [Workers -> SUBSET Rows]
  /\ hash \in [Instances -> Nat]
  /\ lost \in [Rows -> Nat]

\* The sender p is between choosing row r and recording its hash.
Holds(p, r) == pc[Sender(p)] \in {"built", "sent"} /\ at[Sender(p)] = r
Broadcast(r) == \E p \in Instances : pc[Sender(p)] = "sent" /\ at[Sender(p)] = r
Judged == {"SENT", "MINED", "FAILED", "STUCK"}

\* A row has a hash from SENT on, and the hash is one of its transactions.
HashesOK ==
  \A r \in Rows :
    /\ status[r] \in {"ABSENT", "QUEUED"} => sentAs[r] = 0
    /\ status[r] = "SENT" => sentAs[r] # 0
    /\ sentAs[r] # 0 => txs[sentAs[r]].row = r

\* A row has one sender, and is QUEUED as long as it has it.
SendersOK ==
  \A p \in Instances :
    /\ pc[Sender(p)] \in {"built", "sent"} =>
         at[Sender(p)] \in Rows /\ status[at[Sender(p)]] = "QUEUED"
    /\ pc[Sender(p)] = "sent" =>
         hash[p] \in DOMAIN txs /\ txs[hash[p]].row = at[Sender(p)]
    /\ \A q \in Instances, r \in Rows : Holds(p, r) /\ Holds(q, r) => p = q

\* Who waits for a receipt, or has one, has it of a row with a hash.
JudgesOK ==
  \A w \in Workers :
    /\ pc[w] \in {"waiting", "found", "givingUp"} => at[w] \in Rows /\ sentAs[at[w]] # 0
    /\ \A r \in todo[w] : sentAs[r] # 0

\* Transactions of a row beyond the one on record were lost or are on their way.
CountOK ==
  \A r \in Rows :
    /\ Cardinality(TxsOf(r)) <= 1 + lost[r]
    /\ sentAs[r] = 0 /\ ~ Broadcast(r) => Cardinality(TxsOf(r)) <= lost[r]

\* The verdicts, in the form a step preserves.
VerdictsOK ==
  \A r \in Rows :
    /\ status[r] = "MINED" => Succeeded(r)
    /\ status[r] = "FAILED" /\ lost[r] = 0 => \A h \in TxsOf(r) : txs[h].outcome = "reverted"

RowsOK == TypeOK /\ HashesOK /\ SendersOK /\ JudgesOK
OutboxInv == RowsOK /\ CountOK /\ VerdictsOK

\* Tasks are told apart by process and kind.
LEMMA Tasks ==
  /\ \A p \in Instances :
       /\ Sender(p) \in Workers /\ Reconciler(p) \in Workers
       /\ IsSender(Sender(p)) /\ ~ IsSender(Reconciler(p))
  /\ \A p, q \in Instances : Sender(p) = Sender(q) => p = q
BY DEF Sender, Reconciler, Workers, IsSender

\* The transactions of a row are finitely many.
LEMMA TxsFinite ==
  ASSUME TypeOK, NEW r \in Rows
  PROVE  IsFiniteSet(TxsOf(r)) /\ Cardinality(TxsOf(r)) \in Nat
<1>1. Len(txs) \in Nat /\ DOMAIN txs = 1 .. Len(txs)
  BY DEF TypeOK
<1>2. IsFiniteSet(1 .. Len(txs))
  BY <1>1, FS_Interval
<1>3. TxsOf(r) \in SUBSET (1 .. Len(txs))
  BY <1>1 DEF TxsOf
<1>4. IsFiniteSet(TxsOf(r))
  BY <1>2, <1>3, FS_Subset
<1> QED
  BY <1>4, FS_CardinalityType

\* The pending nonce counts transactions.
LEMMA NonceType == ASSUME TypeOK PROVE Nonce \in Nat
<1>1. Len(txs) \in Nat /\ DOMAIN txs = 1 .. Len(txs)
  BY DEF TypeOK
<1>2. IsFiniteSet(1 .. Len(txs))
  BY <1>1, FS_Interval
<1>3. {h \in DOMAIN txs : txs[h].outcome # "dropped"} \in SUBSET (1 .. Len(txs))
  BY <1>1
<1>4. IsFiniteSet({h \in DOMAIN txs : txs[h].outcome # "dropped"})
  BY <1>2, <1>3, FS_Subset
<1> QED
  BY <1>4, FS_CardinalityType DEF Nonce

LEMMA InvInit == Init => OutboxInv
<1> SUFFICES ASSUME Init PROVE OutboxInv
  OBVIOUS
<1>0. txs = <<>> /\ Len(txs) = 0 /\ DOMAIN txs = {} /\ txs \in Seq(Tx)
  BY DEF Init
<1>1. TypeOK
  BY <1>0 DEF Init, TypeOK, Status, Place, Beginning
<1>2. HashesOK /\ SendersOK /\ JudgesOK
  BY Tasks, RowsAssumption DEF Init, HashesOK, SendersOK, JudgesOK, Beginning, Holds, Rows
<1>3. \A r \in Rows : TxsOf(r) = {}
  BY <1>0 DEF TxsOf
<1>4. CountOK
  <2>1. \A r \in Rows : Cardinality(TxsOf(r)) = 0 /\ lost[r] = 0
    BY <1>3, FS_EmptySet DEF Init
  <2> QED
    BY <2>1 DEF CountOK
<1>5. VerdictsOK
  BY <1>3 DEF Init, VerdictsOK
<1> QED
  BY <1>1, <1>2, <1>4, <1>5 DEF OutboxInv, RowsOK

(***************************************************************************)
(* What a step keeps that sends nothing.                                   *)
(***************************************************************************)

\* The same transactions, whatever became of those that were pending.
SameTxs ==
  /\ DOMAIN txs' = DOMAIN txs
  /\ \A h \in DOMAIN txs :
       /\ txs'[h].row = txs[h].row
       /\ txs[h].outcome # "pending" => txs'[h].outcome = txs[h].outcome

\* No hash is forgotten that is not counted as lost.
HashesCount ==
  \A r \in Rows :
    /\ lost'[r] \in Nat /\ lost'[r] >= lost[r]
    /\ sentAs'[r] = 0 => sentAs[r] = 0
    /\ Broadcast(r) /\ sentAs'[r] = 0 => Broadcast(r)' \/ lost'[r] > lost[r]

LEMMA CountKept ==
  ASSUME TypeOK, CountOK, SameTxs, HashesCount
  PROVE  CountOK'
<1> SUFFICES ASSUME NEW r \in Rows
             PROVE  /\ Cardinality(TxsOf(r)') <= 1 + lost'[r]
                    /\ sentAs'[r] = 0 /\ ~ Broadcast(r)' => Cardinality(TxsOf(r)') <= lost'[r]
  BY DEF CountOK
<1>1. TxsOf(r)' = TxsOf(r)
  BY DEF SameTxs, TxsOf
<1>2. Cardinality(TxsOf(r)) \in Nat /\ lost[r] \in Nat
  BY TxsFinite DEF TypeOK
<1> QED
  BY <1>1, <1>2 DEF CountOK, HashesCount

\* No row gets a verdict.
NoVerdict ==
  \A r \in Rows : status'[r] = status[r] \/ status'[r] \notin {"MINED", "FAILED"}

LEMMA VerdictsKept ==
  ASSUME TypeOK, VerdictsOK, SameTxs, NoVerdict, \A r \in Rows : lost'[r] \in Nat /\ lost'[r] >= lost[r]
  PROVE  VerdictsOK'
<1> SUFFICES ASSUME NEW r \in Rows
             PROVE  /\ status'[r] = "MINED" => Succeeded(r)'
                    /\ status'[r] = "FAILED" /\ lost'[r] = 0 =>
                         \A h \in TxsOf(r)' : txs'[h].outcome = "reverted"
  BY DEF VerdictsOK
<1>1. TxsOf(r)' = TxsOf(r) /\ TxsOf(r) \subseteq DOMAIN txs
  BY DEF SameTxs, TxsOf
<1>2. lost[r] \in Nat
  BY DEF TypeOK
<1>3. ASSUME status[r] = "MINED" PROVE Succeeded(r)'
  BY <1>1, <1>3 DEF VerdictsOK, Succeeded, SameTxs
<1>4. ASSUME status[r] = "FAILED", lost'[r] = 0, NEW h \in TxsOf(r)
      PROVE  txs'[h].outcome = "reverted"
  BY <1>1, <1>2, <1>4 DEF VerdictsOK, SameTxs
<1> QED
  BY <1>1, <1>3, <1>4 DEF NoVerdict

(***************************************************************************)
(* The steps, one lemma each: the parts a step disturbs are shown for the  *)
(* step itself, the counts and the verdicts come from the lemmas above.    *)
(***************************************************************************)

LEMMA QueueKeeps ==
  ASSUME OutboxInv, NEW r \in Rows, NEW b \in BOOLEAN, Queue(r, b)
  PROVE  OutboxInv'
<1> USE DEF OutboxInv, RowsOK
<1>1. TypeOK'
  BY Tasks DEF TypeOK, Queue, SetStatus, Status, Place, tasks, faults
<1>2. HashesOK'
  BY DEF TypeOK, HashesOK, Queue, SetStatus
<1>3. SendersOK'
  BY Tasks DEF TypeOK, SendersOK, Holds, Queue, SetStatus, tasks
<1>4. JudgesOK'
  BY Tasks DEF TypeOK, JudgesOK, HashesOK, Queue, tasks
<1>5. SameTxs
  BY DEF SameTxs, TypeOK, Queue
<1>6. HashesCount
  BY Tasks DEF TypeOK, HashesCount, Broadcast, Queue, tasks, faults
<1>7. NoVerdict
  BY DEF NoVerdict, TypeOK, Queue, SetStatus
<1> QED
  BY <1>1, <1>2, <1>3, <1>4, <1>5, <1>6, <1>7, CountKept, VerdictsKept DEF HashesCount

LEMMA BuildKeeps ==
  ASSUME OutboxInv, NEW p \in Instances, NEW r \in Rows, Build(p, r)
  PROVE  OutboxInv'
<1> USE DEF OutboxInv, RowsOK
<1>1. TypeOK'
  BY Tasks, NonceType DEF TypeOK, Build, Goto, Place, rows, chain, faults
<1>2. HashesOK'
  BY DEF TypeOK, HashesOK, Build, Oldest, Locked, rows, chain
<1>3. SendersOK'
  BY Tasks DEF TypeOK, SendersOK, Holds, Build, Goto, Oldest, Locked, rows, chain
<1>4. JudgesOK'
  BY Tasks DEF TypeOK, JudgesOK, HashesOK, Build, Goto, Oldest, Locked, rows
<1>5. SameTxs
  BY DEF SameTxs, TypeOK, Build, chain
<1>6. HashesCount
  BY Tasks DEF TypeOK, HashesCount, Broadcast, Build, Goto, rows, faults
<1>7. NoVerdict
  BY DEF NoVerdict, TypeOK, Build, rows
<1> QED
  BY <1>1, <1>2, <1>3, <1>4, <1>5, <1>6, <1>7, CountKept, VerdictsKept DEF HashesCount

LEMMA SendFailsKeeps ==
  ASSUME OutboxInv, NEW p \in Instances, SendFails(p)
  PROVE  OutboxInv'
<1> USE DEF OutboxInv, RowsOK
<1>1. TypeOK'
  BY Tasks DEF TypeOK, SendFails, Goto, Forget, Place, rows, chain
<1>2. HashesOK'
  BY DEF TypeOK, HashesOK, SendFails, rows, chain
<1>3. SendersOK'
  BY Tasks DEF TypeOK, SendersOK, Holds, SendFails, Goto, Forget, rows, chain
<1>4. JudgesOK'
  BY Tasks DEF TypeOK, JudgesOK, HashesOK, SendFails, Goto, rows
<1>5. SameTxs
  BY DEF SameTxs, TypeOK, SendFails, chain
<1>6. HashesCount
  BY Tasks DEF TypeOK, HashesCount, Broadcast, SendFails, Goto, rows
<1>7. NoVerdict
  BY DEF NoVerdict, TypeOK, SendFails, rows
<1> QED
  BY <1>1, <1>2, <1>3, <1>4, <1>5, <1>6, <1>7, CountKept, VerdictsKept DEF HashesCount

LEMMA AnswerLostKeeps ==
  ASSUME OutboxInv, NEW p \in Instances, AnswerLost(p)
  PROVE  OutboxInv'
<1> USE DEF OutboxInv, RowsOK
<1>0. at[Sender(p)] \in Rows /\ Sender(p) \in Workers
  BY Tasks DEF SendersOK, AnswerLost
<1>1. TypeOK'
  BY <1>0, Tasks DEF TypeOK, AnswerLost, Goto, Forget, Place, rows, chain
<1>2. HashesOK'
  BY DEF TypeOK, HashesOK, AnswerLost, rows, chain
<1>3. SendersOK'
  BY Tasks DEF TypeOK, SendersOK, Holds, AnswerLost, Goto, Forget, rows, chain
<1>4. JudgesOK'
  BY Tasks DEF TypeOK, JudgesOK, HashesOK, AnswerLost, Goto, rows
<1>5. SameTxs
  BY DEF SameTxs, TypeOK, AnswerLost, chain
<1>6. HashesCount
  BY Tasks DEF TypeOK, HashesCount, Broadcast, AnswerLost, Goto, rows
<1>7. NoVerdict
  BY DEF NoVerdict, TypeOK, AnswerLost, rows
<1> QED
  BY <1>1, <1>2, <1>3, <1>4, <1>5, <1>6, <1>7, CountKept, VerdictsKept DEF HashesCount

LEMMA CommitSentKeeps ==
  ASSUME OutboxInv, NEW p \in Instances, CommitSent(p)
  PROVE  OutboxInv'
<1> USE DEF OutboxInv, RowsOK
<1>0. /\ at[Sender(p)] \in Rows /\ Sender(p) \in Workers
      /\ hash[p] \in 1 .. Len(txs) /\ hash[p] # 0 /\ txs[hash[p]].row = at[Sender(p)]
  BY Tasks DEF SendersOK, CommitSent, TypeOK
<1>1. TypeOK'
  BY <1>0, Tasks DEF TypeOK, CommitSent, Goto, Forget, SetStatus, Status, Place, chain, faults
<1>2. HashesOK'
  BY <1>0 DEF TypeOK, HashesOK, CommitSent, SetStatus, chain
<1>3. SendersOK'
  BY Tasks DEF TypeOK, SendersOK, Holds, CommitSent, Goto, Forget, SetStatus, chain
<1>4. JudgesOK'
  BY <1>0, Tasks DEF TypeOK, JudgesOK, HashesOK, CommitSent, Goto
<1>5. SameTxs
  BY DEF SameTxs, TypeOK, CommitSent, chain
<1>6. HashesCount
  BY <1>0, Tasks DEF TypeOK, HashesCount, Broadcast, CommitSent, Goto, faults
<1>7. NoVerdict
  BY DEF NoVerdict, TypeOK, CommitSent, SetStatus
<1> QED
  BY <1>1, <1>2, <1>3, <1>4, <1>5, <1>6, <1>7, CountKept, VerdictsKept DEF HashesCount

LEMMA ConfirmGivesUpKeeps ==
  ASSUME OutboxInv, NEW p \in Instances, ConfirmGivesUp(p)
  PROVE  OutboxInv'
<1> USE DEF OutboxInv, RowsOK
<1>1. TypeOK'
  BY Tasks DEF TypeOK, ConfirmGivesUp, Goto, Place, rows, chain
<1>2. HashesOK'
  BY DEF TypeOK, HashesOK, ConfirmGivesUp, rows, chain
<1>3. SendersOK'
  BY Tasks DEF TypeOK, SendersOK, Holds, ConfirmGivesUp, Goto, rows, chain
<1>4. JudgesOK'
  BY Tasks DEF TypeOK, JudgesOK, HashesOK, ConfirmGivesUp, Goto, rows
<1>5. SameTxs
  BY DEF SameTxs, TypeOK, ConfirmGivesUp, chain
<1>6. HashesCount
  BY Tasks DEF TypeOK, HashesCount, Broadcast, ConfirmGivesUp, Goto, rows
<1>7. NoVerdict
  BY DEF NoVerdict, TypeOK, ConfirmGivesUp, rows
<1> QED
  BY <1>1, <1>2, <1>3, <1>4, <1>5, <1>6, <1>7, CountKept, VerdictsKept DEF HashesCount

LEMMA BeginRecheckKeeps ==
  ASSUME OutboxInv, NEW w \in Workers, BeginRecheck(w)
  PROVE  OutboxInv'
<1> USE DEF OutboxInv, RowsOK
<1>1. TypeOK'
  BY Tasks DEF TypeOK, BeginRecheck, Goto, Place, rows, chain, faults
<1>2. HashesOK'
  BY DEF TypeOK, HashesOK, BeginRecheck, rows, chain
<1>3. SendersOK'
  BY Tasks DEF TypeOK, SendersOK, Holds, BeginRecheck, Goto, rows, chain
<1>4. JudgesOK'
  BY Tasks DEF TypeOK, JudgesOK, HashesOK, BeginRecheck, Goto, rows
<1>5. SameTxs
  BY DEF SameTxs, TypeOK, BeginRecheck, chain
<1>6. HashesCount
  BY Tasks DEF TypeOK, HashesCount, Broadcast, BeginRecheck, Goto, rows, faults
<1>7. NoVerdict
  BY DEF NoVerdict, TypeOK, BeginRecheck, rows
<1> QED
  BY <1>1, <1>2, <1>3, <1>4, <1>5, <1>6, <1>7, CountKept, VerdictsKept DEF HashesCount

LEMMA LookUpKeeps ==
  ASSUME OutboxInv, NEW w \in Workers, NEW r \in Rows, LookUp(w, r)
  PROVE  OutboxInv'
<1> USE DEF OutboxInv, RowsOK
<1>1. TypeOK'
  BY Tasks DEF TypeOK, LookUp, Goto, Place, rows, chain
<1>2. HashesOK'
  BY DEF TypeOK, HashesOK, LookUp, rows, chain
<1>3. SendersOK'
  BY Tasks DEF TypeOK, SendersOK, Holds, LookUp, Goto, ErrorHappens, Place, vars, rows, chain, tasks, faults
<1>4. JudgesOK'
  BY Tasks DEF TypeOK, JudgesOK, HashesOK, LookUp, Goto, rows
<1>5. SameTxs
  BY DEF SameTxs, TypeOK, LookUp, chain
<1>6. HashesCount
  <2>1. ASSUME NEW p \in Instances, pc[Sender(p)] = "sent"
        PROVE  pc'[Sender(p)] = pc[Sender(p)] /\ at'[Sender(p)] = at[Sender(p)]
    BY <2>1, Tasks DEF TypeOK, LookUp, Goto
  <2>2. \A q \in Rows : Broadcast(q) => Broadcast(q)'
    BY <2>1 DEF Broadcast
  <2> QED
    BY <2>2 DEF TypeOK, HashesCount, LookUp, rows
<1>7. NoVerdict
  BY DEF NoVerdict, TypeOK, LookUp, rows
<1> QED
  BY <1>1, <1>2, <1>3, <1>4, <1>5, <1>6, <1>7, CountKept, VerdictsKept DEF HashesCount

LEMMA MarkStuckKeeps ==
  ASSUME OutboxInv, NEW w \in Workers, MarkStuck(w)
  PROVE  OutboxInv'
<1> USE DEF OutboxInv, RowsOK
<1>1. TypeOK'
  BY Tasks DEF TypeOK, MarkStuck, Goto, SetStatus, Status, Place, chain, faults
<1>2. HashesOK'
  BY DEF TypeOK, HashesOK, MarkStuck, SetStatus, chain
<1>0. at[w] \in Rows /\ sentAs[at[w]] # 0
  BY DEF JudgesOK, MarkStuck
<1>3. SendersOK'
  BY <1>0, Tasks DEF HashesOK, TypeOK, SendersOK, Holds, MarkStuck, Goto, SetStatus, chain
<1>4. JudgesOK'
  BY Tasks DEF TypeOK, JudgesOK, HashesOK, MarkStuck, Goto
<1>5. SameTxs
  BY DEF SameTxs, TypeOK, MarkStuck, chain
<1>6. HashesCount
  BY Tasks DEF TypeOK, HashesCount, Broadcast, MarkStuck, Goto, faults
<1>7. NoVerdict
  BY DEF NoVerdict, TypeOK, MarkStuck, SetStatus
<1> QED
  BY <1>1, <1>2, <1>3, <1>4, <1>5, <1>6, <1>7, CountKept, VerdictsKept DEF HashesCount

LEMMA EndRecheckKeeps ==
  ASSUME OutboxInv, NEW w \in Workers, EndRecheck(w)
  PROVE  OutboxInv'
<1> USE DEF OutboxInv, RowsOK
<1>1. TypeOK'
  BY Tasks DEF TypeOK, EndRecheck, Goto, AfterRecheck, Place, rows, chain, faults
<1>2. HashesOK'
  BY DEF TypeOK, HashesOK, EndRecheck, AfterRecheck, rows, chain
<1>3. SendersOK'
  BY Tasks DEF TypeOK, SendersOK, Holds, EndRecheck, Goto, AfterRecheck, rows, chain
<1>4. JudgesOK'
  BY Tasks DEF TypeOK, JudgesOK, HashesOK, EndRecheck, Goto, AfterRecheck, rows
<1>5. SameTxs
  BY DEF SameTxs, TypeOK, EndRecheck, AfterRecheck, chain
<1>6. HashesCount
  BY Tasks DEF TypeOK, HashesCount, Broadcast, EndRecheck, Goto, AfterRecheck, rows, faults
<1>7. NoVerdict
  BY DEF NoVerdict, TypeOK, EndRecheck, AfterRecheck, rows
<1> QED
  BY <1>1, <1>2, <1>3, <1>4, <1>5, <1>6, <1>7, CountKept, VerdictsKept DEF HashesCount

LEMMA RecheckFailsKeeps ==
  ASSUME OutboxInv, NEW w \in Workers, RecheckFails(w)
  PROVE  OutboxInv'
<1> USE DEF OutboxInv, RowsOK
<1>1. TypeOK'
  BY Tasks DEF TypeOK, RecheckFails, Goto, Place, rows, chain
<1>2. HashesOK'
  BY DEF TypeOK, HashesOK, RecheckFails, rows, chain
<1>3. SendersOK'
  BY Tasks DEF TypeOK, SendersOK, Holds, RecheckFails, Goto, rows, chain
<1>4. JudgesOK'
  BY Tasks DEF TypeOK, JudgesOK, HashesOK, RecheckFails, Goto, rows
<1>5. SameTxs
  BY DEF SameTxs, TypeOK, RecheckFails, chain
<1>6. HashesCount
  BY Tasks DEF TypeOK, HashesCount, Broadcast, RecheckFails, Goto, rows
<1>7. NoVerdict
  BY DEF NoVerdict, TypeOK, RecheckFails, rows
<1> QED
  BY <1>1, <1>2, <1>3, <1>4, <1>5, <1>6, <1>7, CountKept, VerdictsKept DEF HashesCount

LEMMA DropKeeps ==
  ASSUME OutboxInv, NEW h \in DOMAIN txs, Drop(h)
  PROVE  OutboxInv'
<1> USE DEF OutboxInv, RowsOK
<1>0. txs' \in Seq(Tx) /\ Len(txs') = Len(txs)
  <2>1. txs[h] \in Tx
    BY DEF TypeOK
  <2>2. \A o \in Outcome : [txs[h] EXCEPT !.outcome = o] \in Tx
    BY <2>1 DEF Tx
  <2>3. \E o \in Outcome : txs' = [txs EXCEPT ![h] = [txs[h] EXCEPT !.outcome = o]]
    BY DEF Drop, Outcome
  <2> QED
    BY <2>2, <2>3 DEF TypeOK
<1>1. TypeOK'
  BY <1>0, Tasks DEF TypeOK, Drop, Tx, Outcome, Place, rows, tasks, faults
<1>2. HashesOK'
  BY DEF TypeOK, HashesOK, Drop, Tx, Outcome, rows
<1>3. SendersOK'
  BY Tasks DEF TypeOK, SendersOK, Holds, Drop, Tx, Outcome, rows, tasks
<1>4. JudgesOK'
  BY Tasks DEF TypeOK, JudgesOK, HashesOK, Drop, Tx, Outcome, rows, tasks
<1>5. SameTxs
  BY DEF SameTxs, TypeOK, Drop, Tx, Outcome
<1>6. HashesCount
  BY Tasks DEF TypeOK, HashesCount, Broadcast, Drop, Tx, Outcome, rows, tasks, faults
<1>7. NoVerdict
  BY DEF NoVerdict, TypeOK, Drop, Tx, Outcome, rows
<1> QED
  BY <1>1, <1>2, <1>3, <1>4, <1>5, <1>6, <1>7, CountKept, VerdictsKept DEF HashesCount

LEMMA MineKeeps ==
  ASSUME OutboxInv, NEW h \in DOMAIN txs, Mine(h)
  PROVE  OutboxInv'
<1> USE DEF OutboxInv, RowsOK
<1>0. txs' \in Seq(Tx) /\ Len(txs') = Len(txs)
  <2>1. txs[h] \in Tx
    BY DEF TypeOK
  <2>2. \A o \in Outcome : [txs[h] EXCEPT !.outcome = o] \in Tx
    BY <2>1 DEF Tx
  <2>3. \E o \in Outcome : txs' = [txs EXCEPT ![h] = [txs[h] EXCEPT !.outcome = o]]
    BY DEF Mine, Outcome
  <2> QED
    BY <2>2, <2>3 DEF TypeOK
<1>1. TypeOK'
  BY <1>0, Tasks DEF TypeOK, Mine, Tx, Outcome, Place, rows, tasks, faults
<1>2. HashesOK'
  BY DEF TypeOK, HashesOK, Mine, Tx, Outcome, rows
<1>3. SendersOK'
  BY Tasks DEF TypeOK, SendersOK, Holds, Mine, Tx, Outcome, rows, tasks
<1>4. JudgesOK'
  BY Tasks DEF TypeOK, JudgesOK, HashesOK, Mine, Tx, Outcome, rows, tasks
<1>5. SameTxs
  BY DEF SameTxs, TypeOK, Mine, Tx, Outcome
<1>6. HashesCount
  BY Tasks DEF TypeOK, HashesCount, Broadcast, Mine, Tx, Outcome, rows, tasks, faults
<1>7. NoVerdict
  BY DEF NoVerdict, TypeOK, Mine, Tx, Outcome, rows
<1> QED
  BY <1>1, <1>2, <1>3, <1>4, <1>5, <1>6, <1>7, CountKept, VerdictsKept DEF HashesCount

LEMMA OvertakeKeeps ==
  ASSUME OutboxInv, NEW r \in Rows, Overtake(r)
  PROVE  OutboxInv'
<1> USE DEF OutboxInv, RowsOK
<1>1. TypeOK'
  BY Tasks DEF TypeOK, Overtake, Place, rows, tasks, faults
<1>2. HashesOK'
  BY DEF TypeOK, HashesOK, Overtake, rows
<1>3. SendersOK'
  BY Tasks DEF TypeOK, SendersOK, Holds, Overtake, rows, tasks
<1>4. JudgesOK'
  BY Tasks DEF TypeOK, JudgesOK, HashesOK, Overtake, rows, tasks
<1>5. SameTxs
  BY DEF SameTxs, TypeOK, Overtake
<1>6. HashesCount
  BY Tasks DEF TypeOK, HashesCount, Broadcast, Overtake, rows, tasks, faults
<1>7. NoVerdict
  BY DEF NoVerdict, TypeOK, Overtake, rows
<1> QED
  BY <1>1, <1>2, <1>3, <1>4, <1>5, <1>6, <1>7, CountKept, VerdictsKept DEF HashesCount

LEMMA BecomeOverdueKeeps ==
  ASSUME OutboxInv, NEW r \in Rows, BecomeOverdue(r)
  PROVE  OutboxInv'
<1> USE DEF OutboxInv, RowsOK
<1>1. TypeOK'
  BY Tasks DEF TypeOK, BecomeOverdue, Place, chain, tasks, faults
<1>2. HashesOK'
  BY DEF TypeOK, HashesOK, BecomeOverdue, chain
<1>3. SendersOK'
  BY Tasks DEF TypeOK, SendersOK, Holds, BecomeOverdue, chain, tasks
<1>4. JudgesOK'
  BY Tasks DEF TypeOK, JudgesOK, HashesOK, BecomeOverdue, tasks
<1>5. SameTxs
  BY DEF SameTxs, TypeOK, BecomeOverdue, chain
<1>6. HashesCount
  BY Tasks DEF TypeOK, HashesCount, Broadcast, BecomeOverdue, tasks, faults
<1>7. NoVerdict
  BY DEF NoVerdict, TypeOK, BecomeOverdue
<1> QED
  BY <1>1, <1>2, <1>3, <1>4, <1>5, <1>6, <1>7, CountKept, VerdictsKept DEF HashesCount

LEMMA CrashKeeps ==
  ASSUME OutboxInv, NEW p \in Instances, Crash(p)
  PROVE  OutboxInv'
<1> USE DEF OutboxInv, RowsOK
<1>1. TypeOK'
  BY Tasks DEF TypeOK, Crash, Forget, Beginning, Place, rows, chain
<1>2. HashesOK'
  BY DEF TypeOK, HashesOK, Crash, Beginning, rows, chain
<1>3. SendersOK'
  BY Tasks DEF TypeOK, SendersOK, Holds, Crash, Forget, Beginning, rows, chain
<1>4. JudgesOK'
  BY Tasks DEF TypeOK, JudgesOK, HashesOK, Crash, Beginning, rows
<1>5. SameTxs
  BY DEF SameTxs, TypeOK, Crash, Beginning, chain
<1>6. HashesCount
  BY Tasks DEF TypeOK, HashesCount, Broadcast, Crash, Forget, Beginning, Place, vars, rows, chain, tasks, faults
<1>7. NoVerdict
  BY DEF NoVerdict, TypeOK, Crash, Beginning, rows
<1> QED
  BY <1>1, <1>2, <1>3, <1>4, <1>5, <1>6, <1>7, CountKept, VerdictsKept DEF HashesCount

\* A step of the rows only: a row without a sender gets a verdict.
LEMMA VerdictKeeps ==
  ASSUME OutboxInv, NEW r \in Rows, NEW verdict \in {"MINED", "FAILED"},
         SetStatus(r, verdict), UNCHANGED <<sentAs, overdue, chain, hash, lost>>,
         sentAs[r] # 0 \/ status[r] = "QUEUED",
         \A p \in Instances : ~ Holds(p, r),
         verdict = "MINED" => Succeeded(r),
         verdict = "FAILED" /\ lost[r] = 0 => \A h \in TxsOf(r) : txs[h].outcome = "reverted"
  PROVE  /\ HashesOK' /\ VerdictsOK'
         /\ status' \in [Rows -> Status]
         /\ \A q \in Rows : q # r => status'[q] = status[q]
<1> USE DEF OutboxInv, RowsOK
<1>1. /\ status' \in [Rows -> Status] /\ status'[r] = verdict
      /\ \A q \in Rows : q # r => status'[q] = status[q]
  BY DEF TypeOK, SetStatus, Status
<1>2. HashesOK'
  BY <1>1 DEF HashesOK, chain
<1>3. VerdictsOK'
  BY <1>1 DEF VerdictsOK, TxsOf, Succeeded, chain
<1> QED
  BY <1>1, <1>2, <1>3

\* A queued row nobody holds has no transaction that was not lost.
LEMMA NothingSent ==
  ASSUME OutboxInv, NEW r \in Rows, status[r] = "QUEUED", ~ Locked(r), lost[r] = 0
  PROVE  TxsOf(r) = {}
<1> USE DEF OutboxInv, RowsOK
<1>1. sentAs[r] = 0 /\ ~ Broadcast(r)
  BY DEF HashesOK, Broadcast, Locked
<1>2. Cardinality(TxsOf(r)) <= 0
  BY <1>1 DEF CountOK
<1>3. IsFiniteSet(TxsOf(r)) /\ Cardinality(TxsOf(r)) \in Nat
  BY TxsFinite
<1> QED
  BY <1>2, <1>3, FS_EmptySet

\* A row of a retired kind, or one the contract refuses, fails.
LEMMA FailKeeps ==
  ASSUME OutboxInv, NEW p \in Instances, NEW r \in Rows, Retire(p, r) \/ Refuse(p, r)
  PROVE  OutboxInv'
<1> USE DEF OutboxInv, RowsOK
<1>1. /\ SetStatus(r, "FAILED") /\ UNCHANGED <<sentAs, overdue, chain, tasks, faults>>
      /\ status[r] = "QUEUED" /\ ~ Locked(r)
  BY DEF Retire, Refuse, Oldest
<1>2. \A q \in Instances : ~ Holds(q, r)
  BY <1>1 DEF Locked, Holds
<1>3. lost[r] = 0 => TxsOf(r) = {}
  BY <1>1, NothingSent
<1>4. /\ HashesOK' /\ VerdictsOK'
      /\ status' \in [Rows -> Status]
      /\ \A q \in Rows : q # r => status'[q] = status[q]
  BY <1>1, <1>2, <1>3, VerdictKeeps DEF chain, tasks, faults
<1>5. TypeOK'
  BY <1>1, <1>4 DEF TypeOK, chain, tasks, faults
<1>6. SendersOK'
  BY <1>1, <1>2, <1>4 DEF SendersOK, Holds, chain, tasks, faults
<1>7. JudgesOK'
  BY <1>1 DEF JudgesOK, tasks
<1>8. SameTxs /\ HashesCount
  BY <1>1 DEF TypeOK, SameTxs, HashesCount, Broadcast, chain, tasks, faults
<1> QED
  BY <1>4, <1>5, <1>6, <1>7, <1>8, CountKept

\* A receipt is recorded, by the sender or by a recheck.
LEMMA ReceiptKeeps ==
  ASSUME OutboxInv, NEW w \in Workers, pc[w] \in {"waiting", "found"}, RecordReceipt(at[w]),
         NEW place \in {"loop", "rechecking"}, Goto(w, place, 0),
         UNCHANGED <<sentAs, overdue, chain, todo, hash, faults>>
  PROVE  OutboxInv'
<1> USE DEF OutboxInv, RowsOK
<1> DEFINE r == at[w]
           verdict == IF txs[sentAs[r]].outcome = "success" THEN "MINED" ELSE "FAILED"
<1>1. /\ r \in Rows /\ sentAs[r] # 0 /\ txs[sentAs[r]].row = r
      /\ sentAs[r] \in DOMAIN txs /\ sentAs[r] \in TxsOf(r)
  BY DEF JudgesOK, HashesOK, TypeOK, TxsOf
<1>2. verdict \in {"MINED", "FAILED"} /\ SetStatus(r, verdict) /\ Mined(sentAs[r])
  BY DEF RecordReceipt
<1>3. \A p \in Instances : ~ Holds(p, r)
  BY <1>1 DEF SendersOK, HashesOK, Holds
<1>4. verdict = "MINED" => Succeeded(r)
  BY <1>1 DEF Succeeded
<1>5. ASSUME verdict = "FAILED", lost[r] = 0, NEW h \in TxsOf(r) PROVE txs[h].outcome = "reverted"
  <2>1. Cardinality(TxsOf(r)) <= 1 /\ IsFiniteSet(TxsOf(r)) /\ Cardinality(TxsOf(r)) \in Nat
    BY <1>1, <1>5, TxsFinite DEF CountOK
  <2>2. Cardinality(TxsOf(r)) # 0
    BY <1>1, <2>1, FS_EmptySet
  <2>3. Cardinality(TxsOf(r)) = 1
    BY <2>1, <2>2
  <2>4. PICK only : TxsOf(r) = {only}
    BY <2>1, <2>3, FS_Singleton
  <2>5. h = sentAs[r]
    BY <1>1, <2>4
  <2> QED
    BY <1>2, <1>5, <2>5 DEF Mined
<1>6. /\ HashesOK' /\ VerdictsOK'
      /\ status' \in [Rows -> Status]
      /\ \A q \in Rows : q # r => status'[q] = status[q]
  <2> HIDE DEF r, verdict
  <2> QED
    BY <1>1, <1>2, <1>3, <1>4, <1>5, VerdictKeeps DEF faults
<1>7. TypeOK'
  BY <1>6 DEF TypeOK, Goto, Place, chain, faults
<1>8. SendersOK'
  BY <1>3, <1>6, Tasks DEF TypeOK, SendersOK, Holds, Goto, chain
<1>9. JudgesOK'
  BY DEF TypeOK, JudgesOK, Goto
<1>10. SameTxs
  BY DEF SameTxs, chain
<1>11. HashesCount
  BY Tasks DEF TypeOK, HashesCount, Broadcast, Goto, faults
<1> QED
  BY <1>6, <1>7, <1>8, <1>9, <1>10, <1>11, CountKept

\* The transaction goes out: its row has one more, which is on its way.
LEMMA SendKeeps ==
  ASSUME OutboxInv, NEW p \in Instances, Send(p)
  PROVE  OutboxInv'
<1> USE DEF OutboxInv, RowsOK
<1>0. PICK r \in Rows : r = at[Sender(p)]
  BY DEF Send, SendersOK
<1> DEFINE tx == [row |-> r, outcome |-> "pending"]
           new == Len(txs) + 1
<1>1. /\ pc[Sender(p)] = "built" /\ Sender(p) \in Workers
      /\ r \in Rows /\ status[r] = "QUEUED" /\ sentAs[r] = 0
      /\ txs' = Append(txs, tx) /\ hash' = [hash EXCEPT ![p] = new]
      /\ Goto(Sender(p), "sent", r) /\ UNCHANGED <<rows, accepts, todo, faults>>
  BY <1>0, Tasks DEF Send, SendersOK, HashesOK
<1>2. tx \in Tx /\ txs \in Seq(Tx) /\ Len(txs) \in Nat /\ DOMAIN txs = 1 .. Len(txs)
  BY <1>1 DEF TypeOK, Tx, Outcome
<1>3. /\ txs' \in Seq(Tx) /\ Len(txs') = new /\ DOMAIN txs' = (DOMAIN txs) \cup {new}
      /\ new \notin DOMAIN txs /\ txs'[new] = tx
      /\ \A h \in DOMAIN txs : txs'[h] = txs[h]
  <2>1. /\ txs' \in Seq(Tx) /\ Len(txs') = new /\ txs'[new] = tx
        /\ \A h \in 1 .. Len(txs) : txs'[h] = txs[h]
    BY <1>1, <1>2, AppendProperties
  <2> QED
    BY <1>2, <2>1
<1> HIDE DEF tx, new
<1>4. /\ \A q \in Rows : q # r => TxsOf(q)' = TxsOf(q)
      /\ TxsOf(r)' = TxsOf(r) \cup {new} /\ new \notin TxsOf(r)
  BY <1>3 DEF TxsOf, tx
<1>5. TypeOK'
  BY <1>1, <1>2, <1>3 DEF TypeOK, Goto, Place, rows, faults, new
<1>6. HashesOK'
  BY <1>1, <1>2, <1>3 DEF TypeOK, HashesOK, rows
<1>7. SendersOK'
  BY <1>0, <1>1, <1>2, <1>3, Tasks DEF TypeOK, SendersOK, Holds, Goto, rows, tx
<1>8. JudgesOK'
  BY <1>1 DEF TypeOK, JudgesOK, Goto, rows
<1>9. CountOK'
  <2> SUFFICES ASSUME NEW q \in Rows
               PROVE  /\ Cardinality(TxsOf(q)') <= 1 + lost[q]
                      /\ sentAs[q] = 0 /\ ~ Broadcast(q)' => Cardinality(TxsOf(q)') <= lost[q]
    BY <1>1 DEF CountOK, rows, faults
  <2>1. IsFiniteSet(TxsOf(q)) /\ Cardinality(TxsOf(q)) \in Nat /\ lost[q] \in Nat
    BY TxsFinite DEF TypeOK
  <2>2. CASE q = r
    <3>1. ~ Broadcast(r)
      BY <1>0, <1>1, Tasks DEF SendersOK, Broadcast, Holds
    <3>2. Cardinality(TxsOf(r)) <= lost[r]
      BY <1>1, <3>1 DEF CountOK
    <3>3. Cardinality(TxsOf(r)') = Cardinality(TxsOf(r)) + 1
      BY <1>4, <2>1, <2>2, FS_AddElement
    <3>4. Broadcast(r)'
      BY <1>1, <1>5 DEF TypeOK, Broadcast, Goto
    <3> QED
      BY <2>1, <2>2, <3>2, <3>3, <3>4
  <2>3. CASE q # r
    <3>1. Broadcast(q) => Broadcast(q)'
      BY <1>1, <2>3, Tasks DEF TypeOK, Broadcast, Goto
    <3> QED
      BY <1>4, <2>3, <3>1 DEF CountOK
  <2> QED
    BY <2>2, <2>3
<1>10. VerdictsOK'
  <2>1. ASSUME NEW q \in Rows, status[q] \in {"MINED", "FAILED"} PROVE TxsOf(q)' = TxsOf(q)
    BY <1>1, <1>4, <2>1
  <2>2. \A q \in Rows : TxsOf(q) \subseteq DOMAIN txs
    BY DEF TxsOf
  <2> QED
    BY <1>1, <1>3, <2>1, <2>2 DEF VerdictsOK, Succeeded, rows, faults
<1> QED
  BY <1>5, <1>6, <1>7, <1>8, <1>9, <1>10

\* Every step keeps the invariant.
LEMMA InvNext == OutboxInv /\ [Next]_vars => OutboxInv'
<1> SUFFICES ASSUME OutboxInv, [Next]_vars PROVE OutboxInv'
  OBVIOUS
<1>1. CASE UNCHANGED vars
  BY <1>1 DEF vars, rows, chain, tasks, faults, OutboxInv, RowsOK, TypeOK, HashesOK, SendersOK,
              JudgesOK, CountOK, VerdictsOK, Holds, Broadcast, TxsOf, Succeeded
<1>2. ASSUME NEW r \in Rows, NEW b \in BOOLEAN, Queue(r, b) PROVE OutboxInv'
  BY <1>2, QueueKeeps
<1>3. ASSUME NEW p \in Instances, SendNext(p) PROVE OutboxInv'
  <2>1. ASSUME NEW r \in Rows, Retire(p, r) \/ Refuse(p, r) PROVE OutboxInv'
    BY <2>1, FailKeeps
  <2>2. ASSUME NEW r \in Rows, Build(p, r) PROVE OutboxInv'
    BY <2>2, BuildKeeps
  <2>3. CASE Confirm(p)
    BY <2>3, Tasks, ReceiptKeeps DEF Confirm
  <2> QED
    BY <1>3, <2>1, <2>2, <2>3, SendKeeps, SendFailsKeeps, CommitSentKeeps, ConfirmGivesUpKeeps
       DEF SendNext
<1>4. ASSUME NEW p \in Instances, AnswerLost(p) \/ Crash(p) PROVE OutboxInv'
  BY <1>4, AnswerLostKeeps, CrashKeeps
<1>5. ASSUME NEW w \in Workers, RecheckSent(w) PROVE OutboxInv'
  <2>1. ASSUME NEW r \in Rows, LookUp(w, r) PROVE OutboxInv'
    BY <2>1, LookUpKeeps
  <2>2. CASE RecheckConfirms(w)
    BY <2>2, ReceiptKeeps DEF RecheckConfirms
  <2> QED
    BY <1>5, <2>1, <2>2, BeginRecheckKeeps, MarkStuckKeeps, EndRecheckKeeps DEF RecheckSent
<1>6. ASSUME NEW w \in Workers, RecheckFails(w) PROVE OutboxInv'
  BY <1>6, RecheckFailsKeeps
<1>7. ASSUME NEW h \in DOMAIN txs, Mine(h) \/ Drop(h) PROVE OutboxInv'
  BY <1>7, MineKeeps, DropKeeps
<1>8. ASSUME NEW r \in Rows, Overtake(r) \/ BecomeOverdue(r) PROVE OutboxInv'
  BY <1>8, OvertakeKeeps, BecomeOverdueKeeps
<1> QED
  BY <1>1, <1>2, <1>3, <1>4, <1>5, <1>6, <1>7, <1>8 DEF Next

LEMMA InvHolds == Spec => []OutboxInv
BY InvInit, InvNext, PTL DEF Spec

\* With any number of senders and rechecks: a row goes out once, and once more for
\* each of its transactions whose hash was lost (outbox.py:69-104).
THEOREM SentOncePerLoss == Spec => []OneTransactionPerLoss
<1>1. OutboxInv => OneTransactionPerLoss
  BY DEF OutboxInv, CountOK, OneTransactionPerLoss
<1> QED
  BY <1>1, InvHolds, PTL

\* MINED and FAILED say what the chain did, whoever recorded them and however often
\* (outbox.py:91-95, 107-119).
THEOREM VerdictIsTheChains == Spec => []VerdictMatchesChain
<1>1. OutboxInv => VerdictMatchesChain
  BY DEF OutboxInv, VerdictsOK, VerdictMatchesChain, Succeeded
<1> QED
  BY <1>1, InvHolds, PTL

\* Every variable of the rows, the chain and the tasks keeps its type.
THEOREM OutboxTypeOK == Spec => []TypeOK
<1>1. OutboxInv => TypeOK
  BY DEF OutboxInv, RowsOK
<1> QED
  BY <1>1, InvHolds, PTL
=============================================================================
