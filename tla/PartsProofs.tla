----------------------------- MODULE PartsProofs -----------------------------
(***************************************************************************)
(* Three components that are small by themselves: how requests with one    *)
(* key and one job get their effects and their trail (Posts), which        *)
(* instance runs the workers (Leader), and how a dispute gets its proposal *)
(* (Ladder).  Each has an invariant of its own.                            *)
(***************************************************************************)
EXTENDS Posts, Leader, Ladder, FiniteSetTheorems, TLAPS

(***************************************************************************)
(* Posts.  For any number of requests, keys and payloads: a key takes      *)
(* effect once, its answer is that of the request that took effect, and    *)
(* the audit trail is one chain of what took effect.                       *)
(*                                                                         *)
(* The invariant says who holds what: a reserved key has no committed row  *)
(* yet and belongs to one request, the row of the job belongs to the one   *)
(* request that is locked, and what that one read is still the last row.   *)
(***************************************************************************)

Place == {"new", "preparing", "prepared", "reserved", "locked", "done"}
Held == {"reserved", "locked"}
Mark == [seq : Nat, by : Requests \cup {Nothing}]
Entry == [seq : Nat, prev : Mark, by : Requests]
Row(r) == [payload |-> Payload[r], answer |-> r]

\* The type invariant of the requests.
PostsTypeOK ==
  /\ pc \in [Requests -> Place]
  /\ answer \in [Requests -> Requests \cup {Nothing, "reuse", "error"}]
  /\ record \in [Keys -> {Row(r) : r \in Requests} \cup {Nothing}]
  /\ keyHolder \in [Keys -> Requests \cup {Nothing}]
  /\ rowHolder \in Requests \cup {Nothing}
  /\ read \in [Requests -> Mark]
  /\ trail \in Seq(Entry)

\* A key that is held belongs to the request that holds it, and has no row yet.
KeyIsHeld ==
  /\ \A k \in Keys : keyHolder[k] # Nothing =>
       /\ Key[keyHolder[k]] = k
       /\ pc[keyHolder[k]] \in Held
       /\ record[k] = Nothing
  /\ \A r \in Requests : pc[r] \in Held /\ Key[r] # NoKey => keyHolder[Key[r]] = r

\* The job belongs to the request that is locked, which read its last row.
RowIsHeld ==
  /\ \A r \in Requests : pc[r] = "locked" <=> rowHolder = r
  /\ \A r \in Requests : pc[r] = "locked" => read[r] = LastRow

\* What took effect is over, and its key has its row; a row tells what took effect.
RowsTell ==
  /\ \A r \in Effects : r \in Requests /\ pc[r] = "done"
  /\ \A r \in Effects : Key[r] # NoKey => record[Key[r]] = Row(r)
  /\ \A k \in Keys : record[k] # Nothing =>
       \E r \in Effects : Key[r] = k /\ record[k] = Row(r)

Chained == VerifyChain(trail) /\ IsFiniteSet(Effects) /\ Cardinality(Effects) = Len(trail)

PostInv ==
  /\ PostsTypeOK
  /\ KeyIsHeld
  /\ RowIsHeld
  /\ RowsTell
  /\ Chained
  /\ AnswersAreTheirs

\* The key of a request is a key, or none.
LEMMA KeyOf == \A r \in Requests : Key[r] # NoKey => Key[r] \in Keys
BY DEF Keys

\* The row that marks the end of the trail.
LEMMA LastRowType == ASSUME PostsTypeOK PROVE LastRow \in Mark
<1>1. CASE trail = <<>>
  BY <1>1 DEF LastRow, ZERO_HASH, Mark
<1>2. CASE trail # <<>>
  <2>1. Len(trail) \in Nat /\ Len(trail) \in DOMAIN trail /\ trail[Len(trail)] \in Entry
    BY <1>2 DEF PostsTypeOK
  <2> QED
    BY <1>2, <2>1 DEF LastRow, Mark, Entry
<1> QED
  BY <1>1, <1>2

\* Nobody has done anything, and nothing is held.
LEMMA PostInvInit == Init => PostInv
<1> SUFFICES ASSUME Init PROVE PostInv
  OBVIOUS
<1>1. PostsTypeOK
  BY DEF Init, PostsTypeOK, Place, Mark, ZERO_HASH
<1>2. Effects = {}
  BY DEF Init, Effects
<1>3. KeyIsHeld
  BY KeyOf DEF Init, KeyIsHeld, Held
<1>4. RowIsHeld
  BY KeysAssumption DEF Init, RowIsHeld
<1>5. RowsTell
  BY <1>2 DEF Init, RowsTell
<1>6. Len(trail) = 0 /\ VerifyChain(trail)
  BY DEF Init, VerifyChain
<1>7. Chained
  BY <1>2, <1>6, FS_EmptySet DEF Chained
<1>8. AnswersAreTheirs
  BY DEF Init, AnswersAreTheirs
<1> QED
  BY <1>1, <1>3, <1>4, <1>5, <1>7, <1>8 DEF PostInv

\* A request that ends without an effect, with the answer of one that had it.
LEMMA EndKeeps ==
  ASSUME PostInv, NEW r \in Requests, NEW res,
         End(r, res), UNCHANGED <<record, read, trail>>,
         r \notin Effects,
         \/ res \in {"reuse", "error"}
         \/ /\ res \in Effects
            /\ Payload[res] = Payload[r]
            /\ Key[res] = Key[r]
  PROVE  PostInv'
<1> USE DEF PostInv, End, Goto
<1>1. Effects' = Effects /\ LastRow' = LastRow
  BY DEF Effects, LastRow
<1>2. \A q \in Effects : q \in Requests
  BY DEF RowsTell
<1>3. PostsTypeOK'
  <2>1. pc' \in [Requests -> Place]
    BY DEF PostsTypeOK, Place
  <2>2. answer' \in [Requests -> Requests \cup {Nothing, "reuse", "error"}]
    BY <1>2 DEF PostsTypeOK
  <2>3. keyHolder' \in [Keys -> Requests \cup {Nothing}] /\ rowHolder' \in Requests \cup {Nothing}
    BY DEF PostsTypeOK
  <2> QED
    BY <2>1, <2>2, <2>3 DEF PostsTypeOK
<1>4. KeyIsHeld'
  BY KeyOf, KeysAssumption DEF KeyIsHeld, PostsTypeOK, Held
<1>5. RowIsHeld'
  <2>1. \A q \in Requests : pc'[q] = "locked" <=> rowHolder' = q
    BY KeysAssumption DEF RowIsHeld, PostsTypeOK
  <2>2. \A q \in Requests : pc'[q] = "locked" => read'[q] = LastRow'
    BY <1>1 DEF RowIsHeld, PostsTypeOK
  <2> QED
    BY <2>1, <2>2 DEF RowIsHeld
<1>6. RowsTell'
  BY <1>1 DEF RowsTell, PostsTypeOK
<1>7. Chained'
  BY <1>1 DEF Chained, VerifyChain
<1>8. AnswersAreTheirs'
  BY <1>1 DEF AnswersAreTheirs, PostsTypeOK
<1> QED
  BY <1>3, <1>4, <1>5, <1>6, <1>7, <1>8

\* A row answers a retry with what its key did, or refuses another payload.
LEMMA RecordAnswers ==
  ASSUME PostInv, NEW r \in Requests, Recorded(r)
  PROVE  \/ FromRecord(r) \in {"reuse", "error"}
         \/ /\ FromRecord(r) \in Effects
            /\ Payload[FromRecord(r)] = Payload[r]
            /\ Key[FromRecord(r)] = Key[r]
<1>1. PICK q \in Effects : Key[q] = Key[r] /\ record[Key[r]] = Row(q)
  BY KeyOf DEF PostInv, RowsTell, Recorded
<1> QED
  BY <1>1 DEF FromRecord, Row

\* A request that only moves on keeps everything but the place it is at.
LEMMA MoveKeeps ==
  ASSUME PostInv, NEW r \in Requests, NEW place \in {"preparing", "prepared"},
         pc[r] \notin {"reserved", "locked", "done"}, Goto(r, place),
         UNCHANGED <<answer, record, keyHolder, rowHolder, read, trail>>
  PROVE  PostInv'
<1> USE DEF PostInv, Goto
<1>1. Effects' = Effects /\ LastRow' = LastRow
  BY DEF Effects, LastRow
<1>2. PostsTypeOK'
  BY DEF PostsTypeOK, Place
<1>3. KeyIsHeld'
  BY DEF KeyIsHeld, PostsTypeOK, Held
<1>4. RowIsHeld'
  BY <1>1 DEF RowIsHeld, PostsTypeOK
<1>5. RowsTell'
  BY <1>1 DEF RowsTell, PostsTypeOK
<1>6. Chained' /\ AnswersAreTheirs'
  BY <1>1 DEF Chained, VerifyChain, AnswersAreTheirs
<1> QED
  BY <1>2, <1>3, <1>4, <1>5, <1>6

\* A reservation takes a free key without a row.
LEMMA ReserveKeeps ==
  ASSUME PostInv, NEW r \in Requests, Reserve(r), ~ Recorded(r)
  PROVE  PostInv'
<1> USE DEF PostInv, Goto
<1>0. /\ pc[r] = "prepared"
      /\ Key[r] # NoKey => keyHolder[Key[r]] = Nothing /\ record[Key[r]] = Nothing
      /\ pc' = [pc EXCEPT ![r] = "reserved"]
      /\ keyHolder' = IF Key[r] = NoKey THEN keyHolder ELSE [keyHolder EXCEPT ![Key[r]] = r]
      /\ UNCHANGED <<answer, record, rowHolder, read, trail>>
  BY DEF Reserve, Recorded
<1>1. Effects' = Effects /\ LastRow' = LastRow
  BY <1>0 DEF Effects, LastRow
<1>2. PostsTypeOK'
  BY <1>0, KeyOf DEF PostsTypeOK, Place
<1>3. KeyIsHeld'
  BY <1>0, KeyOf, KeysAssumption DEF KeyIsHeld, PostsTypeOK, Held
<1>4. RowIsHeld'
  BY <1>0, <1>1 DEF RowIsHeld, PostsTypeOK
<1>5. RowsTell'
  BY <1>0, <1>1 DEF RowsTell, PostsTypeOK
<1>6. Chained' /\ AnswersAreTheirs'
  BY <1>0, <1>1 DEF Chained, VerifyChain, AnswersAreTheirs
<1> QED
  BY <1>2, <1>3, <1>4, <1>5, <1>6

\* The lock is taken when nobody has it, and the last row is read under it.
LEMMA LockKeeps ==
  ASSUME PostInv, NEW r \in Requests, Lock(r)
  PROVE  PostInv'
<1> USE DEF PostInv, Goto, Lock
<1>1. Effects' = Effects /\ LastRow' = LastRow
  BY DEF Effects, LastRow
<1>2. PostsTypeOK'
  BY LastRowType DEF PostsTypeOK, Place
<1>3. KeyIsHeld'
  BY DEF KeyIsHeld, PostsTypeOK, Held
<1>4. RowIsHeld'
  BY <1>1, KeysAssumption DEF RowIsHeld, PostsTypeOK
<1>5. RowsTell'
  BY <1>1 DEF RowsTell, PostsTypeOK
<1>6. Chained' /\ AnswersAreTheirs'
  BY <1>1 DEF Chained, VerifyChain, AnswersAreTheirs
<1> QED
  BY <1>2, <1>3, <1>4, <1>5, <1>6

\* The commit extends the chain by one link, and leaves the row of its key.
LEMMA CommitKeeps ==
  ASSUME PostInv, NEW r \in Requests, Commit(r)
  PROVE  PostInv'
<1> USE DEF PostInv, Goto, End
<1> DEFINE entry == [seq |-> read[r].seq + 1, prev |-> read[r], by |-> r]
<1>0. /\ pc[r] = "locked" /\ read[r] = LastRow /\ rowHolder = r
      /\ r \notin Effects
      /\ Key[r] # NoKey => keyHolder[Key[r]] = r /\ record[Key[r]] = Nothing
  BY KeyOf, KeysAssumption DEF Commit, RowIsHeld, RowsTell, KeyIsHeld, Held
<1>1. entry \in Entry
  <2>1. read[r] \in Mark
    BY DEF PostsTypeOK
  <2> QED
    BY <2>1 DEF Entry, Mark
<1>2. /\ trail' = Append(trail, entry) /\ trail' \in Seq(Entry)
      /\ Len(trail') = Len(trail) + 1 /\ Len(trail) \in Nat
      /\ \A n \in 1 .. Len(trail) : trail'[n] = trail[n]
      /\ trail'[Len(trail) + 1] = entry
  BY <1>1 DEF Commit, Append1, PostsTypeOK
<1>3. Effects' = Effects \cup {r}
  <2>1. DOMAIN trail = 1 .. Len(trail) /\ DOMAIN trail' = 1 .. (Len(trail) + 1)
    BY <1>2 DEF PostsTypeOK
  <2>2. Effects = {trail[n].by : n \in 1 .. Len(trail)}
    BY <2>1 DEF Effects
  <2>3. Effects' = {trail'[n].by : n \in 1 .. (Len(trail) + 1)}
    BY <2>1 DEF Effects
  <2>4. 1 .. (Len(trail) + 1) = (1 .. Len(trail)) \cup {Len(trail) + 1}
    BY <1>2
  <2>5. Effects' = {trail'[n].by : n \in 1 .. Len(trail)} \cup {trail'[Len(trail) + 1].by}
    BY <2>3, <2>4
  <2>6. {trail'[n].by : n \in 1 .. Len(trail)} = {trail[n].by : n \in 1 .. Len(trail)}
    BY <1>2
  <2>7. trail'[Len(trail) + 1].by = r
    BY <1>2
  <2> QED
    BY <2>2, <2>5, <2>6, <2>7
<1>4. PostsTypeOK'
  <2>1. pc' \in [Requests -> Place]
    BY DEF Commit, PostsTypeOK, Place
  <2>2. answer' \in [Requests -> Requests \cup {Nothing, "reuse", "error"}]
    BY DEF Commit, PostsTypeOK
  <2>3. record' \in [Keys -> {Row(q) : q \in Requests} \cup {Nothing}]
    BY KeyOf DEF Commit, PostsTypeOK, Row
  <2>4. keyHolder' \in [Keys -> Requests \cup {Nothing}]
    BY DEF Commit, PostsTypeOK
  <2>5. rowHolder' \in Requests \cup {Nothing} /\ read' \in [Requests -> Mark]
    BY DEF Commit, PostsTypeOK
  <2> QED
    BY <1>2, <2>1, <2>2, <2>3, <2>4, <2>5 DEF PostsTypeOK
<1>5. KeyIsHeld'
  <2>1. \A k \in Keys : keyHolder'[k] # Nothing =>
          keyHolder'[k] = keyHolder[k] /\ keyHolder[k] # r /\ keyHolder[k] \in Requests
    BY DEF Commit, PostsTypeOK
  <2>2. \A k \in Keys : keyHolder'[k] # Nothing => record'[k] = record[k]
    BY <1>0, <2>1, KeyOf DEF Commit, PostsTypeOK
  <2>3. \A k \in Keys : keyHolder'[k] # Nothing => pc'[keyHolder'[k]] = pc[keyHolder[k]]
    BY <2>1 DEF Commit, PostsTypeOK
  <2>4. \A k \in Keys : keyHolder'[k] # Nothing =>
          /\ Key[keyHolder'[k]] = k
          /\ pc'[keyHolder'[k]] \in Held
          /\ record'[k] = Nothing
    BY <2>1, <2>2, <2>3 DEF KeyIsHeld
  <2>5. \A q \in Requests : pc'[q] \in Held /\ Key[q] # NoKey => keyHolder'[Key[q]] = q
    BY KeyOf DEF Commit, KeyIsHeld, PostsTypeOK, Held
  <2> QED
    BY <2>4, <2>5 DEF KeyIsHeld
<1>6. RowIsHeld'
  <2>1. \A q \in Requests : pc'[q] # "locked"
    BY <1>0 DEF Commit, RowIsHeld, PostsTypeOK
  <2>2. rowHolder' = Nothing
    BY <1>0 DEF Commit
  <2> QED
    BY <2>1, <2>2, KeysAssumption DEF RowIsHeld
<1>7. RowsTell'
  <2>1. \A q \in Effects' : q \in Requests /\ pc'[q] = "done"
    BY <1>3 DEF Commit, RowsTell, PostsTypeOK
  <2>2. \A q \in Effects : Key[q] # NoKey => Key[q] # Key[r]
    <3> SUFFICES ASSUME NEW q \in Effects, Key[q] # NoKey, Key[q] = Key[r] PROVE FALSE
      OBVIOUS
    <3>1. q \in Requests /\ record[Key[q]] = Row(q)
      BY DEF RowsTell
    <3>2. record[Key[q]] = Nothing
      BY <1>0
    <3>3. Row(q) # Nothing
      BY <3>1, KeysAssumption DEF Row
    <3> QED
      BY <3>1, <3>2, <3>3
  <2>3. \A q \in Effects' : Key[q] # NoKey => record'[Key[q]] = Row(q)
    <3> SUFFICES ASSUME NEW q \in Effects', Key[q] # NoKey PROVE record'[Key[q]] = Row(q)
      OBVIOUS
    <3>1. CASE q = r
      BY <3>1, KeyOf DEF Commit, PostsTypeOK, Row
    <3>2. CASE q \in Effects
      <4>1. record[Key[q]] = Row(q) /\ Key[q] # Key[r]
        BY <2>2, <3>2 DEF RowsTell
      <4>2. record'[Key[q]] = record[Key[q]]
        BY <4>1, <2>1, KeyOf DEF Commit, PostsTypeOK
      <4> QED
        BY <4>1, <4>2
    <3> QED
      BY <1>3, <3>1, <3>2
  <2>4. \A k \in Keys : record'[k] # Nothing => \E q \in Effects' : Key[q] = k /\ record'[k] = Row(q)
    <3> SUFFICES ASSUME NEW k \in Keys, record'[k] # Nothing
                 PROVE  \E q \in Effects' : Key[q] = k /\ record'[k] = Row(q)
      OBVIOUS
    <3>1. CASE k = Key[r]
      <4>1. k # NoKey
        BY DEF Keys
      <4> QED
        BY <1>3, <2>3, <3>1, <4>1
    <3>2. CASE k # Key[r]
      <4>1. record'[k] = record[k]
        BY <3>2 DEF Commit, PostsTypeOK
      <4>2. PICK q \in Effects : Key[q] = k /\ record[k] = Row(q)
        BY <4>1 DEF RowsTell
      <4> QED
        BY <1>3, <4>1, <4>2
    <3> QED
      BY <3>1, <3>2
  <2> QED
    BY <2>1, <2>3, <2>4 DEF RowsTell
<1>8. Chained'
  <2>1. VerifyChain(trail')
    <3> SUFFICES ASSUME NEW n \in DOMAIN trail'
                 PROVE  /\ trail'[n].seq = n
                        /\ trail'[n].prev = IF n = 1 THEN ZERO_HASH
                                            ELSE [seq |-> n - 1, by |-> trail'[n - 1].by]
      BY DEF VerifyChain
    <3>1. DOMAIN trail = 1 .. Len(trail) /\ DOMAIN trail' = 1 .. (Len(trail) + 1)
      BY <1>2 DEF PostsTypeOK
    <3>2. CASE n \in 1 .. Len(trail)
      <4>1. trail'[n] = trail[n] /\ (n # 1 => trail'[n - 1] = trail[n - 1])
        BY <1>2, <3>2
      <4>2. /\ trail[n].seq = n
            /\ trail[n].prev = IF n = 1 THEN ZERO_HASH ELSE [seq |-> n - 1, by |-> trail[n - 1].by]
        BY <3>1, <3>2 DEF Chained, VerifyChain
      <4> QED
        BY <4>1, <4>2
    <3>3. CASE n = Len(trail) + 1
      <4>1. CASE trail = <<>>
        BY <1>0, <1>2, <3>3, <4>1 DEF LastRow, ZERO_HASH
      <4>2. CASE trail # <<>>
        <5>1. Len(trail) \in 1 .. Len(trail)
          BY <1>2, <4>2 DEF PostsTypeOK
        <5>2. read[r] = [seq |-> Len(trail), by |-> trail[Len(trail)].by]
          BY <1>0, <4>2 DEF LastRow
        <5>3. trail'[n].seq = n /\ trail'[n].prev = read[r]
          BY <1>2, <3>3, <5>2
        <5>4. trail'[n - 1] = trail[Len(trail)] /\ n - 1 = Len(trail) /\ n # 1
          BY <1>2, <3>3, <5>1
        <5> QED
          BY <5>2, <5>3, <5>4
      <4> QED
        BY <4>1, <4>2
    <3> QED
      BY <1>2, <3>1, <3>2, <3>3
  <2>2. IsFiniteSet(Effects') /\ Cardinality(Effects') = Cardinality(Effects) + 1
    BY <1>0, <1>3, FS_AddElement DEF Chained
  <2>3. Cardinality(Effects') = Len(trail')
    BY <1>2, <2>2 DEF Chained
  <2> QED
    BY <2>1, <2>2, <2>3 DEF Chained
<1>9. AnswersAreTheirs'
  <2> SUFFICES ASSUME NEW q \in Requests, answer'[q] \notin {Nothing, "reuse", "error"}
               PROVE  /\ answer'[q] \in Effects'
                      /\ Payload[answer'[q]] = Payload[q]
                      /\ answer'[q] # q => Key[answer'[q]] = Key[q]
    BY DEF AnswersAreTheirs
  <2>1. CASE q = r
    BY <1>3, <2>1 DEF Commit, PostsTypeOK
  <2>2. CASE q # r
    BY <1>3, <2>2 DEF Commit, PostsTypeOK, AnswersAreTheirs
  <2> QED
    BY <2>1, <2>2
<1> QED
  BY <1>4, <1>5, <1>6, <1>7, <1>8, <1>9

\* Every step keeps the invariant.
LEMMA PostInvNext == PostInv /\ [Next]_vars => PostInv'
<1> SUFFICES ASSUME PostInv, [Next]_vars PROVE PostInv'
  OBVIOUS
<1>1. CASE UNCHANGED vars
  BY <1>1 DEF vars, PostInv, PostsTypeOK, KeyIsHeld, RowIsHeld, LastRow, RowsTell, Effects,
              Chained, VerifyChain, AnswersAreTheirs
<1>2. CASE Next
  <2> PICK r \in Requests :
        Completed(r) \/ Prepare(r) \/ Reserve(r) \/ Lock(r) \/ Commit(r) \/ Fail(r)
    BY <1>2 DEF Next
  <2>0. pc[r] # "done" => r \notin Effects
    BY DEF PostInv, RowsTell
  <2>1. CASE Completed(r)
    <3>1. CASE Recorded(r)
      <4>1. End(r, FromRecord(r)) /\ UNCHANGED <<record, read, trail>> /\ r \notin Effects
        BY <2>0, <2>1, <3>1 DEF Completed
      <4> QED
        BY <3>1, <4>1, RecordAnswers, EndKeeps
    <3>2. CASE ~ Recorded(r)
      BY <2>1, <3>2, MoveKeeps DEF Completed
    <3> QED
      BY <3>1, <3>2
  <2>2. CASE Prepare(r)
    BY <2>2, MoveKeeps DEF Prepare
  <2>3. CASE Reserve(r)
    <3>1. CASE Recorded(r)
      <4>1. End(r, FromRecord(r)) /\ UNCHANGED <<record, read, trail>> /\ r \notin Effects
        BY <2>0, <2>3, <3>1 DEF Reserve
      <4> QED
        BY <3>1, <4>1, RecordAnswers, EndKeeps
    <3>2. CASE ~ Recorded(r)
      BY <2>3, <3>2, ReserveKeeps
    <3> QED
      BY <3>1, <3>2
  <2>4. CASE Lock(r)
    BY <2>4, LockKeeps
  <2>5. CASE Commit(r)
    BY <2>5, CommitKeeps
  <2>6. CASE Fail(r)
    <3>1. End(r, "error") /\ UNCHANGED <<record, read, trail>> /\ r \notin Effects
      BY <2>0, <2>6 DEF Fail
    <3> QED
      BY <3>1, EndKeeps
  <2> QED
    BY <2>1, <2>2, <2>3, <2>4, <2>5, <2>6
<1> QED
  BY <1>1, <1>2

\* However many requests share a key: at most one takes effect, and every answer
\* is that of the one that did (idempotency.py:26-73).
THEOREM KeyTakesEffectOnce == Spec => []KeysAreIdempotent
<1>1. Init => PostInv
  BY PostInvInit
<1>2. PostInv /\ [Next]_vars => PostInv'
  BY PostInvNext
<1>3. PostInv => KeysAreIdempotent
  <2> SUFFICES ASSUME PostInv PROVE EffectOnce
    BY DEF PostInv, KeysAreIdempotent
  <2>1. \A r \in Effects : Key[r] # NoKey => record[Key[r]] = Row(r)
    BY DEF PostInv, RowsTell
  <2>2. \A q, r : Row(q) = Row(r) => q = r
    BY DEF Row
  <2> QED
    BY <2>1, <2>2 DEF EffectOnce
<1> QED
  BY <1>1, <1>2, <1>3, PTL DEF Spec

\* However requests interleave and fail, the audit trail of the job is one chain,
\* with one link for each request that took effect (audit/service.py:21-51).
THEOREM TrailIsOneChain == Spec => []TrailIsChained
<1>1. Init => PostInv
  BY PostInvInit
<1>2. PostInv /\ [Next]_vars => PostInv'
  BY PostInvNext
<1>3. PostInv => TrailIsChained
  BY DEF PostInv, Chained, TrailIsChained
<1> QED
  BY <1>1, <1>2, <1>3, PTL DEF Spec

(***************************************************************************)
(* Leader.  However many instances and deploys there are, two of them run  *)
(* the workers only after the connection with the lock was lost.  The      *)
(* invariant counts the instances that believe they hold the lock without  *)
(* holding it: each of them stands for a lost connection.                  *)
(***************************************************************************)

\* The type invariant of the campaign.
LeaderTypeOK ==
  /\ holder \in Instances \cup {Free}
  /\ connection \in [Instances -> BOOLEAN]
  /\ campaign \in [Instances -> {"campaigning", "leading", "over"}]
  /\ workers \in [Instances -> BOOLEAN]
  /\ losses \in Nat /\ deploys \in Nat

Believers == {p \in Instances : connection[p]}
Mistaken == Believers \ {holder}

\* Workers run only where the lock is believed held; a mistaken belief costs a loss.
LockInv ==
  /\ LeaderTypeOK
  /\ \A p \in Instances : workers[p] => connection[p]
  /\ Cardinality(Mistaken) <= losses

\* A set of instances is finite, and its subsets are no larger.
LEMMA Smaller ==
  ASSUME NEW S, NEW T, T \subseteq Instances, S \subseteq T
  PROVE  /\ IsFiniteSet(T) /\ IsFiniteSet(S)
         /\ Cardinality(S) \in Nat /\ Cardinality(T) \in Nat
         /\ Cardinality(S) <= Cardinality(T)
<1>1. IsFiniteSet(T)
  BY FS_Subset, FreeAssumption
<1>2. IsFiniteSet(S) /\ Cardinality(S) <= Cardinality(T)
  BY <1>1, FS_Subset
<1> QED
  BY <1>1, <1>2, FS_CardinalityType

\* One element more.
LEMMA OneMore ==
  ASSUME NEW S, IsFiniteSet(S), NEW x
  PROVE  /\ IsFiniteSet(S \cup {x})
         /\ Cardinality(S \cup {x}) <= Cardinality(S) + 1
<1>1. Cardinality(S) \in Nat
  BY FS_CardinalityType
<1>2. /\ IsFiniteSet(S \cup {x})
      /\ \/ Cardinality(S \cup {x}) = Cardinality(S)
         \/ Cardinality(S \cup {x}) = Cardinality(S) + 1
  BY FS_AddElement
<1> QED
  BY <1>1, <1>2

\* Initially nobody believes anything.
LEMMA LockInvInit == LeaderInit => LockInv
<1> SUFFICES ASSUME LeaderInit PROVE LockInv
  OBVIOUS
<1>1. LeaderTypeOK
  BY DEF LeaderInit, LeaderTypeOK
<1>2. Mistaken = {}
  BY DEF LeaderInit, Mistaken, Believers
<1>3. Cardinality(Mistaken) = 0
  BY <1>2, FS_EmptySet
<1> QED
  BY <1>1, <1>3 DEF LeaderInit, LockInv

\* A step after which no more instances are mistaken, and no fewer losses are counted.
LEMMA NoMoreMistaken ==
  ASSUME LockInv, Mistaken' \subseteq Mistaken, losses' = losses
  PROVE  Cardinality(Mistaken') <= losses'
<1>1. Mistaken \subseteq Instances
  BY DEF Mistaken, Believers
<1>2. Cardinality(Mistaken') <= Cardinality(Mistaken)
      /\ Cardinality(Mistaken') \in Nat /\ Cardinality(Mistaken) \in Nat
  BY <1>1, Smaller
<1> QED
  BY <1>2 DEF LockInv, LeaderTypeOK

\* Every step keeps the invariant; only a lost connection makes one more mistaken.
LEMMA LockInvNext ==
  LockInv /\ [LeaderNext]_leaderVars => LockInv'
<1> SUFFICES ASSUME LockInv, [LeaderNext]_leaderVars PROVE LockInv'
  OBVIOUS
<1> USE DEF LockInv, LeaderTypeOK
<1>1. CASE UNCHANGED leaderVars
  <2>1. Mistaken' \subseteq Mistaken /\ losses' = losses
    BY <1>1 DEF leaderVars, Mistaken, Believers
  <2>2. Cardinality(Mistaken') <= losses'
    BY <2>1, NoMoreMistaken
  <2> QED
    BY <1>1, <2>2 DEF leaderVars
<1>2. CASE LeaderNext
  <2> PICK p \in Instances : Step(p) \/ LoseConnection(p) \/ Stop(p) \/ Die(p)
    BY <1>2 DEF LeaderNext
  <2>1. CASE Acquire(p)
    <3>1. Mistaken' \subseteq Mistaken /\ losses' = losses
      BY <2>1, FreeAssumption DEF Acquire, Mistaken, Believers
    <3>2. Cardinality(Mistaken') <= losses'
      BY <3>1, NoMoreMistaken
    <3> QED
      BY <2>1, <3>2 DEF Acquire
  <2>2. CASE LoopsFinish(p)
    <3>1. Mistaken' \subseteq Mistaken /\ losses' = losses
      BY <2>2 DEF LoopsFinish, Mistaken, Believers
    <3>2. Cardinality(Mistaken') <= losses'
      BY <3>1, NoMoreMistaken
    <3> QED
      BY <2>2, <3>2 DEF LoopsFinish
  <2>3. CASE Release(p)
    <3>1. Mistaken' \subseteq Mistaken /\ losses' = losses
      BY <2>3 DEF Release, Mistaken, Believers
    <3>2. Cardinality(Mistaken') <= losses'
      BY <3>1, NoMoreMistaken
    <3> QED
      BY <2>3, <3>2 DEF Release
  <2>4. CASE Start(p)
    <3>1. Mistaken' \subseteq Mistaken /\ losses' = losses
      BY <2>4 DEF Start, Mistaken, Believers
    <3>2. Cardinality(Mistaken') <= losses'
      BY <3>1, NoMoreMistaken
    <3> QED
      BY <2>4, <3>2 DEF Start
  <2>5. CASE LoseConnection(p)
    <3>1. Mistaken' \subseteq Mistaken \cup {p}
      BY <2>5 DEF LoseConnection, Mistaken, Believers
    <3>2. Mistaken \subseteq Instances
      BY DEF Mistaken, Believers
    <3>3. IsFiniteSet(Mistaken) /\ Cardinality(Mistaken) \in Nat
      BY <3>2, Smaller
    <3>4. Cardinality(Mistaken \cup {p}) <= Cardinality(Mistaken) + 1
      BY <3>3, OneMore
    <3>5. Mistaken \cup {p} \subseteq Instances
      BY <3>2
    <3>6. /\ Cardinality(Mistaken') <= Cardinality(Mistaken \cup {p})
          /\ Cardinality(Mistaken') \in Nat /\ Cardinality(Mistaken \cup {p}) \in Nat
      BY <3>1, <3>5, Smaller
    <3>7. Cardinality(Mistaken') <= losses'
      BY <2>5, <3>3, <3>4, <3>6 DEF LoseConnection
    <3> QED
      BY <2>5, <3>7 DEF LoseConnection
  <2>6. CASE Stop(p)
    <3>1. Mistaken' \subseteq Mistaken /\ losses' = losses
      BY <2>6 DEF Stop, Mistaken, Believers
    <3>2. Cardinality(Mistaken') <= losses'
      BY <3>1, NoMoreMistaken
    <3> QED
      BY <2>6, <3>2 DEF Stop
  <2>7. CASE Die(p)
    <3>1. Mistaken' \subseteq Mistaken /\ losses' = losses
      BY <2>7 DEF Die, Mistaken, Believers
    <3>2. Cardinality(Mistaken') <= losses'
      BY <3>1, NoMoreMistaken
    <3> QED
      BY <2>7, <3>2 DEF Die
  <2> QED
    BY <2>1, <2>2, <2>3, <2>4, <2>5, <2>6, <2>7 DEF Step
<1> QED
  BY <1>1, <1>2

\* Those who work believe they hold the lock, and one of them at most is right.
LEMMA LockInvDoubled == LockInv => DoubledByLossOnly
<1> SUFFICES ASSUME LockInv PROVE Cardinality(Working) <= 1 + losses
  BY DEF DoubledByLossOnly
<1>1. Working \subseteq Mistaken \cup {holder}
  BY DEF LockInv, LeaderTypeOK, Working, Mistaken, Believers
<1>2. Mistaken \subseteq Instances
  BY DEF Mistaken, Believers
<1>3. IsFiniteSet(Mistaken) /\ Cardinality(Mistaken) \in Nat
  BY <1>2, Smaller
<1>4. /\ IsFiniteSet(Mistaken \cup {holder})
      /\ Cardinality(Mistaken \cup {holder}) <= Cardinality(Mistaken) + 1
  BY <1>3, OneMore
<1>5. /\ IsFiniteSet(Working)
      /\ Cardinality(Working) <= Cardinality(Mistaken \cup {holder})
  BY <1>1, <1>4, FS_Subset
<1>6. Cardinality(Working) \in Nat /\ Cardinality(Mistaken \cup {holder}) \in Nat
  BY <1>4, <1>5, FS_CardinalityType
<1> QED
  BY <1>3, <1>4, <1>5, <1>6 DEF LockInv, LeaderTypeOK

\* For any number of instances, losses and deploys: the workers run in more than
\* one instance only if a connection with the lock was lost (leader.py:1).
THEOREM NoDoubleWithoutLoss == LeaderSpec => []DoubledByLossOnly
<1>1. LeaderInit => LockInv
  BY LockInvInit
<1>2. LockInv /\ [LeaderNext]_leaderVars => LockInv'
  BY LockInvNext
<1>3. LockInv => DoubledByLossOnly
  BY LockInvDoubled
<1> QED
  BY <1>1, <1>2, <1>3, PTL DEF LeaderSpec

(***************************************************************************)
(* Ladder.  For any evidence, amounts, budgets and answers of the model: a *)
(* proposal passed its checks and rests on all the evidence, and two calls *)
(* with their retries take no more than twice the budget of one.           *)
(*                                                                         *)
(* The invariant is what holds while the ladder works outside of the       *)
(* database: the job cannot leave RESOLVING, so nobody adds to what was    *)
(* read, a call never spends more than its budget, and what was decided    *)
(* passed its checks.                                                      *)
(***************************************************************************)

\* The type invariant, as far as it is needed.
LadderTypeOK ==
  /\ amount \in Nat
  /\ stage \in {"idle", "coverage", "resolve", "decided"}
  /\ waited \in Nat
  /\ Calling => call.attempt \in {1, 2} /\ call.spent \in 0 .. BUDGET

\* What the ladder read is what there is, and the job waits for it.
Sees ==
  /\ stage # "idle" => state = "RESOLVING" /\ proposal = None /\ data = evidence
  /\ proposal # None => state = "PROPOSED" /\ data = evidence

\* The time of the two calls.
Prompt ==
  /\ stage = "coverage" => waited = call.spent
  /\ stage = "resolve" => waited <= BUDGET + call.spent
  /\ waited <= 2 * BUDGET

\* The model is only asked about jobs it may decide, and a verdict passed its checks.
Checked(verdict) ==
  /\ verdict.remedy \in Remedy
  /\ verdict.cited # {} /\ verdict.cited \subseteq {e.file : e \in data}
  /\ verdict.level = "L2" => amount <= L2_MAX_AMOUNT /\ verdict.confidence >= L2_MIN_CONFIDENCE
Judged ==
  /\ stage = "resolve" => amount <= L2_MAX_AMOUNT
  /\ stage = "decided" => result.remedy = None \/ Checked(result)

LadderInv == LadderTypeOK /\ Sees /\ Prompt /\ Judged /\ ProposalIsAdmissible

\* The shares of every remedy are amounts, and all of the money.
LEMMA RemedySplits ==
  ASSUME NEW a \in Nat, NEW r \in Remedy
  PROVE  LET s == Split(a, REMEDY_BPS[r])
         IN  s.toProvider \in Nat /\ s.toCustomer \in Nat /\ s.toProvider + s.toCustomer = a
<1> DEFINE p == (a * REMEDY_BPS[r]) \div 10000
<1>1. REMEDY_BPS[r] \in {0, 5000, 7000, 10000}
  BY DEF Remedy, REMEDY_BPS
<1>2. \A n \in {0, 5000, 7000, 10000} :
        (a * n) \div 10000 \in Nat /\ (a * n) \div 10000 <= a
  OBVIOUS
<1>3. p \in Nat /\ p <= a
  BY <1>1, <1>2
<1>4. Split(a, REMEDY_BPS[r]) = [toProvider |-> p, toCustomer |-> a - p]
  BY DEF Split, BPS
<1> HIDE DEF p
<1> QED
  BY <1>3, <1>4

LEMMA LadderInvInit == LadderInit => LadderInv
BY AmountsAssumption, BudgetAssumption
DEF LadderInit, LadderInv, LadderTypeOK, Sees, Prompt, Judged, ProposalIsAdmissible, Calling

\* The parties add and complain before the ladder begins.
LEMMA PartiesKeep ==
  ASSUME LadderInv,
         (\E f \in OwnFiles : AddComplaintPhoto(f) \/ AddCounter(f)) \/ Complain \/ Respond
  PROVE  LadderInv'
<1>1. /\ stage = "idle" /\ proposal = None
      /\ UNCHANGED <<amount, stage, data, call, result, waited, proposal>>
  BY DEF LadderInv, Sees, AddComplaintPhoto, AddCounter, Upload, Complain, Respond
<1> QED
  BY <1>1 DEF LadderInv, LadderTypeOK, Sees, Prompt, Judged, ProposalIsAdmissible, Calling

\* What a call that is over leaves behind.
LEMMA Concluded ==
  ASSUME LadderInv, stage # "idle", NEW verdict, Conclude(verdict),
         verdict.remedy = None \/ Checked(verdict),
         waited' \in Nat, waited' <= 2 * BUDGET,
         UNCHANGED <<state, amount, evidence, data, proposal>>
  PROVE  LadderInv'
BY DEF LadderInv, LadderTypeOK, Sees, Prompt, Judged, Checked, ProposalIsAdmissible, Calling, Conclude, Go

\* The first call is over, whatever came of it.
LEMMA CoverageKeeps ==
  ASSUME LadderInv, stage = "coverage", AfterCoverage, waited' \in Nat, waited' <= BUDGET,
         UNCHANGED <<state, amount, evidence, data, proposal>>
  PROVE  LadderInv'
<1>1. waited' <= 2 * BUDGET
  BY BudgetAssumption
<1>2. CASE L1Decides /\ Conclude(L1Result)
  <2>1. FilesOf("customer") \subseteq {e.file : e \in data} /\ FilesOf("customer") # {}
    BY <1>2 DEF L1Decides, FilesOf
  <2>2. Checked(L1Result)
    BY <2>1 DEF Checked, L1Result, Remedy
  <2> QED
    BY <1>1, <1>2, <2>2, Concluded
<1>3. CASE Conclude(Escalated)
  BY <1>1, <1>3, Concluded DEF Escalated
<1>4. CASE amount <= L2_MAX_AMOUNT /\ Go("resolve") /\ call' = NewCall /\ UNCHANGED result
  <2>1. stage' = "resolve" /\ call' = [attempt |-> 1, spent |-> 0]
    BY <1>4 DEF Go, NewCall
  <2> QED
    BY <1>1, <1>4, <2>1, BudgetAssumption
    DEF LadderInv, LadderTypeOK, Sees, Prompt, Judged, ProposalIsAdmissible, Calling
<1> QED
  BY <1>2, <1>3, <1>4 DEF AfterCoverage

\* An attempt never outlasts the budget of its call.
LEMMA AttemptInTime ==
  ASSUME LadderInv, NEW t \in 1 .. BUDGET, Attempt(t)
  PROVE  /\ stage \in {"coverage", "resolve"} /\ waited' = waited + t /\ waited' \in Nat
         /\ call.spent \in 0 .. BUDGET /\ call.spent + t <= BUDGET
         /\ stage = "coverage" => waited' <= BUDGET
         /\ waited' <= 2 * BUDGET
BY BudgetAssumption DEF LadderInv, LadderTypeOK, Prompt, Attempt, Calling

\* The second call is over without a verdict of the model.
LEMMA UnavailableKeeps ==
  ASSUME LadderInv, NEW t \in 1 .. BUDGET, Attempt(t), Unavailable,
         UNCHANGED <<state, amount, evidence, data, proposal>>
  PROVE  LadderInv'
<1>1. CASE stage = "coverage"
  BY <1>1, AttemptInTime, CoverageKeeps DEF Unavailable
<1>2. CASE stage # "coverage"
  <2>1. Conclude(Escalated) /\ stage # "idle"
    BY <1>2, AttemptInTime DEF Unavailable
  <2> QED
    BY <2>1, AttemptInTime, Concluded DEF Escalated
<1> QED
  BY <1>1, <1>2

\* What the model says is checked before it counts.
LEMMA AnswerKeeps ==
  ASSUME LadderInv, NEW t \in 1 .. BUDGET, CallAnswers(t)
  PROVE  LadderInv'
<1>1. Attempt(t) /\ UNCHANGED <<state, amount, evidence, data, proposal>>
  BY DEF CallAnswers
<1>2. CASE stage = "coverage"
  BY <1>1, <1>2, AttemptInTime, CoverageKeeps DEF CallAnswers
<1>3. CASE stage = "resolve"
  <2>1. PICK said \in Answers : Conclude(Judge(said))
    BY <1>3 DEF CallAnswers
  <2>2. amount <= L2_MAX_AMOUNT
    BY <1>3 DEF LadderInv, Judged
  <2>3. said.remedy \in Remedy /\ said.cited # {}
    BY <2>1 DEF Answers
  <2>4. CASE said.cited \subseteq {e.file : e \in data} /\ said.confidence >= L2_MIN_CONFIDENCE
    <3> DEFINE verdict == [remedy |-> said.remedy, level |-> "L2", cited |-> said.cited,
                           confidence |-> said.confidence]
    <3>1. Judge(said) = verdict
      BY <2>4 DEF Judge
    <3>2. /\ verdict.remedy = said.remedy /\ verdict.cited = said.cited
          /\ verdict.confidence = said.confidence
      OBVIOUS
    <3> HIDE DEF verdict
    <3>3. Checked(verdict)
      BY <2>2, <2>3, <2>4, <3>2 DEF Checked
    <3> QED
      BY <1>1, <1>3, <2>1, <3>1, <3>3, AttemptInTime, Concluded
  <2>5. CASE Judge(said) = Escalated
    BY <1>1, <1>3, <2>1, <2>5, AttemptInTime, Concluded DEF Escalated
  <2> QED
    BY <2>4, <2>5 DEF Judge
<1> QED
  BY <1>1, <1>2, <1>3, AttemptInTime

\* A failed attempt is followed by one for what is left of the budget.
LEMMA FailureKeeps ==
  ASSUME LadderInv, NEW t \in 1 .. BUDGET, CallFails(t)
  PROVE  LadderInv'
<1>1. Attempt(t) /\ UNCHANGED <<state, amount, evidence, data, proposal>>
  BY DEF CallFails
<1>2. CASE Unavailable
  BY <1>1, <1>2, UnavailableKeeps
<1>3. CASE call' = [attempt |-> 2, spent |-> call.spent + t] /\ UNCHANGED <<stage, result>>
  <2>1. call'.attempt = 2 /\ call'.spent = call.spent + t
    BY <1>3
  <2> QED
    BY <1>1, <1>3, <2>1, AttemptInTime, BudgetAssumption
    DEF LadderInv, LadderTypeOK, Sees, Prompt, Judged, Checked, ProposalIsAdmissible, Calling
<1> QED
  BY <1>2, <1>3 DEF CallFails

\* A verdict that passed its checks becomes the proposal.
LEMMA FinishKeeps ==
  ASSUME LadderInv, Finish
  PROVE  LadderInv'
<1>1. /\ stage = "decided" /\ stage' = "idle" /\ data = evidence
      /\ UNCHANGED <<amount, evidence, data, waited>>
  BY DEF LadderInv, Sees, Finish, Go
<1>2. CASE state' = "ESCALATED" /\ UNCHANGED proposal
  BY <1>1, <1>2 DEF LadderInv, LadderTypeOK, Sees, Prompt, Judged, ProposalIsAdmissible, Calling
<1>3. CASE result.remedy # None
  <2> DEFINE split == Split(amount, REMEDY_BPS[result.remedy])
  <2>1. Checked(result) /\ amount \in Nat
    BY <1>1, <1>3 DEF LadderInv, Judged, LadderTypeOK
  <2>2. split.toProvider + split.toCustomer = amount
    BY <2>1, RemedySplits DEF Checked
  <2> HIDE DEF split
  <2>3. state' = "PROPOSED" /\ proposal' = [remedy |-> result.remedy, level |-> result.level,
          cited |-> result.cited, confidence |-> result.confidence, split |-> split]
    BY <1>3 DEF Finish, split
  <2>4. ProposalIsAdmissible'
    BY <1>1, <2>1, <2>2, <2>3 DEF ProposalIsAdmissible, Checked
  <2> QED
    BY <1>1, <2>3, <2>4 DEF LadderInv, LadderTypeOK, Sees, Prompt, Judged, Calling
<1> QED
  BY <1>2, <1>3 DEF Finish

LEMMA LadderInvNext == LadderInv /\ [LadderNext]_ladderVars => LadderInv'
<1> SUFFICES ASSUME LadderInv, [LadderNext]_ladderVars PROVE LadderInv'
  OBVIOUS
<1>1. CASE UNCHANGED ladderVars
  BY <1>1
  DEF ladderVars, LadderInv, LadderTypeOK, Sees, Prompt, Judged, Checked, ProposalIsAdmissible, Calling
<1>2. CASE RunLadder
  <2>1. call' = [attempt |-> 1, spent |-> 0] /\ proposal = None
    BY <1>2 DEF RunLadder, NewCall, LadderInv, Sees
  <2> QED
    BY <1>2, <2>1, BudgetAssumption
    DEF RunLadder, ReadInput, Go, LadderInv, LadderTypeOK, Sees, Prompt, Judged, ProposalIsAdmissible,
        Calling
<1>3. CASE Model
  BY <1>3, AnswerKeeps, FailureKeeps, UnavailableKeeps DEF Model, CallRefused
<1>4. CASE Crash
  BY <1>4
  DEF Crash, Go, LadderInv, LadderTypeOK, Sees, Prompt, Judged, ProposalIsAdmissible, Calling
<1> QED
  BY <1>1, <1>2, <1>3, <1>4, PartiesKeep, FinishKeeps DEF LadderNext

LEMMA LadderInvariant == LadderSpec => []LadderInv
BY LadderInvInit, LadderInvNext, PTL DEF LadderSpec

\* Whatever the model answers, however long it takes and however often the ladder
\* starts again: a proposal passed its checks and rests on all the evidence
\* (ladder.py:60-81, disputes/service.py:184-239).
THEOREM ProposalsAreSound == LadderSpec => []ProposalIsSound
<1>1. LadderInv => ProposalIsSound
  BY DEF LadderInv, Sees, ProposalIsSound, EvidenceIsAllSeen
<1> QED
  BY <1>1, LadderInvariant, PTL

\* For every budget and minimum for a retry: both calls together take at most
\* twice the budget (client.py:76-81).
THEOREM LadderKeepsTime == LadderSpec => []LadderIsPrompt
<1>1. LadderInv => LadderIsPrompt
  BY DEF LadderInv, Prompt, LadderIsPrompt
<1> QED
  BY <1>1, LadderInvariant, PTL
==============================================================================
