----------------------- MODULE WhiteboardLedger_proofs -----------------------
(***************************************************************************)
(* Proofs about WhiteboardLedger, for any number of workers, ids and any   *)
(* batch and import size, and about History, whose panel pages through the *)
(* ledger while it grows.                                                  *)
(***************************************************************************)
EXTENDS History, SequenceLemmas, FiniteSetTheorems

-----------------------------------------------------------------------------
(* Types.                                                                   *)

\* What a request looks like between its steps: it has operations while they
\* are being handled, an import never hands over more than it has, and an
\* operation that was met has left an acknowledgement.
RequestInv ==
  \A w \in Workers :
    /\ pc[w] \in {"snapshot", "queued", "loop"} => batch[w] # <<>>
    /\ sent[w] <= Len(plan[w])
    /\ pc[w] = "loop" /\ seen[w] = {} => todo[w] # <<>>
    /\ seen[w] # {} => acks[w] # <<>>

TypeInv == TypeOK /\ RequestInv

LEMMA EditType ==
  ASSUME NEW id \in Ids, NEW base \in Nat
  PROVE  Edit(id, base) \in Op
BY DEF Edit, Op

LEMMA BatchType ==
  ASSUME version \in Nat, NEW n \in 1..MaxBatch,
         NEW ids \in [1..n -> OpIds], NEW bases \in Bases(n)
  PROVE  EditBatch(ids, bases) \in Seq(Op) /\ EditBatch(ids, bases) # <<>>
<1>1. n \in Nat /\ n > 0
  BY BatchAssumption
<1>2. \A k \in 1..n : ids[k] \in Ids /\ bases[k] \in Nat
  BY <1>1 DEF Ids, Bases
<1>3. \A k \in 1..n : Edit(ids[k], bases[k]) \in Op
  BY <1>2, EditType
<1>4. EditBatch(ids, bases) \in [1..n -> Op]
  BY <1>3 DEF EditBatch
<1>5. EditBatch(ids, bases) \in Seq(Op) /\ Len(EditBatch(ids, bases)) = n
  BY <1>1, <1>4, SeqDef, LenProperties
<1> QED
  BY <1>1, <1>5, EmptySeq

LEMMA ChunkType ==
  ASSUME NEW p \in Seq(Ids), NEW n \in Nat, NEW v \in Nat, n <= Len(p)
  PROVE  /\ Chunk(p, n, v) \in Seq(Op)
         /\ Len(Chunk(p, n, v)) + n <= Len(p)
         /\ n < Len(p) => Chunk(p, n, v) # <<>>
<1> DEFINE m == IF Len(p) - n < MaxBatch THEN Len(p) - n ELSE MaxBatch
<1>1. m \in Nat /\ m + n <= Len(p) /\ (n < Len(p) => m > 0)
  BY BatchAssumption, LenProperties
<1>2. \A k \in 1..m : p[n + k] \in Ids /\ v + k - 1 \in Nat
  BY <1>1, ElementOfSeq
<1>3. \A k \in 1..m : Edit(p[n + k], v + k - 1) \in Op
  BY <1>2, EditType
<1>4. Chunk(p, n, v) \in [1..m -> Op]
  BY <1>3 DEF Chunk
<1> HIDE DEF m
<1>5. Chunk(p, n, v) \in Seq(Op) /\ Len(Chunk(p, n, v)) = m
  BY <1>1, <1>4, SeqDef, LenProperties
<1> QED
  BY <1>1, <1>5, EmptySeq

LEMMA TypeInit == Init => TypeInv
<1> SUFFICES ASSUME Init PROVE TypeInv
  OBVIOUS
<1>1. /\ <<>> \in Seq(Op) /\ <<>> \in Seq(Ids) /\ <<>> \in Seq(Ack)
      /\ Len(<<>>) = 0
  BY EmptySeq
<1>2. TypeOK
  BY <1>1 DEF Init, TypeOK, NoAnswer, Answer
<1>3. ASSUME NEW w \in Workers
      PROVE  /\ pc[w] = "idle" /\ sent[w] = 0 /\ seen[w] = {}
  BY DEF Init
<1>4. ASSUME NEW w \in Workers
      PROVE  Len(plan[w]) = 0
  BY <1>1 DEF Init
<1>5. RequestInv
  <2> SUFFICES ASSUME NEW w \in Workers
               PROVE  /\ pc[w] \in {"snapshot", "queued", "loop"} => batch[w] # <<>>
                      /\ sent[w] <= Len(plan[w])
                      /\ pc[w] = "loop" /\ seen[w] = {} => todo[w] # <<>>
                      /\ seen[w] # {} => acks[w] # <<>>
    BY DEF RequestInv
  <2>1. pc[w] = "idle" /\ sent[w] = 0 /\ seen[w] = {} /\ Len(plan[w]) = 0
    BY <1>3, <1>4
  <2>2. sent[w] <= Len(plan[w])
    BY <2>1
  <2>3. pc[w] \notin {"snapshot", "queued", "loop"}
    BY <2>1
  <2> QED
    BY <2>1, <2>2, <2>3
<1> QED
  BY <1>2, <1>5 DEF TypeInv

LEMMA ReceiveType ==
  ASSUME TypeInv, NEW w \in Workers, NEW where \in {"snapshot", "queued"}, NEW v \in Nat,
         NEW b \in Seq(Op), b # <<>>, NEW p \in Seq(Ids), NEW n \in Nat, n <= Len(p),
         Receive(w, where, v, b, p, n)
  PROVE  TypeInv'
<1>1. TypeOK'
  BY DEF TypeInv, TypeOK, Receive, dbVars, txVars
<1>2. RequestInv'
  BY DEF TypeInv, TypeOK, RequestInv, Receive, dbVars, txVars
<1> QED
  BY <1>1, <1>2 DEF TypeInv

LEMMA RequestType ==
  ASSUME TypeInv, NEW w \in Workers, Request(w)
  PROVE  TypeInv'
<1>0. version \in Nat
  BY DEF TypeInv, TypeOK
<1>1. CASE \E n \in 1..MaxBatch : \E ids \in [1..n -> OpIds], bases \in Bases(n) :
             Submit(w, EditBatch(ids, bases))
  <2>1. PICK n \in 1..MaxBatch : \E ids \in [1..n -> OpIds], bases \in Bases(n) :
               Submit(w, EditBatch(ids, bases))
    BY <1>1
  <2>2. PICK ids \in [1..n -> OpIds], bases \in Bases(n) :
               Submit(w, EditBatch(ids, bases))
    BY <2>1
  <2>3. EditBatch(ids, bases) \in Seq(Op) /\ EditBatch(ids, bases) # <<>>
    BY <1>0, BatchType
  <2>4. <<>> \in Seq(Ids) /\ 0 <= Len(<<>>)
    BY EmptySeq
  <2> QED
    BY <2>2, <2>3, <2>4, ReceiveType DEF Submit
<1>2. CASE \E id \in RestoreIds, base \in 0..version, target \in 0..(version + 1) :
             Restore(w, id, base, target)
  <2>1. PICK id \in RestoreIds, base \in 0..version, target \in 0..(version + 1) :
               Restore(w, id, base, target)
    BY <1>2
  <2> DEFINE op == [kind |-> "restore", id |-> id, base |-> base,
                    target |-> target, snap |-> {}]
  <2>2. op \in Op
    BY <1>0 DEF Op, Ids
  <2>3. <<op>> \in Seq(Op) /\ <<op>> # <<>>
    BY <2>2
  <2>4. <<>> \in Seq(Ids) /\ 0 <= Len(<<>>)
    BY EmptySeq
  <2> QED
    BY <1>0, <2>1, <2>3, <2>4, ReceiveType DEF Restore
<1>3. CASE \E n \in 1..MaxImport : \E p \in ImportPlans(n) : Import(w, p)
  <2>1. PICK n \in 1..MaxImport : \E p \in ImportPlans(n) : Import(w, p)
    BY <1>3
  <2>2. PICK p \in ImportPlans(n) : Import(w, p)
    BY <2>1
  <2>3. p \in [1..n -> Ids] /\ n \in Nat /\ n > 0
    BY ImportAssumption DEF ImportPlans, Ids
  <2>4. p \in Seq(Ids) /\ Len(p) = n
    BY <2>3, SeqDef, LenProperties
  <2> DEFINE first == Chunk(p, 0, version)
  <2>5. /\ first \in Seq(Op)
        /\ Len(first) + 0 <= Len(p)
        /\ 0 < Len(p) => first # <<>>
    BY <1>0, <2>4, ChunkType, 0 \in Nat, 0 <= Len(p)
  <2>6. Len(first) \in Nat
    BY <2>5, LenProperties
  <2> QED
    BY <1>0, <2>2, <2>3, <2>4, <2>5, <2>6, ReceiveType DEF Import
<1> QED
  BY <1>1, <1>2, <1>3 DEF Request

LEMMA TailType ==
  ASSUME NEW S, NEW s \in Seq(S), s # <<>>
  PROVE  Head(s) \in S /\ Tail(s) \in Seq(S)
BY HeadTailProperties

LEMMA AppendType ==
  ASSUME NEW S, NEW s \in Seq(S), NEW e \in S
  PROVE  Append(s, e) \in Seq(S) /\ Append(s, e) # <<>>
BY AppendProperties, EmptySeq

\* A batch that was walked through to its end has acknowledged something.
LEMMA ResultVersionType ==
  ASSUME TypeInv, NEW w \in Workers, pc[w] = "loop", todo[w] = <<>>
  PROVE  ResultVersion(w) \in Nat
<1>1. acks[w] \in Seq(Ack) /\ acks[w] # <<>>
  BY DEF TypeInv, TypeOK, RequestInv
<1>2. Len(acks[w]) \in 1..Len(acks[w])
  BY <1>1, EmptySeq, LenProperties
<1>3. acks[w][Len(acks[w])] \in Ack
  BY <1>1, <1>2, ElementOfSeq
<1> QED
  BY <1>3 DEF ResultVersion, Ack

LEMMA ForgetType ==
  ASSUME TypeInv, NEW w \in Workers, Forget(w), lock' \in Workers \cup {NoWorker}
  PROVE  TypeInv'
<1>1. /\ <<>> \in Seq(Op) /\ <<>> \in Seq(Ids) /\ <<>> \in Seq(Ack)
      /\ Len(<<>>) = 0
  BY EmptySeq
<1>2. TypeOK'
  BY <1>1 DEF TypeInv, TypeOK, Forget, EndTx, NoAnswer, Answer, dbVars
<1>3. ASSUME NEW v \in Workers
      PROVE  /\ pc'[v] = IF v = w THEN "idle" ELSE pc[v]
             /\ batch'[v] = IF v = w THEN <<>> ELSE batch[v]
             /\ sent'[v] = IF v = w THEN 0 ELSE sent[v]
             /\ Len(plan'[v]) = IF v = w THEN 0 ELSE Len(plan[v])
             /\ seen'[v] = IF v = w THEN {} ELSE seen[v]
             /\ todo'[v] = IF v = w THEN <<>> ELSE todo[v]
             /\ acks'[v] = IF v = w THEN <<>> ELSE acks[v]
  BY <1>1 DEF TypeInv, TypeOK, Forget, EndTx
<1>4. RequestInv'
  BY <1>3 DEF TypeInv, RequestInv
<1> QED
  BY <1>2, <1>4 DEF TypeInv

LEMMA ServeType ==
  ASSUME TypeInv, NEW w \in Workers, Serve(w)
  PROVE  TypeInv'
<1> USE DEF TypeInv, dbVars, reqVars, txVars
<1>1. CASE BuildSnapshot(w)
  <2>1. batch[w] \in Seq(Op) /\ batch[w] # <<>>
    BY <1>1 DEF TypeOK, RequestInv, BuildSnapshot
  <2>2. batch[w][1] \in Op
    BY <2>1, ElementOfSeq, EmptySeq
  <2>3. Prefix(batch[w][1].target) \in SUBSET (Nat \X Ids)
    <3>1. ASSUME NEW r \in ops PROVE <<r.seq, r.op.id>> \in Nat \X Ids
      BY DEF TypeOK, Row, Op
    <3> QED
      BY <3>1 DEF Prefix
  <2>4. WithSnapshot(batch[w][1]) \in Op
    BY <2>2, <2>3 DEF Op, WithSnapshot
  <2> DEFINE b == <<WithSnapshot(batch[w][1])>>
  <2>5. b \in Seq(Op) /\ b # <<>>
    BY <2>4
  <2> HIDE DEF b
  <2>6. CASE TargetKnown(w)
    <3>1. /\ pc' = [pc EXCEPT ![w] = "queued"]
          /\ batch' = [batch EXCEPT ![w] = b]
          /\ inst' = [inst EXCEPT ![w] = 0]
          /\ UNCHANGED <<ops, version, archived, lock, plan, sent, todo, seen,
                         expected, rows, acks, result>>
      BY <1>1, <2>6 DEF BuildSnapshot, b
    <3> QED
      BY <2>5, <3>1 DEF TypeOK, RequestInv
  <2>7. CASE ~TargetKnown(w)
    <3>1. /\ pc' = [pc EXCEPT ![w] = "answer"]
          /\ result' = [result EXCEPT ![w] = [status |-> "invalid", version |-> 0]]
          /\ inst' = [inst EXCEPT ![w] = 0]
          /\ UNCHANGED <<ops, version, archived, lock, batch, plan, sent, todo, seen,
                         expected, rows, acks>>
      BY <1>1, <2>7 DEF BuildSnapshot, Answer
    <3> QED
      BY <3>1 DEF TypeOK, RequestInv
  <2> QED
    BY <2>6, <2>7
<1>2. CASE LockRow(w)
  BY <1>2, SMTT(30) DEF TypeOK, RequestInv, LockRow
<1>3. CASE RefuseArchived(w)
  BY <1>3 DEF TypeOK, RequestInv, RefuseArchived, Answer
<1>4. CASE SkipRepeat(w)
  BY <1>4, TailType DEF TypeOK, RequestInv, SkipRepeat, InLoop
<1>5. CASE AckExisting(w)
  <2> DEFINE id == Head(todo[w]).id
  <2> DEFINE ack == [id |-> id, seq |-> StoredSequence(id), dup |-> TRUE]
  <2>1. todo[w] \in Seq(Op) /\ todo[w] # <<>> /\ id \in Persisted
    BY <1>5 DEF TypeOK, AckExisting, InLoop
  <2>0. Head(todo[w]) \in Op /\ Tail(todo[w]) \in Seq(Op)
    BY <2>1, TailType
  <2>2. id \in Ids /\ Tail(todo[w]) \in Seq(Op)
    BY <2>0 DEF Op
  <2>3. StoredSequence(id) \in Nat
    BY <2>1 DEF Persisted, StoredSequence, TypeOK, Row
  <2>4. ack \in Ack
    BY <2>2, <2>3 DEF Ack
  <2>5. Append(acks[w], ack) \in Seq(Ack) /\ Append(acks[w], ack) # <<>>
    BY <2>4, AppendType DEF TypeOK
  <2>6. /\ acks' = [acks EXCEPT ![w] = Append(acks[w], ack)]
        /\ seen' = [seen EXCEPT ![w] = seen[w] \cup {id}]
        /\ todo' = [todo EXCEPT ![w] = Tail(todo[w])]
        /\ UNCHANGED <<ops, version, archived, lock, pc, inst, batch, plan, sent,
                       expected, rows, result>>
    BY <1>5 DEF AckExisting
  <2> HIDE DEF ack, id
  <2> QED
    BY <2>2, <2>5, <2>6 DEF TypeOK, RequestInv
<1>6. CASE CreateRow(w)
  <2> DEFINE op == Head(todo[w])
             row == [seq |-> expected[w] + 1, op |-> op]
             ack == [id |-> op.id, seq |-> expected[w] + 1, dup |-> FALSE]
  <2>1. todo[w] \in Seq(Op) /\ todo[w] # <<>> /\ expected[w] \in Nat
    BY <1>6 DEF TypeOK, CreateRow, InLoop
  <2>0. Head(todo[w]) \in Op /\ Tail(todo[w]) \in Seq(Op)
    BY <2>1, TailType
  <2>2. op \in Op /\ op.id \in Ids /\ Tail(todo[w]) \in Seq(Op) /\ expected[w] + 1 \in Nat
    BY <2>0, <2>1 DEF Op
  <2>3. row \in Row /\ ack \in Ack
    BY <2>2 DEF Row, Ack
  <2>4. Append(acks[w], ack) \in Seq(Ack) /\ Append(acks[w], ack) # <<>>
    BY <2>3, AppendType DEF TypeOK
  <2>5. /\ rows' = [rows EXCEPT ![w] = rows[w] \cup {row}]
        /\ acks' = [acks EXCEPT ![w] = Append(acks[w], ack)]
        /\ expected' = [expected EXCEPT ![w] = expected[w] + 1]
        /\ seen' = [seen EXCEPT ![w] = seen[w] \cup {op.id}]
        /\ todo' = [todo EXCEPT ![w] = Tail(todo[w])]
        /\ UNCHANGED <<ops, version, archived, lock, pc, inst, batch, plan, sent, result>>
    BY <1>6 DEF CreateRow
  <2> HIDE DEF row, ack, op
  <2> QED
    BY <2>2, <2>3, <2>4, <2>5 DEF TypeOK, RequestInv
<1>7. CASE RefuseStale(w)
  <2>1. <<>> \in Seq(Op) /\ <<>> \in Seq(Ack)
    BY EmptySeq
  <2>2. /\ pc' = [pc EXCEPT ![w] = "answer"]
        /\ lock' = NoWorker
        /\ result' = [result EXCEPT ![w] = [status |-> "stale", version |-> expected[w]]]
        /\ todo' = [todo EXCEPT ![w] = <<>>]
        /\ seen' = [seen EXCEPT ![w] = {}]
        /\ expected' = [expected EXCEPT ![w] = 0]
        /\ rows' = [rows EXCEPT ![w] = {}]
        /\ acks' = [acks EXCEPT ![w] = <<>>]
        /\ UNCHANGED <<ops, version, archived, inst, batch, plan, sent>>
    BY <1>7 DEF RefuseStale, EndTx, Answer
  <2>3. TypeOK'
    BY <2>1, <2>2 DEF TypeOK
  <2>4. RequestInv'
    BY <2>2 DEF TypeOK, RequestInv
  <2> QED
    BY <2>3, <2>4
<1>8. CASE Commit(w)
  <2>1. /\ <<>> \in Seq(Op)
        /\ SavedVersion(w) \in Nat
        /\ ResultVersion(w) \in Nat
    BY <1>8, EmptySeq, ResultVersionType DEF TypeOK, SavedVersion, Commit, CommitTx
  <2>2. /\ ops' = ops \cup rows[w]
        /\ version' = SavedVersion(w)
        /\ lock' = NoWorker
        /\ pc' = [pc EXCEPT ![w] = "answer"]
        /\ result' = [result EXCEPT ![w] = [status |-> "ok", version |-> ResultVersion(w)]]
        /\ todo' = [todo EXCEPT ![w] = <<>>]
        /\ seen' = [seen EXCEPT ![w] = {}]
        /\ expected' = [expected EXCEPT ![w] = 0]
        /\ rows' = [rows EXCEPT ![w] = {}]
        /\ UNCHANGED <<archived, inst, batch, plan, sent, acks>>
    BY <1>8 DEF Commit, CommitTx, EndTx, Answer
  <2>3. TypeOK'
    BY <2>1, <2>2 DEF TypeOK
  <2>4. RequestInv'
    BY <2>2 DEF TypeOK, RequestInv
  <2> QED
    BY <2>3, <2>4
<1>9. CASE CommitChunk(w)
  <2> DEFINE chunk == Chunk(plan[w], sent[w], ResultVersion(w))
  <2>1. /\ <<>> \in Seq(Op) /\ <<>> \in Seq(Ack)
        /\ SavedVersion(w) \in Nat
        /\ ResultVersion(w) \in Nat
    BY <1>9, EmptySeq, ResultVersionType DEF TypeOK, SavedVersion, CommitChunk, CommitTx
  <2>2. plan[w] \in Seq(Ids) /\ sent[w] \in Nat /\ sent[w] < Len(plan[w])
    BY <1>9 DEF TypeOK, CommitChunk
  <2>3. /\ chunk \in Seq(Op)
        /\ Len(chunk) + sent[w] <= Len(plan[w])
        /\ chunk # <<>>
    <3>1. Len(plan[w]) \in Nat /\ sent[w] <= Len(plan[w])
      BY <2>2, LenProperties
    <3> QED
      BY ONLY <2>1, <2>2, <3>1, ChunkType
  <2>4. Len(chunk) \in Nat
    BY <2>3, LenProperties
  <2> DEFINE n == sent[w] + Len(chunk)
  <2>n. n \in Nat /\ n <= Len(plan[w])
    BY <2>2, <2>3, <2>4, LenProperties
  <2>5. /\ ops' = ops \cup rows[w]
        /\ version' = SavedVersion(w)
        /\ lock' = NoWorker
        /\ pc' = [pc EXCEPT ![w] = "queued"]
        /\ batch' = [batch EXCEPT ![w] = chunk]
        /\ sent' = [sent EXCEPT ![w] = n]
        /\ todo' = [todo EXCEPT ![w] = <<>>]
        /\ seen' = [seen EXCEPT ![w] = {}]
        /\ expected' = [expected EXCEPT ![w] = 0]
        /\ rows' = [rows EXCEPT ![w] = {}]
        /\ acks' = [acks EXCEPT ![w] = <<>>]
        /\ UNCHANGED <<archived, inst, plan, result>>
    BY <1>9 DEF CommitChunk, CommitTx, EndTx
  <2> HIDE DEF chunk, n
  <2>6. TypeOK'
    BY <2>1, <2>3, <2>n, <2>5 DEF TypeOK
  <2>7. RequestInv'
    BY <2>3, <2>n, <2>5 DEF TypeOK, RequestInv
  <2> QED
    BY <2>6, <2>7
<1>10. CASE Respond(w)
  BY <1>10, ForgetType DEF Respond, TypeOK
<1> QED
  BY <1>1, <1>2, <1>3, <1>4, <1>5, <1>6, <1>7, <1>8, <1>9, <1>10 DEF Serve, Transaction

LEMMA TypeStep == TypeInv /\ [Next]_vars => TypeInv'
<1> SUFFICES ASSUME TypeInv, [Next]_vars
             PROVE  TypeInv'
  OBVIOUS
<1>1. ASSUME NEW w \in Workers, Request(w) PROVE TypeInv'
  BY <1>1, RequestType
<1>2. ASSUME NEW w \in Workers, Serve(w) PROVE TypeInv'
  BY <1>2, ServeType
<1>3. ASSUME NEW w \in Workers, Crash(w) PROVE TypeInv'
  BY <1>3, ForgetType DEF Crash, TypeInv, TypeOK
<1>4. ASSUME NEW s \in BOOLEAN, SetStatus(s) PROVE TypeInv'
  <2>1. TypeOK'
    BY <1>4 DEF TypeInv, TypeOK, SetStatus, reqVars, txVars
  <2>2. RequestInv'
    BY <1>4 DEF TypeInv, RequestInv, SetStatus, reqVars, txVars
  <2> QED
    BY <2>1, <2>2 DEF TypeInv
<1>5. CASE UNCHANGED vars
  <2>1. TypeOK'
    BY <1>5 DEF TypeInv, TypeOK, vars, dbVars, reqVars, txVars
  <2>2. RequestInv'
    BY <1>5 DEF TypeInv, RequestInv, vars, dbVars, reqVars, txVars
  <2> QED
    BY <2>1, <2>2 DEF TypeInv
<1> QED
  BY <1>1, <1>2, <1>3, <1>4, <1>5 DEF Next, Archive, Unarchive

\* Type correctness: every variable of the write path keeps a value of its
\* kind, the version an answer reports and the bases of an import's chunks
\* included.
THEOREM TypeCorrect == Spec => []TypeOK
<1>1. Init => TypeInv
  BY TypeInit
<1>2. TypeInv /\ [Next]_vars => TypeInv'
  BY TypeStep
<1>3. TypeInv => TypeOK
  BY DEF TypeInv
<1> QED
  BY <1>1, <1>2, <1>3, PTL DEF Spec

-----------------------------------------------------------------------------
(* The ledger.  The transaction that holds the row lock is the only one     *)
(* that can be between its first and its last step, and what it has created *)
(* so far continues the committed rows without a gap: committing it keeps   *)
(* the ledger dense, rolling it back leaves it as it was.                   *)

\* The rows of R number the sequences from lo to hi, each once.
Numbers(R, lo, hi) ==
  /\ \A r \in R : r.seq \in lo..hi
  /\ \A s \in lo..hi : \E r \in R : r.seq = s
  /\ \A r, q \in R : r.seq = q.seq => r = q

OneRowPerId(R) == \A r, q \in R : r.op.id = q.op.id => r = q

OnPredecessor(R) == \A r \in R : r.op.base = r.seq - 1

OpsInv ==
  /\ Numbers(ops, 1, version)
  /\ OneRowPerId(ops)
  /\ OnPredecessor(ops)

TxInvFor(w) ==
  /\ lock = w
  /\ expected[w] >= version
  /\ Numbers(rows[w], version + 1, expected[w])
  /\ OneRowPerId(rows[w])
  /\ OnPredecessor(rows[w])
  /\ \A r \in rows[w] : r.op.id \in seen[w] /\ r.op.id \notin Persisted

TxInv == \A w \in Workers : pc[w] = "loop" => TxInvFor(w)

LedgerInv == TypeInv /\ OpsInv /\ TxInv

\* A step that leaves the database alone, and every open transaction too or
\* else ends it, keeps the invariant.
LEMMA FrameStep ==
  ASSUME OpsInv, TxInv, UNCHANGED <<ops, version>>,
         \A w \in Workers : pc'[w] = "loop" =>
           /\ pc[w] = "loop"
           /\ lock' = lock
           /\ expected'[w] = expected[w]
           /\ rows'[w] = rows[w]
           /\ seen'[w] = seen[w]
  PROVE  OpsInv' /\ TxInv'
<1>1. OpsInv'
  BY DEF OpsInv, Numbers, OneRowPerId, OnPredecessor
<1>2. ASSUME NEW w \in Workers, pc'[w] = "loop"
      PROVE  TxInvFor(w)'
  <2>1. TxInvFor(w)
    BY <1>2 DEF TxInv
  <2> QED
    BY <1>2, <2>1 DEF TxInvFor, Numbers, OneRowPerId, OnPredecessor, Persisted
<1> QED
  BY <1>1, <1>2 DEF TxInv

LEMMA LockRowStep ==
  ASSUME TypeInv, OpsInv, TxInv, NEW w \in Workers, LockRow(w)
  PROVE  OpsInv' /\ TxInv'
<1>1. OpsInv'
  BY DEF LockRow, dbVars, OpsInv, Numbers, OneRowPerId, OnPredecessor
<1>2. ASSUME NEW v \in Workers, pc'[v] = "loop"
      PROVE  TxInvFor(v)'
  <2>1. v = w
    BY <1>2, WorkersAssumption DEF TypeInv, TypeOK, LockRow, TxInv, TxInvFor
  <2>2. /\ lock' = w /\ expected'[w] = version /\ rows'[w] = {}
        /\ version' = version /\ version \in Nat
    BY DEF LockRow, TypeInv, TypeOK, dbVars
  <2> QED
    BY <2>1, <2>2 DEF TxInvFor, Numbers, OneRowPerId, OnPredecessor
<1> QED
  BY <1>1, <1>2 DEF TxInv

LEMMA CreateRowStep ==
  ASSUME TypeInv, OpsInv, TxInv, NEW w \in Workers, CreateRow(w)
  PROVE  OpsInv' /\ TxInv'
<1> DEFINE op == Head(todo[w])
           e == expected[w] + 1
           row == [seq |-> e, op |-> op]
<1>1. OpsInv'
  BY DEF CreateRow, dbVars, OpsInv, Numbers, OneRowPerId, OnPredecessor
<1>2. ASSUME NEW v \in Workers, pc'[v] = "loop"
      PROVE  TxInvFor(v)'
  <2>1. TxInvFor(w) /\ pc[w] = "loop"
    BY DEF CreateRow, InLoop, TxInv
  <2>2. v = w
    BY <1>2, <2>1 DEF CreateRow, TxInv, TxInvFor
  <2>3. /\ lock' = lock /\ version' = version /\ ops' = ops
        /\ expected'[w] = e
        /\ rows'[w] = rows[w] \cup {row}
        /\ seen'[w] = seen[w] \cup {op.id}
        /\ op.id \notin seen[w] /\ op.id \notin Persisted
        /\ op.base = expected[w]
    BY DEF CreateRow, TypeInv, TypeOK, dbVars, IsNew, UpToDate
  <2>4. expected[w] \in Nat /\ version \in Nat
    BY DEF TypeInv, TypeOK
  <2>5. row.seq = e /\ row.op = op
    OBVIOUS
  <2> HIDE DEF row
  <2>6. Numbers(rows[w] \cup {row}, version + 1, e)
    BY <2>1, <2>4, <2>5 DEF TxInvFor, Numbers
  <2>7. OneRowPerId(rows[w] \cup {row}) /\ OnPredecessor(rows[w] \cup {row})
    BY <2>1, <2>3, <2>4, <2>5 DEF TxInvFor, OneRowPerId, OnPredecessor
  <2>8. Persisted' = Persisted
    BY <2>3 DEF Persisted
  <2> QED
    BY <2>1, <2>2, <2>3, <2>4, <2>5, <2>6, <2>7, <2>8 DEF TxInvFor
<1> QED
  BY <1>1, <1>2 DEF TxInv

LEMMA CommitStep ==
  ASSUME TypeInv, OpsInv, TxInv, NEW w \in Workers, CommitTx(w),
         \A v \in Workers : pc'[v] = "loop" => v # w /\ pc[v] = "loop"
  PROVE  OpsInv' /\ TxInv'
<1>1. TxInvFor(w)
  BY DEF CommitTx, TxInv
<1>2. /\ ops' = ops \cup rows[w]
      /\ version' = expected[w]
      /\ expected[w] \in Nat /\ version \in Nat
  <2>1. expected[w] \in Nat /\ version \in Nat
    BY DEF TypeInv, TypeOK
  <2>2. rows[w] = {} => expected[w] = version
    BY <1>1, <2>1 DEF TxInvFor, Numbers
  <2> QED
    BY <2>1, <2>2 DEF CommitTx, SavedVersion
<1>3. Numbers(ops', 1, version')
  BY <1>1, <1>2 DEF OpsInv, TxInvFor, Numbers
<1>4. OneRowPerId(ops')
  BY <1>1, <1>2 DEF OpsInv, TxInvFor, OneRowPerId, Persisted
<1>5. OnPredecessor(ops')
  BY <1>1, <1>2 DEF OpsInv, TxInvFor, OnPredecessor
<1>6. TxInv'
  BY <1>1 DEF TxInv, TxInvFor
<1> QED
  BY <1>3, <1>4, <1>5, <1>6 DEF OpsInv

LEMMA LedgerInit == Init => LedgerInv
<1> SUFFICES ASSUME Init PROVE LedgerInv
  OBVIOUS
<1>1. TypeInv
  BY TypeInit
<1>2. OpsInv
  BY DEF Init, OpsInv, Numbers, OneRowPerId, OnPredecessor
<1>3. TxInv
  BY DEF Init, TxInv
<1> QED
  BY <1>1, <1>2, <1>3 DEF LedgerInv

LEMMA LedgerStep == LedgerInv /\ [Next]_vars => LedgerInv'
<1> SUFFICES ASSUME TypeInv, OpsInv, TxInv, [Next]_vars
             PROVE  OpsInv' /\ TxInv'
  BY TypeStep DEF LedgerInv
<1> USE DEF dbVars, reqVars, txVars
<1>1. ASSUME NEW w \in Workers, Request(w) PROVE OpsInv' /\ TxInv'
  <2>1. /\ UNCHANGED <<ops, version, lock, expected, rows, seen>>
        /\ \E where \in {"snapshot", "queued"} : pc' = [pc EXCEPT ![w] = where]
    BY <1>1 DEF Request, Submit, Restore, Import, Receive
  <2> QED
    BY <2>1, FrameStep DEF TypeInv, TypeOK
<1>2. ASSUME NEW w \in Workers, Serve(w) PROVE OpsInv' /\ TxInv'
  <2>1. CASE BuildSnapshot(w)
    <3>1. \A v \in Workers : pc'[v] = "loop" => pc[v] = "loop"
      BY <2>1 DEF BuildSnapshot, TypeInv, TypeOK
    <3>2. UNCHANGED <<ops, version, lock, expected, rows, seen>>
      BY <2>1 DEF BuildSnapshot
    <3> QED
      BY <3>1, <3>2, FrameStep
  <2>2. CASE LockRow(w)
    BY <2>2, LockRowStep
  <2>3. CASE RefuseArchived(w)
    BY <2>3, FrameStep DEF RefuseArchived, TypeInv, TypeOK
  <2>4. CASE SkipRepeat(w)
    BY <2>4, FrameStep DEF SkipRepeat
  <2>5. CASE AckExisting(w)
    <3>1. OpsInv'
      BY <2>5 DEF AckExisting, OpsInv, Numbers, OneRowPerId, OnPredecessor
    <3>2. ASSUME NEW v \in Workers, pc'[v] = "loop" PROVE TxInvFor(v)'
      <4>1. TxInvFor(v) /\ UNCHANGED <<ops, version, lock, expected, rows>>
        BY <2>5, <3>2 DEF AckExisting, TxInv
      <4>2. seen[v] \subseteq seen'[v]
        BY <2>5 DEF AckExisting, TypeInv, TypeOK
      <4> QED
        BY <4>1, <4>2 DEF TxInvFor, Numbers, OneRowPerId, OnPredecessor, Persisted
    <3> QED
      BY <3>1, <3>2 DEF TxInv
  <2>6. CASE CreateRow(w)
    BY <2>6, CreateRowStep
  <2>7. CASE RefuseStale(w)
    <3>1. pc[w] = "loop" /\ TxInvFor(w)
      BY <2>7 DEF RefuseStale, InLoop, TxInv
    <3>2. \A v \in Workers : pc'[v] # "loop"
      BY <2>7, <3>1 DEF RefuseStale, TypeInv, TypeOK, TxInv, TxInvFor
    <3> QED
      BY <2>7, <3>2, FrameStep DEF RefuseStale
  <2>8. CASE Commit(w)
    BY <2>8, CommitStep DEF Commit, TypeInv, TypeOK
  <2>9. CASE CommitChunk(w)
    BY <2>9, CommitStep DEF CommitChunk, TypeInv, TypeOK
  <2>10. CASE Respond(w)
    BY <2>10, FrameStep DEF Respond, Forget, EndTx, TypeInv, TypeOK
  <2> QED
    BY <1>2, <2>1, <2>2, <2>3, <2>4, <2>5, <2>6, <2>7, <2>8, <2>9, <2>10
    DEF Serve, Transaction
<1>3. ASSUME NEW w \in Workers, Crash(w) PROVE OpsInv' /\ TxInv'
  <2>1. UNCHANGED <<ops, version>>
    BY <1>3 DEF Crash, Forget
  <2>2. ASSUME NEW v \in Workers, pc'[v] = "loop"
        PROVE  /\ pc[v] = "loop" /\ lock' = lock
               /\ expected'[v] = expected[v] /\ rows'[v] = rows[v] /\ seen'[v] = seen[v]
    BY <1>3, <2>2 DEF Crash, Forget, EndTx, TypeInv, TypeOK, TxInv, TxInvFor
  <2> QED
    BY <2>1, <2>2, FrameStep
<1>4. ASSUME NEW s \in BOOLEAN, SetStatus(s) PROVE OpsInv' /\ TxInv'
  BY <1>4, FrameStep DEF SetStatus
<1>5. CASE UNCHANGED vars
  BY <1>5, FrameStep DEF vars
<1> QED
  BY <1>1, <1>2, <1>3, <1>4, <1>5 DEF Next, Archive, Unarchive

LEMMA LedgerInvariant == Spec => []LedgerInv
<1> QED
  BY LedgerInit, LedgerStep, PTL DEF Spec

\* The sequences are 1, 2, ..., version, each used once, however the requests
\* of the two partners, their retries and their crashes interleave.
THEOREM LedgerIsDense == Spec => []LedgerDense
<1>1. LedgerInv => LedgerDense
  BY DEF LedgerInv, OpsInv, Numbers, LedgerDense
<1> QED
  BY <1>1, LedgerInvariant, PTL

\* No operation is stored twice, although the id is looked up and the row
\* created in two steps.
THEOREM LedgerAppliesOnce == Spec => []AppliedOnce
<1>1. LedgerInv => AppliedOnce
  BY DEF LedgerInv, OpsInv, OneRowPerId, AppliedOnce
<1> QED
  BY <1>1, LedgerInvariant, PTL

\* No operation lands on a version its client had not seen.
THEOREM LedgerHasNoBlindWrite == Spec => []NoBlindWrite
<1>1. LedgerInv => NoBlindWrite
  BY DEF LedgerInv, OpsInv, OnPredecessor, NoBlindWrite
<1> QED
  BY <1>1, LedgerInvariant, PTL

-----------------------------------------------------------------------------
(* The refinement.  A committing transaction maps to OpLog's Accept if it   *)
(* created rows and to a stutter if it only met duplicates; a change of     *)
(* status maps to Close or Reopen; everything else stutters.                *)

\* A transaction is only ever open on a board that is not archived: the
\* status is checked and changed under the row lock.
WritableInv == \A w \in Workers : pc[w] = "loop" => ~archived

LEMMA WritableStep ==
  LedgerInv /\ WritableInv /\ [Next]_vars => WritableInv'
<1> SUFFICES ASSUME TypeInv, TxInv, WritableInv, [Next]_vars,
                    NEW v \in Workers, pc'[v] = "loop"
             PROVE  ~archived'
  BY DEF LedgerInv, WritableInv
<1> USE DEF dbVars, reqVars, txVars, TypeInv, TypeOK
<1>1. ASSUME NEW w \in Workers, Request(w) PROVE ~archived'
  BY <1>1 DEF Request, Submit, Restore, Import, Receive, WritableInv
<1>2. ASSUME NEW w \in Workers, Serve(w) PROVE ~archived'
  <2>1. CASE BuildSnapshot(w)
    BY <2>1 DEF BuildSnapshot, WritableInv
  <2>2. CASE LockRow(w) \/ RefuseArchived(w)
    BY <2>2 DEF LockRow, RefuseArchived, WritableInv
  <2>3. CASE SkipRepeat(w) \/ AckExisting(w) \/ CreateRow(w)
    BY <2>3 DEF SkipRepeat, AckExisting, CreateRow, WritableInv
  <2>4. CASE RefuseStale(w) \/ Commit(w) \/ CommitChunk(w) \/ Respond(w)
    BY <2>4 DEF RefuseStale, Commit, CommitChunk, CommitTx, Respond, Forget, WritableInv
  <2> QED
    BY <1>2, <2>1, <2>2, <2>3, <2>4 DEF Serve, Transaction
<1>3. ASSUME NEW w \in Workers, Crash(w) PROVE ~archived'
  BY <1>3 DEF Crash, Forget, WritableInv
<1>4. ASSUME NEW s \in BOOLEAN, SetStatus(s) PROVE ~archived'
  BY <1>4, WorkersAssumption DEF SetStatus, TxInv, TxInvFor
<1>5. CASE UNCHANGED vars
  BY <1>5 DEF vars, WritableInv
<1> QED
  BY <1>1, <1>2, <1>3, <1>4, <1>5 DEF Next, Archive, Unarchive

\* The list of ids in a set of rows that numbers 1, ..., n.
LEMMA IdsOfProperties ==
  ASSUME NEW n \in Nat, NEW R \in SUBSET Row, Numbers(R, 1, n)
  PROVE  /\ IdsOf(R, n) \in Seq(Ids)
         /\ Len(IdsOf(R, n)) = n
         /\ DOMAIN IdsOf(R, n) = 1..n
         /\ \A r \in R : r.seq \in 1..n /\ IdsOf(R, n)[r.seq] = r.op.id
<1>1. ASSUME NEW r \in R PROVE (CHOOSE q \in R : q.seq = r.seq) = r
  BY DEF Numbers
<1>2. ASSUME NEW r \in R PROVE r.seq \in 1..n /\ IdsOf(R, n)[r.seq] = r.op.id
  BY <1>1 DEF Numbers, IdsOf
<1>3. ASSUME NEW s \in 1..n PROVE (CHOOSE q \in R : q.seq = s).op.id \in Ids
  BY DEF Numbers, Row, Op
<1>4. IdsOf(R, n) \in [1..n -> Ids]
  BY <1>3 DEF IdsOf
<1>5. IdsOf(R, n) \in Seq(Ids) /\ Len(IdsOf(R, n)) = n
  BY <1>4, SeqDef, LenProperties
<1> QED
  BY <1>2, <1>4, <1>5

LEMMA SameIds ==
  ASSUME UNCHANGED <<ops, version>>
  PROVE  IdsInOrder' = IdsInOrder
BY DEF IdsInOrder

LEMMA CommitRefines ==
  ASSUME LedgerInv, LedgerInv', WritableInv, NEW w \in Workers,
         CommitTx(w), UNCHANGED archived
  PROVE  [Log!Next]_(Log!vars)
<1> USE DEF LedgerInv
<1>1. TxInvFor(w) /\ ~archived /\ ops' = ops \cup rows[w]
  BY DEF CommitTx, TxInv, WritableInv
<1>2. version \in Nat /\ expected[w] \in Nat
  BY DEF TypeInv, TypeOK
<1>3. CASE rows[w] = {}
  <2>1. UNCHANGED <<ops, version>>
    BY <1>1, <1>3 DEF CommitTx, SavedVersion
  <2> QED
    BY <2>1, SameIds DEF Log!vars
<1>4. CASE rows[w] # {}
  <2>1. version' = expected[w] /\ expected[w] > version
    BY <1>1, <1>2, <1>4 DEF CommitTx, SavedVersion, TxInvFor, Numbers
  <2>2. /\ IdsInOrder' \in Seq(Ids) /\ Len(IdsInOrder') = version'
        /\ \A r \in ops' : r.seq \in 1..version' /\ IdsInOrder'[r.seq] = r.op.id
    <3>1. ops' \in SUBSET Row /\ version' \in Nat /\ Numbers(ops', 1, version')
      BY DEF TypeInv, TypeOK, OpsInv
    <3>2. IdsInOrder' = IdsOf(ops', version')
      BY DEF IdsInOrder
    <3> HIDE DEF LedgerInv
    <3> QED
      BY <3>1, <3>2, IdsOfProperties
  <2>3. /\ Len(IdsInOrder) = version
        /\ \A r \in ops : r.seq \in 1..version /\ IdsInOrder[r.seq] = r.op.id
    BY <1>2, IdsOfProperties DEF IdsInOrder, TypeInv, TypeOK, OpsInv
  <2>4. ASSUME NEW k \in 1..version PROVE IdsInOrder'[k] = IdsInOrder[k]
    <3>1. PICK r \in ops : r.seq = k
      BY DEF OpsInv, Numbers
    <3> QED
      BY <1>1, <2>2, <2>3, <3>1
  <2>5. Log!Distinct(IdsInOrder')
    <3>1. DOMAIN IdsInOrder' = 1..version'
      BY <2>2, LenProperties
    <3>2. ASSUME NEW j \in 1..version', NEW k \in 1..version',
                 IdsInOrder'[j] = IdsInOrder'[k]
          PROVE  j = k
      <4>1. Numbers(ops', 1, version') /\ OneRowPerId(ops')
        BY DEF OpsInv
      <4>2. PICK r \in ops', q \in ops' : r.seq = j /\ q.seq = k
        BY <4>1 DEF Numbers
      <4>3. r.op.id = q.op.id
        BY <2>2, <3>2, <4>2
      <4> QED
        BY <4>1, <4>2, <4>3 DEF OneRowPerId
    <3> QED
      BY <3>1, <3>2 DEF Log!Distinct
  <2> QED
    BY <1>1, <1>2, <2>1, <2>2, <2>3, <2>4, <2>5 DEF Log!Next, Log!Accept
<1> QED
  BY <1>3, <1>4

LEMMA StepRefines ==
  LedgerInv /\ LedgerInv' /\ WritableInv /\ [Next]_vars => [Log!Next]_(Log!vars)
<1> SUFFICES ASSUME LedgerInv, LedgerInv', WritableInv, [Next]_vars
             PROVE  [Log!Next]_(Log!vars)
  OBVIOUS
<1> USE DEF dbVars, reqVars, txVars
<1>0. UNCHANGED <<ops, version, archived>> => [Log!Next]_(Log!vars)
  BY SameIds DEF Log!vars
<1>1. ASSUME NEW w \in Workers, Request(w) PROVE UNCHANGED <<ops, version, archived>>
  BY <1>1 DEF Request, Submit, Restore, Import, Receive
<1>2. ASSUME NEW w \in Workers, Serve(w) PROVE [Log!Next]_(Log!vars)
  <2>1. CASE Commit(w) \/ CommitChunk(w)
    BY <2>1, CommitRefines DEF Commit, CommitChunk
  <2>2. CASE BuildSnapshot(w) \/ LockRow(w) \/ RefuseArchived(w)
    BY <1>0, <2>2 DEF BuildSnapshot, LockRow, RefuseArchived
  <2>3. CASE SkipRepeat(w) \/ AckExisting(w) \/ CreateRow(w)
    BY <1>0, <2>3 DEF SkipRepeat, AckExisting, CreateRow
  <2>4. CASE RefuseStale(w) \/ Respond(w)
    BY <1>0, <2>4 DEF RefuseStale, Respond, Forget
  <2> QED
    BY <1>2, <2>1, <2>2, <2>3, <2>4 DEF Serve, Transaction
<1>3. ASSUME NEW w \in Workers, Crash(w) PROVE UNCHANGED <<ops, version, archived>>
  BY <1>3 DEF Crash, Forget
<1>4. CASE Archive
  BY <1>4, SameIds DEF Archive, SetStatus, Log!Next, Log!Close
<1>5. CASE Unarchive
  BY <1>5, SameIds DEF Unarchive, SetStatus, Log!Next, Log!Reopen
<1>6. CASE UNCHANGED vars
  BY <1>0, <1>6 DEF vars
<1> QED
  BY <1>0, <1>1, <1>2, <1>3, <1>4, <1>5, <1>6 DEF Next

\* The write path implements OpLog: to its callers the ledger is a list that
\* grows at its end by whole requests of new operations, only while the board
\* is not archived.  Version checks, retries, chunked imports, crashes and the
\* row lock are all invisible from outside.
THEOREM LedgerImplementsOpLog == Spec => ImplementsOpLog
<1>1. Init => Log!Init
  <2> SUFFICES ASSUME Init PROVE Log!Init
    OBVIOUS
  <2>1. IdsInOrder \in Seq(Ids) /\ Len(IdsInOrder) = 0
    BY IdsOfProperties, LedgerInit
    DEF IdsInOrder, Init, LedgerInv, OpsInv, TypeInv, TypeOK
  <2>2. IdsInOrder = <<>>
    BY <2>1, EmptySeq
  <2> QED
    BY <2>2 DEF Init, Log!Init
<1>2. Init => WritableInv
  BY DEF Init, WritableInv
<1> QED
  BY <1>1, <1>2, LedgerInvariant, WritableStep, StepRefines, PTL
  DEF Spec, ImplementsOpLog, Log!Spec

-----------------------------------------------------------------------------
(* What one request of the write path is told and what it leaves behind:    *)
(* snapshots of restores, acknowledgements, whole requests, retries and     *)
(* imports in chunks.                                                       *)
(*                                                                          *)
(* The invariant speaks of one worker at a time.  The steps of the others   *)
(* matter to it only in that the ledger grows at its end, so a lemma about  *)
(* those steps (OthersKeep) is followed by one lemma for each action of     *)
(* the worker itself.                                                       *)

IdsIn(s) == {o.id : o \in Members(s)}

-----------------------------------------------------------------------------
(* The invariant.                                                           *)

\* What a restore carries, before the row lock is taken or after, is the
\* board as of a sequence the ledger has reached.
Faithful(op) ==
  op.kind = "restore" => op.target <= version /\ op.snap = Prefix(op.target)

RestoreInv(w) ==
  /\ pc[w] = "snapshot" => inst[w] <= version
  /\ pc[w] \in {"queued", "loop"} => \A o \in Members(batch[w]) : Faithful(o)
  /\ pc[w] = "loop" => \A r \in rows[w] : Faithful(r.op)

\* The loop has met every operation of the batch that it has not still to do,
\* and has acknowledged each one it met by a row that is or will be stored.
Stored(a, R) == \E r \in R : r.op.id = a.id /\ r.seq = a.seq

WalkInv(w) ==
  pc[w] = "loop" =>
    /\ Members(todo[w]) \subseteq Members(batch[w])
    /\ IdsIn(batch[w]) \subseteq seen[w] \cup IdsIn(todo[w])
    /\ seen[w] \subseteq IdsIn(acks[w])
    /\ \A a \in Members(acks[w]) : Stored(a, ops \cup rows[w])
    /\ \A r \in rows[w] : r.op \in Members(batch[w])

\* An answer exists only at the end, and "ok" acknowledges everything.
AnswerInv(w) ==
  /\ pc[w] # "answer" => result[w] = NoAnswer
  /\ result[w].status = "ok" =>
       /\ \A a \in Members(acks[w]) : Stored(a, ops)
       /\ IdsIn(batch[w]) \subseteq IdsIn(acks[w])

OneRequestInv(w) == RestoreInv(w) /\ WalkInv(w) /\ AnswerInv(w)

StoredRestoresInv ==
  \A r \in ops : r.op.kind = "restore" =>
    r.op.target < r.seq /\ r.op.snap = Prefix(r.op.target)

RequestsInv == StoredRestoresInv /\ \A w \in Workers : OneRequestInv(w)

-----------------------------------------------------------------------------
(* The ledger grows at its end.                                             *)

Grows ==
  /\ ops \subseteq ops'
  /\ version <= version'
  /\ \A r \in ops' \ ops : r.seq > version

LEMMA CommitGrows ==
  ASSUME LedgerInv, NEW w \in Workers, CommitTx(w)
  PROVE  Grows
<1>1. TxInvFor(w) /\ ops' = ops \cup rows[w]
  BY DEF CommitTx, LedgerInv, TxInv
<1>2. version \in Nat /\ expected[w] \in Nat
  BY DEF LedgerInv, TypeInv, TypeOK
<1>3. version' \in {expected[w], version}
  BY DEF CommitTx, SavedVersion
<1> QED
  BY <1>1, <1>2, <1>3 DEF Grows, TxInvFor, Numbers

LEMMA SameGrows ==
  ASSUME LedgerInv, UNCHANGED <<ops, version>>
  PROVE  Grows
<1>1. version \in Nat
  BY DEF LedgerInv, TypeInv, TypeOK
<1> QED
  BY <1>1 DEF Grows

LEMMA GrowsStep == LedgerInv /\ [Next]_vars => Grows
<1> SUFFICES ASSUME LedgerInv, [Next]_vars
             PROVE  Grows
  OBVIOUS
<1> USE DEF dbVars, reqVars, txVars
<1>1. ASSUME NEW w \in Workers, Commit(w) \/ CommitChunk(w) PROVE Grows
  BY <1>1, CommitGrows DEF Commit, CommitChunk
<1>2. ASSUME NEW w \in Workers, Request(w) PROVE UNCHANGED <<ops, version>>
  BY <1>2 DEF Request, Submit, Restore, Import, Receive
<1>3. ASSUME NEW w \in Workers,
             \/ BuildSnapshot(w) \/ LockRow(w) \/ RefuseArchived(w) \/ SkipRepeat(w)
             \/ AckExisting(w) \/ CreateRow(w) \/ RefuseStale(w)
      PROVE  UNCHANGED <<ops, version>>
  BY <1>3 DEF BuildSnapshot, LockRow, RefuseArchived, SkipRepeat, AckExisting, CreateRow,
              RefuseStale
<1>4. ASSUME NEW w \in Workers, Respond(w) \/ Crash(w) PROVE UNCHANGED <<ops, version>>
  BY <1>4 DEF Respond, Crash, Forget
<1>5. CASE Archive \/ Unarchive \/ UNCHANGED vars
  BY <1>5, SameGrows DEF Archive, Unarchive, SetStatus, vars
<1> QED
  BY <1>1, <1>2, <1>3, <1>4, <1>5, SameGrows DEF Next, Serve, Transaction

\* What was the board as of a sequence still is.
LEMMA PrefixKept ==
  ASSUME LedgerInv, LedgerInv', Grows, NEW t \in Nat, t <= version
  PROVE  Prefix(t)' = Prefix(t)
<1>1. version \in Nat /\ \A r \in ops' : r.seq \in Nat
  BY DEF LedgerInv, TypeInv, TypeOK, Row
<1>2. ASSUME NEW r \in ops', r.seq <= t PROVE r \in ops
  <2>1. r \notin ops => r.seq > version
    BY DEF Grows
  <2>2. r \in ops \/ r \in ops' \ ops
    OBVIOUS
  <2> QED
    BY <1>1, <1>2, <2>1
<1>3. {r \in ops' : r.seq <= t} = {r \in ops : r.seq <= t}
  BY <1>2 DEF Grows
<1> QED
  BY <1>3 DEF Prefix

LEMMA FaithfulKept ==
  ASSUME LedgerInv, LedgerInv', Grows, NEW o \in Op, Faithful(o)
  PROVE  Faithful(o)'
<1> SUFFICES ASSUME o.kind = "restore"
             PROVE  o.target <= version' /\ o.snap = Prefix(o.target)'
  BY DEF Faithful
<1>1. o.target \in Nat /\ o.target <= version /\ o.snap = Prefix(o.target)
  BY DEF Faithful, Op
<1>2. Prefix(o.target)' = Prefix(o.target)
  BY <1>1, PrefixKept
<1>3. version \in Nat /\ version' \in Nat
  BY DEF LedgerInv, TypeInv, TypeOK
<1> QED
  BY <1>1, <1>2, <1>3 DEF Grows

-----------------------------------------------------------------------------
(* A step leaves the requests of the other workers as they are.             *)

Same(w) ==
  /\ pc'[w] = pc[w] /\ inst'[w] = inst[w] /\ batch'[w] = batch[w]
  /\ plan'[w] = plan[w] /\ sent'[w] = sent[w]
  /\ todo'[w] = todo[w] /\ seen'[w] = seen[w] /\ expected'[w] = expected[w]
  /\ rows'[w] = rows[w] /\ acks'[w] = acks[w] /\ result'[w] = result[w]

Step(w) == Request(w) \/ Serve(w) \/ Crash(w)

LEMMA OthersSame ==
  ASSUME TypeOK, NEW w \in Workers, Step(w), NEW v \in Workers \ {w}
  PROVE  Same(v)
<1> USE DEF dbVars, reqVars, txVars, TypeOK, Same
<1>1. CASE Request(w)
  BY <1>1, SMTT(30) DEF Request, Submit, Restore, Import, Receive
<1>2. CASE BuildSnapshot(w)
  BY <1>2, SMTT(30) DEF BuildSnapshot
<1>3. CASE LockRow(w) \/ RefuseArchived(w) \/ SkipRepeat(w)
  BY <1>3 DEF LockRow, RefuseArchived, SkipRepeat
<1>4. CASE AckExisting(w)
  BY <1>4 DEF AckExisting
<1>5. CASE CreateRow(w)
  BY <1>5 DEF CreateRow
<1>6. CASE RefuseStale(w)
  BY <1>6 DEF RefuseStale, EndTx
<1>7. CASE Commit(w)
  BY <1>7 DEF Commit, CommitTx, EndTx
<1>8. CASE CommitChunk(w)
  BY <1>8 DEF CommitChunk, CommitTx, EndTx
<1>9. CASE Respond(w) \/ Crash(w)
  BY <1>9, SMTT(30) DEF Respond, Crash, Forget, EndTx
<1> QED
  BY <1>1, <1>2, <1>3, <1>4, <1>5, <1>6, <1>7, <1>8, <1>9 DEF Step, Serve, Transaction

LEMMA Steps ==
  ASSUME [Next]_vars
  PROVE  \/ \E w \in Workers : Step(w)
         \/ \A w \in Workers : Same(w)
<1>1. CASE Archive \/ Unarchive \/ UNCHANGED vars
  BY <1>1 DEF Archive, Unarchive, SetStatus, vars, dbVars, reqVars, txVars, Same
<1> QED
  BY <1>1 DEF Next, Step

LEMMA StoredKept ==
  ASSUME NEW a, NEW R, NEW Q, R \subseteq Q, Stored(a, R)
  PROVE  Stored(a, Q)
BY DEF Stored

LEMMA OthersKeep ==
  ASSUME LedgerInv, LedgerInv', Grows, NEW w \in Workers, OneRequestInv(w), Same(w)
  PROVE  OneRequestInv(w)'
<1>0. batch[w] \in Seq(Op) /\ rows[w] \subseteq Row
  BY DEF LedgerInv, TypeInv, TypeOK
<1>1. /\ Members(batch[w]) \subseteq Op
      /\ \A r \in rows[w] : r.op \in Op
  BY <1>0, MembersType DEF Row
<1>2. RestoreInv(w)'
  <2>1. version \in Nat /\ version' \in Nat /\ inst[w] \in Nat /\ version <= version'
    BY DEF LedgerInv, TypeInv, TypeOK, Grows
  <2>2. ASSUME NEW o \in Op, Faithful(o) PROVE Faithful(o)'
    BY <2>2, FaithfulKept
  <2> QED
    BY <1>1, <2>1, <2>2 DEF OneRequestInv, RestoreInv, Same
<1>3. ops \subseteq ops'
  BY DEF Grows
<1>4. WalkInv(w)'
  <2> SUFFICES ASSUME pc'[w] = "loop"
               PROVE  /\ Members(todo'[w]) \subseteq Members(batch'[w])
                      /\ IdsIn(batch'[w]) \subseteq seen'[w] \cup IdsIn(todo'[w])
                      /\ seen'[w] \subseteq IdsIn(acks'[w])
                      /\ \A a \in Members(acks'[w]) : Stored(a, ops' \cup rows'[w])
                      /\ \A r \in rows'[w] : r.op \in Members(batch'[w])
    BY DEF WalkInv
  <2>1. ops \cup rows[w] \subseteq ops' \cup rows'[w]
    BY <1>3 DEF Same
  <2> QED
    BY <2>1, StoredKept DEF OneRequestInv, WalkInv, Same
<1>5. AnswerInv(w)'
  BY <1>3, StoredKept DEF OneRequestInv, AnswerInv, Same
<1> QED
  BY <1>2, <1>4, <1>5 DEF OneRequestInv

-----------------------------------------------------------------------------
(* The steps of the worker itself.                                          *)

LEMMA FaithfulSame ==
  ASSUME UNCHANGED <<ops, version>>, NEW o
  PROVE  Faithful(o)' = Faithful(o)
BY DEF Faithful, Prefix

LEMMA BatchEdits ==
  ASSUME NEW n \in 1..MaxBatch, NEW ids \in [1..n -> OpIds], NEW bases
  PROVE  \A o \in Members(EditBatch(ids, bases)) : o.kind = "edit"
<1>1. n \in Nat
  BY BatchAssumption
<1> DEFINE b == EditBatch(ids, bases)
<1>2. b = [k \in 1..n |-> Edit(ids[k], bases[k])]
  BY DEF EditBatch
<1>3. Len(b) = n
  BY <1>1, <1>2, LenProperties
<1> QED
  BY <1>2, <1>3 DEF Members, Edit

LEMMA ChunkEdits ==
  ASSUME NEW p \in Seq(Ids), NEW n \in Nat, NEW v, n <= Len(p)
  PROVE  \A o \in Members(Chunk(p, n, v)) : o.kind = "edit"
<1> DEFINE m == IF Len(p) - n < MaxBatch THEN Len(p) - n ELSE MaxBatch
           c == Chunk(p, n, v)
<1>1. m \in Nat
  BY BatchAssumption, LenProperties
<1>2. c = [k \in 1..m |-> Edit(p[n + k], v + k - 1)]
  BY DEF Chunk
<1> HIDE DEF m
<1>3. Len(c) = m
  BY <1>1, <1>2, LenProperties
<1>4. ASSUME NEW k \in 1..m PROVE c[k].kind = "edit"
  BY <1>2 DEF Edit
<1> QED
  BY <1>3, <1>4 DEF Members

LEMMA ReceiveKeeps ==
  ASSUME TypeInv, NEW w \in Workers, OneRequestInv(w),
         NEW where \in {"snapshot", "queued"}, NEW v, NEW b, NEW p, NEW n,
         Receive(w, where, v, b, p, n),
         where = "snapshot" => v <= version,
         where = "queued" => \A o \in Members(b) : o.kind = "edit"
  PROVE  OneRequestInv(w)'
<1>1. /\ pc[w] = "idle" /\ pc'[w] = where /\ inst'[w] = v /\ batch'[w] = b
      /\ result'[w] = result[w]
      /\ UNCHANGED <<ops, version>>
  BY DEF Receive, TypeInv, TypeOK, dbVars
<1>2. RestoreInv(w)'
  BY <1>1 DEF RestoreInv, Faithful
<1>3. WalkInv(w)'
  BY <1>1 DEF WalkInv
<1>4. AnswerInv(w)'
  <2>1. result'[w] = NoAnswer
    BY <1>1 DEF OneRequestInv, AnswerInv
  <2> QED
    BY <2>1 DEF AnswerInv, NoAnswer, Answer
<1> QED
  BY <1>2, <1>3, <1>4 DEF OneRequestInv

LEMMA RequestKeeps ==
  ASSUME TypeInv, NEW w \in Workers, OneRequestInv(w), Request(w)
  PROVE  OneRequestInv(w)'
<1>0. version \in Nat
  BY DEF TypeInv, TypeOK
<1>1. ASSUME NEW n \in 1..MaxBatch, NEW ids \in [1..n -> OpIds], NEW bases \in Bases(n),
             Submit(w, EditBatch(ids, bases))
      PROVE  OneRequestInv(w)'
  BY <1>1, BatchEdits, ReceiveKeeps DEF Submit
<1>2. ASSUME NEW id \in RestoreIds, NEW base \in 0..version, NEW target \in 0..(version + 1),
             Restore(w, id, base, target)
      PROVE  OneRequestInv(w)'
  BY <1>0, <1>2, ReceiveKeeps DEF Restore
<1>3. ASSUME NEW n \in 1..MaxImport, NEW p \in ImportPlans(n), Import(w, p)
      PROVE  OneRequestInv(w)'
  <2>1. p \in [1..n -> Ids] /\ n \in Nat
    BY ImportAssumption DEF ImportPlans, Ids
  <2>2. p \in Seq(Ids) /\ 0 <= Len(p)
    BY <2>1, SeqDef, LenProperties
  <2>3. \A o \in Members(Chunk(p, 0, version)) : o.kind = "edit"
    BY <2>2, ChunkEdits
  <2> QED
    BY <1>3, <2>3, ReceiveKeeps DEF Import
<1> QED
  BY <1>1, <1>2, <1>3 DEF Request

LEMMA BuildSnapshotKeeps ==
  ASSUME LedgerInv, NEW w \in Workers, OneRequestInv(w), BuildSnapshot(w)
  PROVE  OneRequestInv(w)'
<1>0. PICK o : o = WithSnapshot(batch[w][1])
  OBVIOUS
<1>1. /\ pc[w] = "snapshot" /\ pc'[w] \in {"queued", "answer"}
      /\ UNCHANGED <<ops, version>>
  BY DEF BuildSnapshot, LedgerInv, TypeInv, TypeOK, dbVars
<1>2. batch[w] \in Seq(Op) /\ batch[w] # <<>>
  BY <1>1 DEF LedgerInv, TypeInv, TypeOK, RequestInv
<1>3. batch[w][1] \in Op
  BY <1>2, ElementOfSeq, EmptySeq
<1>4. CASE TargetKnown(w)
  <2>1. /\ pc'[w] = "queued" /\ batch'[w] = <<o>> /\ result'[w] = result[w]
    BY <1>0, <1>4 DEF BuildSnapshot, LedgerInv, TypeInv, TypeOK
  <2>2. Faithful(o)'
    <3>1. o.kind = batch[w][1].kind /\ o.target = batch[w][1].target /\ o.snap = Prefix(o.target)
      BY <1>0, <1>3 DEF WithSnapshot, Op
    <3>2. o.target <= inst[w] /\ inst[w] <= version
      BY <1>1, <1>4, <3>1 DEF TargetKnown, OneRequestInv, RestoreInv
    <3>3. o.target \in Nat /\ inst[w] \in Nat /\ version \in Nat
      BY <1>3, <3>1 DEF Op, LedgerInv, TypeInv, TypeOK
    <3>4. Faithful(o)
      BY <3>1, <3>2, <3>3 DEF Faithful
    <3> QED
      BY <1>1, <3>4, FaithfulSame
  <2>3. RestoreInv(w)'
    <3>1. \A x \in Members(batch'[w]) : x = o
      BY <2>1, MembersOne
    <3> QED
      BY <2>1, <2>2, <3>1 DEF RestoreInv
  <2>4. result'[w] = NoAnswer
    BY <1>1, <2>1 DEF OneRequestInv, AnswerInv
  <2> QED
    BY <2>1, <2>3, <2>4 DEF OneRequestInv, WalkInv, AnswerInv, NoAnswer, Answer
<1>5. CASE ~TargetKnown(w)
  <2>1. pc'[w] = "answer" /\ result'[w].status = "invalid"
    BY <1>5 DEF BuildSnapshot, LedgerInv, TypeInv, TypeOK, Answer
  <2> QED
    BY <2>1 DEF OneRequestInv, RestoreInv, WalkInv, AnswerInv
<1> QED
  BY <1>4, <1>5

LEMMA LockRowKeeps ==
  ASSUME LedgerInv, NEW w \in Workers, OneRequestInv(w), LockRow(w)
  PROVE  OneRequestInv(w)'
<1>1. /\ pc[w] = "queued" /\ pc'[w] = "loop" /\ batch'[w] = batch[w]
      /\ todo'[w] = batch[w] /\ seen'[w] = {} /\ rows'[w] = {} /\ acks'[w] = <<>>
      /\ result'[w] = result[w]
      /\ UNCHANGED <<ops, version>>
  BY DEF LockRow, LedgerInv, TypeInv, TypeOK, dbVars, reqVars
<1>2. RestoreInv(w)'
  <2>1. \A o \in Members(batch[w]) : Faithful(o)'
    BY <1>1, FaithfulSame DEF OneRequestInv, RestoreInv
  <2> QED
    BY <1>1, <2>1 DEF RestoreInv
<1>3. WalkInv(w)'
  BY <1>1, MembersEmpty DEF WalkInv
<1>4. AnswerInv(w)'
  BY <1>1 DEF OneRequestInv, AnswerInv, NoAnswer, Answer
<1> QED
  BY <1>2, <1>3, <1>4 DEF OneRequestInv

\* What the loop does with the operation at its head.
LEMMA HeadOfTodo ==
  ASSUME TypeOK, NEW w \in Workers, InLoop(w)
  PROVE  /\ pc[w] = "loop" /\ Head(todo[w]) \in Op /\ Tail(todo[w]) \in Seq(Op)
         /\ Members(todo[w]) = {Head(todo[w])} \cup Members(Tail(todo[w]))
         /\ IdsIn(todo[w]) = {Head(todo[w]).id} \cup IdsIn(Tail(todo[w]))
<1>1. todo[w] \in Seq(Op) /\ todo[w] # <<>> /\ pc[w] = "loop"
  BY DEF TypeOK, InLoop
<1>2. Head(todo[w]) \in Op /\ Tail(todo[w]) \in Seq(Op)
  BY <1>1, TailType
<1>3. Members(todo[w]) = {Head(todo[w])} \cup Members(Tail(todo[w]))
  BY <1>1, MembersTail
<1>4. IdsIn(todo[w]) = {Head(todo[w]).id} \cup IdsIn(Tail(todo[w]))
  BY <1>3 DEF IdsIn
<1> QED
  BY <1>1, <1>2, <1>3, <1>4

LEMMA SkipRepeatKeeps ==
  ASSUME LedgerInv, NEW w \in Workers, OneRequestInv(w), SkipRepeat(w)
  PROVE  OneRequestInv(w)'
<1>1. /\ todo'[w] = Tail(todo[w]) /\ Head(todo[w]).id \in seen[w]
      /\ UNCHANGED <<ops, version, pc, batch, seen, rows, acks, result>>
      /\ InLoop(w)
  BY DEF SkipRepeat, LedgerInv, TypeInv, TypeOK, dbVars, reqVars
<1>2. /\ Members(todo[w]) = {Head(todo[w])} \cup Members(Tail(todo[w]))
      /\ IdsIn(todo[w]) = {Head(todo[w]).id} \cup IdsIn(Tail(todo[w]))
      /\ pc[w] = "loop"
  BY <1>1, HeadOfTodo DEF LedgerInv, TypeInv
<1>3. RestoreInv(w)'
  BY <1>1, <1>2, FaithfulSame DEF OneRequestInv, RestoreInv
<1>4. WalkInv(w)'
  BY <1>1, <1>2 DEF OneRequestInv, WalkInv
<1>5. AnswerInv(w)'
  BY <1>1 DEF OneRequestInv, AnswerInv
<1> QED
  BY <1>3, <1>4, <1>5 DEF OneRequestInv

LEMMA AckExistingKeeps ==
  ASSUME LedgerInv, NEW w \in Workers, OneRequestInv(w), AckExisting(w)
  PROVE  OneRequestInv(w)'
<1> DEFINE id == Head(todo[w]).id
           ack == [id |-> id, seq |-> StoredSequence(id), dup |-> TRUE]
<1>1. /\ InLoop(w) /\ id \in Persisted
      /\ todo'[w] = Tail(todo[w]) /\ seen'[w] = seen[w] \cup {id}
      /\ acks'[w] = Append(acks[w], ack)
      /\ UNCHANGED <<ops, version, pc, batch, rows, result>>
  BY DEF AckExisting, LedgerInv, TypeInv, TypeOK, dbVars, reqVars
<1>2. /\ Members(todo[w]) = {Head(todo[w])} \cup Members(Tail(todo[w]))
      /\ IdsIn(todo[w]) = {id} \cup IdsIn(Tail(todo[w]))
      /\ pc[w] = "loop" /\ Head(todo[w]) \in Op
  BY <1>1, HeadOfTodo DEF LedgerInv, TypeInv
<1>3. PICK r \in ops : r.op.id = id /\ r.seq = StoredSequence(id)
  BY <1>1 DEF Persisted, StoredSequence
<1>4. ack \in Ack /\ acks[w] \in Seq(Ack)
  <2>1. id \in Ids /\ r.seq \in Nat
    BY <1>2, <1>3 DEF Op, Row, LedgerInv, TypeInv, TypeOK
  <2> QED
    BY <1>3, <2>1 DEF Ack, LedgerInv, TypeInv, TypeOK
<1>7. Stored(ack, ops \cup rows[w]) /\ ack.id = id
  BY <1>3 DEF Stored
<1>8. RestoreInv(w)'
  BY <1>1, <1>2, FaithfulSame DEF OneRequestInv, RestoreInv
<1> HIDE DEF ack, id
<1>5. Members(acks'[w]) = Members(acks[w]) \cup {ack}
  BY <1>1, <1>4, MembersAppend
<1>6. IdsIn(acks'[w]) = IdsIn(acks[w]) \cup {id}
  BY <1>5, <1>7 DEF IdsIn
<1>9. WalkInv(w)'
  <2>1. \A a \in Members(acks'[w]) : Stored(a, ops \cup rows[w])
    BY <1>2, <1>5, <1>7 DEF OneRequestInv, WalkInv
  <2> QED
    BY <1>1, <1>2, <1>6, <2>1 DEF OneRequestInv, WalkInv
<1>10. AnswerInv(w)'
  BY <1>1, <1>2 DEF OneRequestInv, AnswerInv, NoAnswer, Answer
<1> QED
  BY <1>8, <1>9, <1>10 DEF OneRequestInv

LEMMA CreateRowKeeps ==
  ASSUME LedgerInv, NEW w \in Workers, OneRequestInv(w), CreateRow(w)
  PROVE  OneRequestInv(w)'
<1> DEFINE op == Head(todo[w])
           row == [seq |-> expected[w] + 1, op |-> op]
           ack == [id |-> op.id, seq |-> expected[w] + 1, dup |-> FALSE]
<1>1. /\ InLoop(w)
      /\ todo'[w] = Tail(todo[w]) /\ seen'[w] = seen[w] \cup {op.id}
      /\ rows'[w] = rows[w] \cup {row}
      /\ acks'[w] = Append(acks[w], ack)
      /\ UNCHANGED <<ops, version, pc, batch, result>>
  BY DEF CreateRow, LedgerInv, TypeInv, TypeOK, dbVars, reqVars
<1>2. /\ Members(todo[w]) = {op} \cup Members(Tail(todo[w]))
      /\ IdsIn(todo[w]) = {op.id} \cup IdsIn(Tail(todo[w]))
      /\ pc[w] = "loop" /\ op \in Op
  BY <1>1, HeadOfTodo DEF LedgerInv, TypeInv
<1>3. ack \in Ack /\ acks[w] \in Seq(Ack)
  <2> HIDE DEF op
  <2>1. op.id \in Ids
    BY <1>2 DEF Op
  <2>2. expected[w] + 1 \in Nat
    BY SMTT(30) DEF LedgerInv, TypeInv, TypeOK
  <2> QED
    BY <2>1, <2>2 DEF Ack, LedgerInv, TypeInv, TypeOK
<1>6. Stored(ack, {row}) /\ ack.id = op.id
  BY DEF Stored
<1>7. op \in Members(batch[w]) /\ row.op = op
  BY <1>2 DEF OneRequestInv, WalkInv
<1> HIDE DEF ack, row, op
<1>4. Members(acks'[w]) = Members(acks[w]) \cup {ack}
  BY <1>1, <1>3, MembersAppend
<1>5. IdsIn(acks'[w]) = IdsIn(acks[w]) \cup {op.id}
  BY <1>4, <1>6 DEF IdsIn
<1>8. RestoreInv(w)'
  BY <1>1, <1>2, <1>7, FaithfulSame DEF OneRequestInv, RestoreInv
<1>9. WalkInv(w)'
  <2>1. ops \cup rows[w] \subseteq ops \cup rows'[w] /\ {row} \subseteq ops \cup rows'[w]
    BY <1>1
  <2>2. \A a \in Members(acks'[w]) : Stored(a, ops \cup rows'[w])
    BY <1>2, <1>4, <1>6, <2>1, StoredKept DEF OneRequestInv, WalkInv
  <2> QED
    BY <1>1, <1>2, <1>5, <1>7, <2>2 DEF OneRequestInv, WalkInv
<1>10. AnswerInv(w)'
  BY <1>1, <1>2 DEF OneRequestInv, AnswerInv, NoAnswer, Answer
<1> QED
  BY <1>8, <1>9, <1>10 DEF OneRequestInv

\* The ends of a request.
LEMMA RefusedKeeps ==
  ASSUME LedgerInv, NEW w \in Workers, OneRequestInv(w),
         RefuseArchived(w) \/ RefuseStale(w)
  PROVE  OneRequestInv(w)'
<1>1. pc'[w] = "answer" /\ result'[w].status \in {"read_only", "stale"}
  BY DEF RefuseArchived, RefuseStale, LedgerInv, TypeInv, TypeOK, Answer
<1> QED
  BY <1>1 DEF OneRequestInv, RestoreInv, WalkInv, AnswerInv

\* When the loop is over everything in the batch was acknowledged, by a row
\* that is stored or is about to be.
LEMMA WalkedThrough ==
  ASSUME NEW w \in Workers, OneRequestInv(w), CommitTx(w)
  PROVE  /\ IdsIn(batch[w]) \subseteq IdsIn(acks[w])
         /\ \A a \in Members(acks[w]) : Stored(a, ops')
<1>1. pc[w] = "loop" /\ todo[w] = <<>> /\ ops' = ops \cup rows[w]
  BY DEF CommitTx
<1>2. IdsIn(todo[w]) = {}
  BY <1>1, MembersEmpty DEF IdsIn
<1> QED
  BY <1>1, <1>2 DEF OneRequestInv, WalkInv

LEMMA CommitKeeps ==
  ASSUME LedgerInv, NEW w \in Workers, OneRequestInv(w), Commit(w)
  PROVE  OneRequestInv(w)'
<1>1. CommitTx(w) /\ pc'[w] = "answer" /\ UNCHANGED <<batch, acks>>
  BY DEF Commit, LedgerInv, TypeInv, TypeOK, reqVars
<1>2. AnswerInv(w)'
  BY <1>1, WalkedThrough DEF AnswerInv
<1> QED
  BY <1>1, <1>2 DEF OneRequestInv, RestoreInv, WalkInv

LEMMA CommitChunkKeeps ==
  ASSUME LedgerInv, NEW w \in Workers, OneRequestInv(w), CommitChunk(w)
  PROVE  OneRequestInv(w)'
<1> DEFINE chunk == Chunk(plan[w], sent[w], ResultVersion(w))
<1>1. /\ pc[w] = "loop" /\ pc'[w] = "queued" /\ batch'[w] = chunk /\ result'[w] = result[w]
  BY DEF CommitChunk, CommitTx, LedgerInv, TypeInv, TypeOK
<1>2. plan[w] \in Seq(Ids) /\ sent[w] \in Nat /\ sent[w] <= Len(plan[w])
  BY DEF LedgerInv, TypeInv, TypeOK, RequestInv
<1>3. \A o \in Members(chunk) : o.kind = "edit"
  BY <1>2, ChunkEdits
<1> HIDE DEF chunk
<1>4. RestoreInv(w)'
  BY <1>1, <1>3 DEF RestoreInv, Faithful
<1>5. result'[w] = NoAnswer
  BY <1>1 DEF OneRequestInv, AnswerInv
<1> QED
  BY <1>1, <1>4, <1>5 DEF OneRequestInv, WalkInv, AnswerInv, NoAnswer, Answer

LEMMA ForgetKeeps ==
  ASSUME TypeOK, NEW w \in Workers, Forget(w)
  PROVE  OneRequestInv(w)'
<1>1. pc'[w] = "idle" /\ result'[w] = NoAnswer
  BY DEF Forget, TypeOK
<1> QED
  BY <1>1 DEF OneRequestInv, RestoreInv, WalkInv, AnswerInv, NoAnswer, Answer

\* Only a commit changes the rows.
LEMMA OnlyCommitsStore ==
  ASSUME [Next]_vars, ops' # ops
  PROVE  \E w \in Workers : CommitTx(w)
<1> USE DEF dbVars, reqVars, txVars
<1>1. ASSUME NEW w \in Workers, Request(w) PROVE UNCHANGED ops
  BY <1>1 DEF Request, Submit, Restore, Import, Receive
<1>2. ASSUME NEW w \in Workers, Serve(w), ~Commit(w), ~CommitChunk(w) PROVE UNCHANGED ops
  BY <1>2 DEF Serve, Transaction, BuildSnapshot, LockRow, RefuseArchived, SkipRepeat,
              AckExisting, CreateRow, RefuseStale, Respond, Forget
<1>3. ASSUME NEW w \in Workers, Crash(w) PROVE UNCHANGED ops
  BY <1>3 DEF Crash, Forget
<1>4. CASE Archive \/ Unarchive \/ UNCHANGED vars
  BY <1>4 DEF Archive, Unarchive, SetStatus, vars
<1> QED
  BY <1>1, <1>2, <1>3, <1>4 DEF Next, Commit, CommitChunk

\* A committed restore keeps what it carries, and what is committed now
\* carried it under a sequence beyond its target.
LEMMA StoredRestoresStep ==
  ASSUME LedgerInv, LedgerInv', RequestsInv, [Next]_vars
  PROVE  StoredRestoresInv'
<1>1. Grows
  BY GrowsStep
<1>2. ASSUME NEW r \in ops', r.op.kind = "restore"
      PROVE  r.op.target < r.seq /\ r.op.snap = Prefix(r.op.target)'
  <2>0. /\ version \in Nat /\ r.seq \in Nat /\ r.op \in Op /\ r.op.target \in Nat
    BY DEF LedgerInv, TypeInv, TypeOK, Row, Op
  <2>1. CASE r \in ops
    <3>1. /\ r.op.target < r.seq /\ r.op.snap = Prefix(r.op.target)
          /\ r.seq <= version
      BY <1>2, <2>1 DEF RequestsInv, StoredRestoresInv, LedgerInv, OpsInv, Numbers
    <3>2. r.op.target <= version
      BY <2>0, <3>1
    <3> QED
      BY <1>1, <2>0, <3>1, <3>2, PrefixKept
  <2>2. CASE r \notin ops
    <3>1. PICK w \in Workers : CommitTx(w)
      BY <1>2, <2>2, OnlyCommitsStore
    <3>2. r \in rows[w] /\ pc[w] = "loop"
      BY <2>2, <3>1 DEF CommitTx
    <3>3. Faithful(r.op)
      BY <3>2 DEF RequestsInv, OneRequestInv, RestoreInv
    <3>4. r.op.target <= version /\ r.op.snap = Prefix(r.op.target)
      BY <1>2, <3>3 DEF Faithful
    <3>5. r.seq > version
      BY <1>1, <2>2 DEF Grows
    <3> QED
      BY <1>1, <2>0, <3>4, <3>5, PrefixKept
  <2> QED
    BY <2>1, <2>2
<1> QED
  BY <1>2 DEF StoredRestoresInv

LEMMA RequestsInit == Init => RequestsInv
<1> SUFFICES ASSUME Init PROVE RequestsInv
  OBVIOUS
<1>1. ASSUME NEW w \in Workers PROVE pc[w] = "idle" /\ result[w] = NoAnswer
  BY <1>1 DEF Init
<1>2. ASSUME NEW w \in Workers PROVE OneRequestInv(w)
  BY <1>1, <1>2 DEF OneRequestInv, RestoreInv, WalkInv, AnswerInv, NoAnswer, Answer
<1>3. StoredRestoresInv
  BY DEF Init, StoredRestoresInv
<1> QED
  BY <1>2, <1>3 DEF RequestsInv

LEMMA RequestsStep ==
  LedgerInv /\ LedgerInv' /\ RequestsInv /\ [Next]_vars => RequestsInv'
<1> SUFFICES ASSUME LedgerInv, LedgerInv', RequestsInv, [Next]_vars
             PROVE  RequestsInv'
  OBVIOUS
<1>0. TypeInv /\ TypeOK /\ Grows
  BY GrowsStep DEF LedgerInv, TypeInv
<1>1. ASSUME NEW w \in Workers PROVE OneRequestInv(w)
  BY DEF RequestsInv
<1>2. ASSUME NEW w \in Workers, Step(w) PROVE OneRequestInv(w)'
  <2>1. CASE Request(w)
    BY <1>0, <1>1, <2>1, RequestKeeps
  <2>2. CASE BuildSnapshot(w)
    BY <1>1, <2>2, BuildSnapshotKeeps
  <2>3. CASE LockRow(w)
    BY <1>1, <2>3, LockRowKeeps
  <2>4. CASE RefuseArchived(w) \/ RefuseStale(w)
    BY <1>1, <2>4, RefusedKeeps
  <2>5. CASE SkipRepeat(w)
    BY <1>1, <2>5, SkipRepeatKeeps
  <2>6. CASE AckExisting(w)
    BY <1>1, <2>6, AckExistingKeeps
  <2>7. CASE CreateRow(w)
    BY <1>1, <2>7, CreateRowKeeps
  <2>8. CASE Commit(w)
    BY <1>1, <2>8, CommitKeeps
  <2>9. CASE CommitChunk(w)
    BY <1>1, <2>9, CommitChunkKeeps
  <2>10. CASE Respond(w) \/ Crash(w)
    BY <1>0, <2>10, ForgetKeeps DEF Respond, Crash
  <2> QED
    BY <1>2, <2>1, <2>2, <2>3, <2>4, <2>5, <2>6, <2>7, <2>8, <2>9, <2>10
    DEF Step, Serve, Transaction
<1>3. ASSUME NEW w \in Workers PROVE OneRequestInv(w)'
  <2>1. CASE Same(w)
    BY <1>0, <1>1, <2>1, OthersKeep
  <2>2. CASE ~Same(w)
    <3>1. PICK v \in Workers : Step(v)
      BY <2>2, Steps
    <3>2. v = w
      BY <1>0, <2>2, <3>1, OthersSame
    <3> QED
      BY <1>2, <3>1, <3>2
  <2> QED
    BY <2>1, <2>2
<1> QED
  BY <1>3, StoredRestoresStep DEF RequestsInv

LEMMA RequestsInvariant == Spec => []RequestsInv
<1> QED
  BY RequestsInit, RequestsStep, LedgerInvariant, PTL DEF Spec

-----------------------------------------------------------------------------
(* Theorems about single requests.                                          *)

\* A restore stores the board exactly as of its target, which comes before it,
\* although the snapshot was taken before the lock and others commit meanwhile.
THEOREM SnapshotsAreFaithful == Spec => []SnapshotFaithful
<1>1. RequestsInv => SnapshotFaithful
  BY DEF RequestsInv, StoredRestoresInv, SnapshotFaithful
<1> QED
  BY <1>1, RequestsInvariant, PTL

\* An answer "ok" leaves out no operation of the request and gives each one
\* the sequence it has in the ledger, repeats within the batch and retries of
\* what an earlier request stored included.
THEOREM AcknowledgementsAreTruthful == Spec => []AcksTruthful
<1>1. RequestsInv => AcksTruthful
  <2> SUFFICES ASSUME RequestsInv, NEW w \in Workers, result[w].status = "ok"
               PROVE  /\ \A k \in 1..Len(acks[w]) :
                           \E r \in ops : r.op.id = acks[w][k].id /\ r.seq = acks[w][k].seq
                      /\ \A k \in 1..Len(batch[w]) :
                           \E j \in 1..Len(acks[w]) : acks[w][j].id = batch[w][k].id
    BY DEF AcksTruthful
  <2>1. /\ \A a \in Members(acks[w]) : Stored(a, ops)
        /\ IdsIn(batch[w]) \subseteq IdsIn(acks[w])
    BY DEF RequestsInv, OneRequestInv, AnswerInv
  <2>2. ASSUME NEW k \in 1..Len(acks[w])
        PROVE  \E r \in ops : r.op.id = acks[w][k].id /\ r.seq = acks[w][k].seq
    BY <2>1 DEF Members, Stored
  <2>3. ASSUME NEW k \in 1..Len(batch[w])
        PROVE  \E j \in 1..Len(acks[w]) : acks[w][j].id = batch[w][k].id
    <3>1. batch[w][k].id \in IdsIn(batch[w])
      BY DEF IdsIn, Members
    <3>2. PICK a \in Members(acks[w]) : a.id = batch[w][k].id
      BY <2>1, <3>1 DEF IdsIn
    <3> QED
      BY <3>2 DEF Members
  <2> QED
    BY <2>2, <2>3
<1> QED
  BY <1>1, RequestsInvariant, PTL

\* A step that stores anything stores the whole request, or import chunk, that
\* it stores for.
THEOREM RequestsAreWhole == Spec => WholeRequests
<1>1. ASSUME LedgerInv, RequestsInv, [Next]_vars, ops' # ops
      PROVE  \E w \in Workers : \A k \in 1..Len(batch[w]) :
               batch[w][k].id \in {r.op.id : r \in ops'}
  <2>1. PICK w \in Workers : CommitTx(w)
    BY <1>1, OnlyCommitsStore
  <2>2. /\ IdsIn(batch[w]) \subseteq IdsIn(acks[w])
        /\ \A a \in Members(acks[w]) : Stored(a, ops')
    BY <1>1, <2>1, WalkedThrough DEF RequestsInv
  <2>3. ASSUME NEW k \in 1..Len(batch[w]) PROVE batch[w][k].id \in {r.op.id : r \in ops'}
    <3>1. batch[w][k].id \in IdsIn(batch[w])
      BY DEF IdsIn, Members
    <3>2. PICK a \in Members(acks[w]) : a.id = batch[w][k].id
      BY <2>2, <3>1 DEF IdsIn
    <3> QED
      BY <2>2, <3>2 DEF Stored
  <2> QED
    BY <2>3
<1> QED
  BY <1>1, LedgerInvariant, RequestsInvariant, PTL DEF Spec, WholeRequests

\* Once a request whose operations are all stored has the row lock, it is
\* answered "ok" however old the versions it was based on are.
THEOREM RetriesAreAcknowledged == Spec => RetryIsAcknowledged
<1>1. ASSUME LedgerInv, RequestsInv, [Next]_vars, NEW w \in Workers,
             pc[w] = "loop", pc'[w] = "answer",
             \A k \in 1..Len(batch[w]) : batch[w][k].id \in Persisted
      PROVE  result'[w].status = "ok"
  <2>0. TypeOK
    BY <1>1 DEF LedgerInv, TypeInv
  <2>1. ~Same(w)
    BY <1>1 DEF Same
  <2>2. Step(w)
    BY <1>1, <2>0, <2>1, Steps, OthersSame
  <2>3. Commit(w) \/ RefuseStale(w)
    BY <1>1, <2>0, <2>2
    DEF Step, Request, Submit, Restore, Import, Receive, Serve, BuildSnapshot, Transaction,
        LockRow, RefuseArchived, SkipRepeat, AckExisting, CreateRow, CommitChunk,
        Respond, Crash, Forget, TypeOK
  <2>4. ~RefuseStale(w)
    <3> SUFFICES ASSUME RefuseStale(w) PROVE FALSE
      OBVIOUS
    <3>1. InLoop(w) /\ Head(todo[w]).id \notin Persisted
      BY DEF RefuseStale, IsNew
    <3>2. Head(todo[w]) \in Members(batch[w])
      BY <1>1, <2>0, <3>1, HeadOfTodo DEF RequestsInv, OneRequestInv, WalkInv
    <3> QED
      BY <1>1, <3>1, <3>2 DEF Members
  <2> QED
    BY <2>0, <2>3, <2>4 DEF Commit, Answer, TypeOK
<1>2. LedgerInv /\ RequestsInv /\ [Next]_vars =>
        \A w \in Workers :
          /\ pc[w] = "loop" /\ pc'[w] = "answer"
          /\ \A k \in 1..Len(batch[w]) : batch[w][k].id \in Persisted
          => result'[w].status = "ok"
  BY <1>1
<1> QED
  BY <1>2, LedgerInvariant, RequestsInvariant, PTL DEF Spec, RetryIsAcknowledged

-----------------------------------------------------------------------------
(* Imports.  The chunk an import is at continues what its earlier chunks    *)
(* have stored; the base of each operation is the sequence before its own,  *)
(* so the loop stores it there or refuses the chunk.                        *)

PlanIds(w) == {plan[w][k] : k \in 1..Len(plan[w])}

\* The ids of an import were drawn for it alone, and no other request has any
\* of an import's ids.
PlansInv ==
  /\ \A w \in Workers :
       /\ PlanIds(w) \subseteq ImportIds
       /\ \A j, k \in 1..Len(plan[w]) : plan[w][j] = plan[w][k] => j = k
       /\ plan[w] = <<>> => IdsIn(batch[w]) \cap ImportIds = {}
  /\ \A v, w \in Workers : v # w => PlanIds(v) \cap PlanIds(w) = {}

\* How much of an import the chunks before this one have stored.
Before(w) == sent[w] - Len(batch[w])

\* How much of it is stored.
StoredCount(w) == IF result[w].status = "ok" THEN sent[w] ELSE Before(w)

ChunkInv(w) ==
  /\ pc[w] \in {"queued", "loop", "answer"}
  /\ Before(w) >= 0
  /\ \A k \in 1..Len(batch[w]) :
       batch[w][k].id = plan[w][Before(w) + k] /\ batch[w][k].base = inst[w] + Before(w) + k - 1
  /\ result[w].status = "ok" => sent[w] = Len(plan[w])

\* The operations of an import are stored in their order from the version it
\* read on, up to StoredCount and no further.
StoredInv(w) ==
  \A k \in 1..Len(plan[w]) :
    /\ k <= StoredCount(w) => \E r \in ops : r.op.id = plan[w][k] /\ r.seq = inst[w] + k
    /\ k > StoredCount(w) => plan[w][k] \notin Persisted

\* How many operations of the chunk the loop has met.
Met(w) == Len(batch[w]) - Len(todo[w])

\* The loop has created a row for each operation it has met and for no other.
LoopInv(w) ==
  pc[w] = "loop" =>
    /\ Met(w) >= 0
    /\ \A j \in 1..Len(todo[w]) : todo[w][j] = batch[w][Met(w) + j]
    /\ \A k \in 1..Met(w) :
         \E r \in rows[w] : r.op.id = plan[w][Before(w) + k] /\ r.seq = inst[w] + Before(w) + k
    /\ \A r \in rows[w] : \E k \in 1..Met(w) : r.op.id = plan[w][Before(w) + k]
    /\ \A id \in seen[w] : \E k \in 1..Met(w) : id = plan[w][Before(w) + k]
    /\ Met(w) > 0 => ResultVersion(w) = inst[w] + Before(w) + Met(w)

ImportInv(w) == plan[w] # <<>> => ChunkInv(w) /\ StoredInv(w) /\ LoopInv(w)

ImportsInv == PlansInv /\ \A w \in Workers : ImportInv(w)

LEMMA ImportFacts ==
  ASSUME LedgerInv, RequestsInv, ImportsInv, NEW w \in Workers, plan[w] # <<>>
  PROVE  /\ plan[w] \in Seq(Ids) /\ batch[w] \in Seq(Op)
         /\ Len(plan[w]) \in Nat /\ Len(batch[w]) \in Nat
         /\ sent[w] \in Nat /\ inst[w] \in Nat /\ Before(w) \in Nat
         /\ Before(w) + Len(batch[w]) = sent[w] /\ sent[w] <= Len(plan[w])
         /\ pc[w] # "answer" => StoredCount(w) = Before(w) /\ result[w].status = "none"
         /\ ChunkInv(w) /\ StoredInv(w) /\ LoopInv(w)
         /\ \A j, k \in 1..Len(plan[w]) : plan[w][j] = plan[w][k] => j = k
<1>1. /\ plan[w] \in Seq(Ids) /\ batch[w] \in Seq(Op)
      /\ sent[w] \in Nat /\ inst[w] \in Nat /\ sent[w] <= Len(plan[w])
  BY DEF LedgerInv, TypeInv, TypeOK, RequestInv
<1>2. Len(plan[w]) \in Nat /\ Len(batch[w]) \in Nat
  BY <1>1, LenProperties
<1>3. ChunkInv(w) /\ StoredInv(w) /\ LoopInv(w)
  BY DEF ImportsInv, ImportInv
<1>4. Before(w) \in Nat /\ Before(w) + Len(batch[w]) = sent[w]
  BY <1>1, <1>2, <1>3 DEF ChunkInv, Before
<1>5. pc[w] # "answer" => result[w].status = "none"
  BY DEF RequestsInv, OneRequestInv, AnswerInv, NoAnswer, Answer
<1> QED
  BY <1>1, <1>2, <1>3, <1>4, <1>5 DEF StoredCount, ImportsInv, PlansInv

\* The chunk of an import consists of its ids.
LEMMA ChunkIds ==
  ASSUME LedgerInv, RequestsInv, ImportsInv, NEW w \in Workers, plan[w] # <<>>
  PROVE  IdsIn(batch[w]) \subseteq PlanIds(w)
<1>1. ASSUME NEW k \in 1..Len(batch[w])
      PROVE  batch[w][k].id \in PlanIds(w)
  <2>1. Before(w) + k \in 1..Len(plan[w]) /\ batch[w][k].id = plan[w][Before(w) + k]
    BY ImportFacts DEF ChunkInv
  <2> QED
    BY <2>1 DEF PlanIds
<1> QED
  BY <1>1 DEF IdsIn, Members

\* A step that stores an id of an import is a commit of that import.
LEMMA OwnIdsOnly ==
  ASSUME LedgerInv, RequestsInv, ImportsInv, [Next]_vars,
         NEW w \in Workers, NEW id \in PlanIds(w), id \notin Persisted, id \in Persisted'
  PROVE  ~Same(w) /\ CommitTx(w) /\ \E r \in rows[w] : r.op.id = id
<1>1. ops' # ops
  BY DEF Persisted
<1>2. PICK u \in Workers : CommitTx(u)
  BY <1>1, OnlyCommitsStore
<1>3. pc[u] = "loop" /\ todo[u] = <<>> /\ ops' = ops \cup rows[u]
  BY <1>2 DEF CommitTx
<1>4. PICK r \in rows[u] : r.op.id = id
  BY <1>3 DEF Persisted
<1>5. id \in IdsIn(batch[u])
  BY <1>3, <1>4 DEF RequestsInv, OneRequestInv, WalkInv, IdsIn
<1>6. id \in ImportIds
  BY DEF ImportsInv, PlansInv
<1>7. plan[u] # <<>>
  BY <1>5, <1>6 DEF ImportsInv, PlansInv
<1>8. u = w
  BY <1>5, <1>7, ChunkIds DEF ImportsInv, PlansInv
<1>9. seen[u] # {} /\ seen'[u] = {}
  BY <1>2, <1>3 DEF CommitTx, EndTx, LedgerInv, TypeInv, TypeOK, RequestInv
<1> QED
  BY <1>2, <1>4, <1>8, <1>9 DEF Same

LEMMA OthersImport ==
  ASSUME LedgerInv, RequestsInv, ImportsInv, [Next]_vars, NEW w \in Workers, Same(w)
  PROVE  ImportInv(w)'
<1> SUFFICES ASSUME plan[w] # <<>>
             PROVE  ChunkInv(w)' /\ StoredInv(w)' /\ LoopInv(w)'
  BY DEF ImportInv, Same
<1>1. ChunkInv(w) /\ StoredInv(w) /\ LoopInv(w)
  BY ImportFacts
<1>2. /\ Before(w)' = Before(w) /\ StoredCount(w)' = StoredCount(w)
      /\ Met(w)' = Met(w) /\ ResultVersion(w)' = ResultVersion(w)
  BY DEF Same, Before, StoredCount, Met, ResultVersion
<1>3. ChunkInv(w)'
  BY <1>1, <1>2 DEF ChunkInv, Same
<1>4. LoopInv(w)'
  BY <1>1, <1>2 DEF LoopInv, Same
<1>5. StoredInv(w)'
  <2> SUFFICES ASSUME NEW k \in 1..Len(plan[w])
               PROVE  /\ k <= StoredCount(w) =>
                           \E r \in ops' : r.op.id = plan[w][k] /\ r.seq = inst[w] + k
                      /\ k > StoredCount(w) => plan[w][k] \notin Persisted'
    BY <1>2 DEF StoredInv, Same
  <2>1. ops \subseteq ops'
    BY GrowsStep DEF Grows
  <2>2. plan[w][k] \notin Persisted => plan[w][k] \notin Persisted'
    BY OwnIdsOnly DEF PlanIds
  <2> QED
    BY <1>1, <2>1, <2>2 DEF StoredInv
<1> QED
  BY <1>3, <1>4, <1>5

\* Which ids the requests carry changes only when one begins or ends.
LEMMA PlansKept ==
  ASSUME PlansInv,
         \A w \in Workers : /\ plan'[w] = plan[w]
                            /\ plan[w] # <<>> \/ IdsIn(batch'[w]) = IdsIn(batch[w])
  PROVE  PlansInv'
<1>1. \A w \in Workers : PlanIds(w)' = PlanIds(w)
  BY DEF PlanIds
<1> QED
  BY <1>1 DEF PlansInv

LEMMA PlansReplaced ==
  ASSUME PlansInv, NEW w \in Workers, \A v \in Workers \ {w} : Same(v),
         plan'[w] = <<>>, IdsIn(batch'[w]) \cap ImportIds = {}
  PROVE  PlansInv'
<1>1. \A v \in Workers \ {w} : PlanIds(v)' = PlanIds(v)
  BY DEF PlanIds, Same
<1>2. PlanIds(w)' = {}
  BY DEF PlanIds
<1> QED
  BY <1>1, <1>2 DEF PlansInv, Same

LEMMA PlansDrawn ==
  ASSUME PlansInv, NEW w \in Workers, \A v \in Workers \ {w} : Same(v),
         NEW n \in 1..MaxImport, NEW p \in ImportPlans(n), plan'[w] = p, Len(p) = n, p # <<>>
  PROVE  PlansInv'
<1>1. ASSUME NEW v \in Workers \ {w} PROVE PlanIds(v)' = PlanIds(v) /\ PlanIds(v) \subseteq Drawn
  <2>1. PlanIds(v) \in {{plan[u][k] : k \in 1..Len(plan[u])} : u \in Workers}
    BY DEF PlanIds
  <2>2. PlanIds(v) \subseteq Drawn
    BY <2>1 DEF Drawn
  <2> QED
    BY <2>2 DEF PlanIds, Same
<1>2. /\ PlanIds(w)' = {p[k] : k \in 1..n}
      /\ \A k \in 1..n : p[k] \in ImportIds /\ p[k] \notin Drawn
      /\ \A j, k \in 1..n : p[j] = p[k] => j = k
  BY DEF PlanIds, ImportPlans
<1>3. \A v \in Workers \ {w} : PlanIds(v)' \cap PlanIds(w)' = {}
  BY <1>1, <1>2
<1>4. PlanIds(w)' \subseteq ImportIds
  BY <1>2
<1>5. \A v \in Workers \ {w} :
        /\ PlanIds(v)' \subseteq ImportIds
        /\ \A j, k \in 1..Len(plan'[v]) : plan'[v][j] = plan'[v][k] => j = k
        /\ plan'[v] = <<>> => IdsIn(batch'[v]) \cap ImportIds = {}
  BY <1>1 DEF PlansInv, Same
<1>6. \A v \in Workers \ {w} : \A u \in Workers \ {w} : u # v => PlanIds(v)' \cap PlanIds(u)' = {}
  BY <1>1 DEF PlansInv
<1> QED
  BY <1>2, <1>3, <1>4, <1>5, <1>6 DEF PlansInv

LEMMA BatchIds ==
  ASSUME NEW n \in 1..MaxBatch, NEW ids \in [1..n -> OpIds], NEW bases
  PROVE  \A o \in Members(EditBatch(ids, bases)) : o.id \in OpIds
<1>1. n \in Nat
  BY BatchAssumption
<1> DEFINE b == EditBatch(ids, bases)
<1>2. b = [k \in 1..n |-> Edit(ids[k], bases[k])]
  BY DEF EditBatch
<1>3. Len(b) = n
  BY <1>1, <1>2, LenProperties
<1>4. ASSUME NEW k \in 1..n PROVE b[k].id \in OpIds
  BY <1>2 DEF Edit
<1> QED
  BY <1>3, <1>4 DEF Members

\* A chunk of the plan p that starts after its n-th id, based on version v.
LEMMA ChunkProperties ==
  ASSUME NEW p \in Seq(Ids), NEW n \in Nat, NEW v \in Nat, n <= Len(p)
  PROVE  /\ Len(Chunk(p, n, v)) \in Nat /\ n + Len(Chunk(p, n, v)) <= Len(p)
         /\ \A k \in 1..Len(Chunk(p, n, v)) :
              /\ Chunk(p, n, v)[k].id = p[n + k]
              /\ Chunk(p, n, v)[k].base = v + k - 1
<1> DEFINE m == IF Len(p) - n < MaxBatch THEN Len(p) - n ELSE MaxBatch
           c == Chunk(p, n, v)
<1>1. m \in Nat /\ n + m <= Len(p)
  BY BatchAssumption, LenProperties
<1>2. c = [k \in 1..m |-> Edit(p[n + k], v + k - 1)]
  BY DEF Chunk
<1> HIDE DEF m
<1>3. Len(c) = m
  BY <1>1, <1>2, LenProperties
<1>4. ASSUME NEW k \in 1..m PROVE c[k].id = p[n + k] /\ c[k].base = v + k - 1
  BY <1>2 DEF Edit
<1> QED
  BY <1>1, <1>3, <1>4

LEMMA ImportRequest ==
  ASSUME LedgerInv, LedgerInv', RequestsInv, ImportsInv, NEW w \in Workers,
         NEW n \in 1..MaxImport, NEW p \in ImportPlans(n), Import(w, p),
         \A v \in Workers \ {w} : Same(v)
  PROVE  PlansInv' /\ ImportInv(w)'
<1> DEFINE first == Chunk(p, 0, version)
<1>1. p \in [1..n -> ImportIds \ (Persisted \cup Drawn)] /\ n \in Nat /\ n > 0
  BY ImportAssumption DEF ImportPlans
<1>2. p \in Seq(Ids) /\ Len(p) = n /\ p # <<>>
  <2>1. p \in [1..n -> Ids]
    BY <1>1 DEF Ids
  <2>2. p \in Seq(Ids) /\ Len(p) = n
    BY <1>1, <2>1, SeqDef, LenProperties
  <2> QED
    BY <1>1, <2>2, EmptySeq
<1>3. /\ plan'[w] = p /\ batch'[w] = first /\ sent'[w] = Len(first) /\ inst'[w] = version
      /\ pc'[w] = "queued" /\ ops' = ops /\ result'[w] = result[w] /\ pc[w] = "idle"
  BY DEF Import, Receive, LedgerInv, TypeInv, TypeOK, dbVars
<1>4. version \in Nat
  BY DEF LedgerInv, TypeInv, TypeOK
<1>5. /\ Len(first) \in Nat
      /\ \A k \in 1..Len(first) : first[k].id = p[0 + k] /\ first[k].base = version + k - 1
  BY <1>2, <1>4, ChunkProperties, 0 \in Nat, 0 <= Len(p)
<1>6. PlansInv'
  BY <1>2, <1>3, PlansDrawn DEF ImportsInv
<1>7. result'[w].status = "none"
  BY <1>3 DEF RequestsInv, OneRequestInv, AnswerInv, NoAnswer, Answer
<1> HIDE DEF first
<1>8. Before(w)' = 0 /\ StoredCount(w)' = 0
  BY <1>3, <1>5, <1>7 DEF Before, StoredCount
<1>9. ChunkInv(w)'
  BY <1>3, <1>4, <1>5, <1>7, <1>8 DEF ChunkInv
<1>10. StoredInv(w)'
  BY <1>1, <1>2, <1>3, <1>8 DEF StoredInv, Persisted
<1>11. LoopInv(w)'
  BY <1>3 DEF LoopInv
<1> QED
  BY <1>6, <1>9, <1>10, <1>11 DEF ImportInv

\* Other requests have none of an import's ids.
LEMMA PlainRequest ==
  ASSUME LedgerInv, ImportsInv, NEW w \in Workers, Request(w),
         \A v \in Workers \ {w} : Same(v),
         ~\E n \in 1..MaxImport : \E p \in ImportPlans(n) : Import(w, p)
  PROVE  PlansInv' /\ ImportInv(w)'
<1>1. plan'[w] = <<>> /\ IdsIn(batch'[w]) \cap ImportIds = {}
  <2>1. ASSUME NEW n \in 1..MaxBatch, NEW ids \in [1..n -> OpIds], NEW bases \in Bases(n),
               Submit(w, EditBatch(ids, bases))
        PROVE  plan'[w] = <<>> /\ IdsIn(batch'[w]) \cap ImportIds = {}
    <3>1. plan'[w] = <<>> /\ batch'[w] = EditBatch(ids, bases)
      BY <2>1 DEF Submit, Receive, LedgerInv, TypeInv, TypeOK
    <3>2. \A o \in Members(EditBatch(ids, bases)) : o.id \in OpIds
      BY BatchIds
    <3> QED
      BY <3>1, <3>2, IdsAssumption DEF IdsIn
  <2>2. ASSUME NEW id \in RestoreIds, NEW base \in 0..version, NEW target \in 0..(version + 1),
               Restore(w, id, base, target)
        PROVE  plan'[w] = <<>> /\ IdsIn(batch'[w]) \cap ImportIds = {}
    <3>1. PICK o : batch'[w] = <<o>> /\ o.id = id /\ plan'[w] = <<>>
      BY <2>2 DEF Restore, Receive, LedgerInv, TypeInv, TypeOK
    <3> QED
      BY <3>1, MembersOne, IdsAssumption DEF IdsIn
  <2> QED
    BY <2>1, <2>2 DEF Request
<1>2. PlansInv'
  BY <1>1, PlansReplaced DEF ImportsInv
<1> QED
  BY <1>1, <1>2 DEF ImportInv

LEMMA BuildSnapshotImports ==
  ASSUME LedgerInv, RequestsInv, ImportsInv, NEW w \in Workers, BuildSnapshot(w),
         \A v \in Workers \ {w} : Same(v)
  PROVE  PlansInv' /\ ImportInv(w)'
<1>1. pc[w] = "snapshot" /\ plan' = plan
  BY DEF BuildSnapshot
<1>2. plan[w] = <<>>
  BY <1>1 DEF ImportsInv, ImportInv, ChunkInv
<1>3. batch[w] \in Seq(Op) /\ batch[w] # <<>>
  BY <1>1 DEF LedgerInv, TypeInv, TypeOK, RequestInv
<1>4. batch[w][1] \in Op /\ batch[w][1].id \in IdsIn(batch[w])
  <2>1. 1 \in 1..Len(batch[w])
    BY <1>3, EmptySeq
  <2> QED
    BY <1>3, <2>1, ElementOfSeq DEF IdsIn, Members
<1>5. \/ batch'[w] = batch[w]
      \/ batch'[w] = <<WithSnapshot(batch[w][1])>>
  BY DEF BuildSnapshot, LedgerInv, TypeInv, TypeOK
<1>6. WithSnapshot(batch[w][1]).id = batch[w][1].id
  BY <1>4 DEF WithSnapshot, Op
<1>7. IdsIn(batch'[w]) \subseteq IdsIn(batch[w])
  BY <1>4, <1>5, <1>6, MembersOne DEF IdsIn
<1>8. PlansInv'
  BY <1>1, <1>2, <1>7, PlansReplaced DEF ImportsInv, PlansInv
<1> QED
  BY <1>1, <1>2, <1>8 DEF ImportInv

LEMMA ForgetImports ==
  ASSUME LedgerInv, ImportsInv, NEW w \in Workers, Forget(w),
         \A v \in Workers \ {w} : Same(v)
  PROVE  PlansInv' /\ ImportInv(w)'
<1>1. plan'[w] = <<>> /\ batch'[w] = <<>>
  BY DEF Forget, LedgerInv, TypeInv, TypeOK
<1>2. IdsIn(batch'[w]) = {}
  BY <1>1, MembersEmpty DEF IdsIn
<1> QED
  BY <1>1, <1>2, PlansReplaced DEF ImportsInv, ImportInv

LEMMA LockRowImports ==
  ASSUME LedgerInv, RequestsInv, ImportsInv, NEW w \in Workers, LockRow(w)
  PROVE  PlansInv' /\ ImportInv(w)'
<1>1. /\ pc[w] = "queued" /\ pc'[w] = "loop" /\ todo'[w] = batch[w]
      /\ seen'[w] = {} /\ rows'[w] = {}
      /\ UNCHANGED <<ops, inst, batch, plan, sent, result>>
  BY DEF LockRow, LedgerInv, TypeInv, TypeOK, dbVars, reqVars
<1>2. PlansInv'
  BY <1>1, PlansKept DEF ImportsInv
<1>3. ASSUME plan[w] # <<>> PROVE ChunkInv(w)' /\ StoredInv(w)' /\ LoopInv(w)'
  <2>1. /\ Before(w)' = Before(w) /\ StoredCount(w)' = StoredCount(w)
        /\ Persisted' = Persisted
    BY <1>1 DEF Before, StoredCount, Persisted
  <2>2. ChunkInv(w) /\ StoredInv(w) /\ Len(batch[w]) \in Nat
    BY <1>3, ImportFacts
  <2>3. Met(w)' = 0
    BY <1>1, <2>2 DEF Met
  <2>4. ChunkInv(w)'
    BY <1>1, <2>1, <2>2 DEF ChunkInv
  <2>5. StoredInv(w)'
    BY <1>1, <2>1, <2>2 DEF StoredInv
  <2>6. LoopInv(w)'
    BY <1>1, <2>2, <2>3 DEF LoopInv
  <2> QED
    BY <2>4, <2>5, <2>6
<1> QED
  BY <1>1, <1>2, <1>3 DEF ImportInv

LEMMA RefusedImports ==
  ASSUME LedgerInv, RequestsInv, ImportsInv, NEW w \in Workers,
         RefuseArchived(w) \/ RefuseStale(w)
  PROVE  PlansInv' /\ ImportInv(w)'
<1>1. /\ pc[w] # "answer" /\ pc'[w] = "answer"
      /\ result'[w].status # "ok"
      /\ UNCHANGED <<ops, inst, batch, plan, sent>>
  BY DEF RefuseArchived, RefuseStale, InLoop, Answer, LedgerInv, TypeInv, TypeOK, dbVars, reqVars
<1>2. PlansInv'
  BY <1>1, PlansKept DEF ImportsInv
<1>3. ASSUME plan[w] # <<>> PROVE ChunkInv(w)' /\ StoredInv(w)' /\ LoopInv(w)'
  <2>1. ChunkInv(w) /\ StoredInv(w) /\ StoredCount(w) = Before(w)
    BY <1>1, <1>3, ImportFacts
  <2>2. /\ Before(w)' = Before(w) /\ StoredCount(w)' = StoredCount(w)
        /\ Persisted' = Persisted
    BY <1>1, <2>1 DEF Before, StoredCount, Persisted
  <2>3. ChunkInv(w)'
    BY <1>1, <2>1, <2>2 DEF ChunkInv
  <2>4. StoredInv(w)'
    BY <1>1, <2>1, <2>2 DEF StoredInv
  <2> QED
    BY <1>1, <2>3, <2>4 DEF LoopInv
<1> QED
  BY <1>1, <1>2, <1>3 DEF ImportInv

\* The loop of an import meets an operation it has neither met nor stored.
LEMMA NextOfImport ==
  ASSUME LedgerInv, RequestsInv, ImportsInv, NEW w \in Workers, plan[w] # <<>>, InLoop(w)
  PROVE  /\ Met(w) \in Nat /\ Met(w) + 1 <= Len(batch[w])
         /\ Len(Tail(todo[w])) + Met(w) + 1 = Len(batch[w])
         /\ \A j \in 1..Len(Tail(todo[w])) : Tail(todo[w])[j] = batch[w][Met(w) + 1 + j]
         /\ Before(w) + Met(w) + 1 \in 1..Len(plan[w])
         /\ Head(todo[w]).id = plan[w][Before(w) + Met(w) + 1]
         /\ Head(todo[w]).base = inst[w] + Before(w) + Met(w)
         /\ Head(todo[w]).id \notin seen[w] \cup Persisted
<1>1. /\ pc[w] = "loop" /\ todo[w] # <<>> /\ todo[w] \in Seq(Op)
  BY DEF InLoop, LedgerInv, TypeInv, TypeOK
<1>2. /\ Len(todo[w]) \in Nat \ {0} /\ Len(Tail(todo[w])) = Len(todo[w]) - 1
      /\ Head(todo[w]) = todo[w][1]
  BY <1>1, EmptySeq, LenProperties, HeadTailProperties
<1>3. \A j \in 1..Len(todo[w]) - 1 : Tail(todo[w])[j] = todo[w][j + 1]
  BY <1>1, HeadTailProperties
<1>4. /\ Len(plan[w]) \in Nat /\ Len(batch[w]) \in Nat /\ Before(w) \in Nat
      /\ inst[w] \in Nat /\ sent[w] \in Nat
      /\ Before(w) + Len(batch[w]) = sent[w] /\ sent[w] <= Len(plan[w])
  BY ImportFacts
<1>5. /\ StoredCount(w) = Before(w)
      /\ ChunkInv(w) /\ StoredInv(w) /\ LoopInv(w)
      /\ \A j, k \in 1..Len(plan[w]) : plan[w][j] = plan[w][k] => j = k
  BY <1>1, ImportFacts
<1>6. Met(w) >= 0 /\ \A j \in 1..Len(todo[w]) : todo[w][j] = batch[w][Met(w) + j]
  BY <1>1, <1>5 DEF LoopInv
<1>7. Met(w) \in Nat /\ Met(w) + Len(todo[w]) = Len(batch[w])
  BY <1>2, <1>4, <1>6 DEF Met
<1> DEFINE d == Met(w) + 1
<1>8. d \in 1..Len(batch[w])
  BY <1>2, <1>4, <1>7
<1>9. Head(todo[w]) = batch[w][d]
  <2>1. 1 \in 1..Len(todo[w])
    BY <1>2
  <2> QED
    BY <1>2, <1>6, <2>1
<1>10. Head(todo[w]).id = plan[w][Before(w) + d]
  BY <1>5, <1>8, <1>9 DEF ChunkInv
<1>11. Head(todo[w]).base = inst[w] + Before(w) + d - 1
  BY <1>5, <1>8, <1>9 DEF ChunkInv
<1>12. Before(w) + d \in 1..Len(plan[w]) /\ Before(w) + d > Before(w)
  BY <1>4, <1>8
<1>13. Head(todo[w]).id \notin Persisted
  BY <1>5, <1>10, <1>12 DEF StoredInv
<1>14. Head(todo[w]).id \notin seen[w]
  <2> SUFFICES ASSUME Head(todo[w]).id \in seen[w] PROVE FALSE
    OBVIOUS
  <2>1. PICK k \in 1..Met(w) : Head(todo[w]).id = plan[w][Before(w) + k]
    BY <1>1, <1>5 DEF LoopInv
  <2>2. k \in Nat /\ k >= 1 /\ k < d
    BY <1>7
  <2>3. Before(w) + k \in 1..Len(plan[w])
    BY <1>4, <1>8, <2>2, SMTT(30)
  <2>4. Before(w) + k # Before(w) + d
    BY <1>4, <1>7, <2>2
  <2> QED
    BY <1>5, <1>10, <1>12, <2>1, <2>3, <2>4
<1>15. ASSUME NEW j \in 1..Len(Tail(todo[w]))
       PROVE  Tail(todo[w])[j] = batch[w][Met(w) + 1 + j]
  <2>1. j + 1 \in 1..Len(todo[w]) /\ j \in 1..Len(todo[w]) - 1
    BY <1>2
  <2>2. Met(w) + (j + 1) = Met(w) + 1 + j
    BY <1>7, <2>1
  <2> QED
    BY <1>3, <1>6, <2>1, <2>2
<1>16. /\ Before(w) + d = Before(w) + Met(w) + 1
       /\ inst[w] + Before(w) + d - 1 = inst[w] + Before(w) + Met(w)
       /\ Len(Tail(todo[w])) + Met(w) + 1 = Len(batch[w])
       /\ Met(w) + 1 <= Len(batch[w])
  <2>1. Before(w) + d = Before(w) + Met(w) + 1
    BY <1>4, <1>7
  <2>2. inst[w] + Before(w) + d - 1 = inst[w] + Before(w) + Met(w)
    BY <1>4, <1>7
  <2>3. Len(Tail(todo[w])) + Met(w) + 1 = Len(batch[w])
    BY <1>2, <1>4, <1>7
  <2> QED
    BY <1>8, <1>4, <1>7, <2>1, <2>2, <2>3
<1> HIDE DEF d
<1> QED
  BY <1>7, <1>10, <1>11, <1>12, <1>13, <1>14, <1>15, <1>16

LEMMA SkippedImports ==
  ASSUME LedgerInv, RequestsInv, ImportsInv, NEW w \in Workers,
         SkipRepeat(w) \/ AckExisting(w)
  PROVE  PlansInv' /\ ImportInv(w)'
<1>1. plan' = plan /\ batch' = batch /\ InLoop(w)
  BY DEF SkipRepeat, AckExisting, reqVars
<1>2. Head(todo[w]).id \in seen[w] \cup Persisted
  BY DEF SkipRepeat, AckExisting
<1>3. plan[w] = <<>>
  BY <1>1, <1>2, NextOfImport
<1>4. PlansInv'
  BY <1>1, PlansKept DEF ImportsInv
<1> QED
  BY <1>1, <1>3, <1>4 DEF ImportInv

LEMMA CreateRowImports ==
  ASSUME LedgerInv, RequestsInv, ImportsInv, NEW w \in Workers, CreateRow(w)
  PROVE  PlansInv' /\ ImportInv(w)'
<1> DEFINE op == Head(todo[w])
           row == [seq |-> expected[w] + 1, op |-> op]
           ack == [id |-> op.id, seq |-> expected[w] + 1, dup |-> FALSE]
<1>1. /\ InLoop(w) /\ pc[w] = "loop" /\ op.base = expected[w]
      /\ todo'[w] = Tail(todo[w]) /\ seen'[w] = seen[w] \cup {op.id}
      /\ rows'[w] = rows[w] \cup {row}
      /\ acks'[w] = Append(acks[w], ack)
      /\ UNCHANGED <<ops, version, pc, inst, batch, plan, sent, result>>
  BY DEF CreateRow, InLoop, UpToDate, LedgerInv, TypeInv, TypeOK, dbVars, reqVars
<1>2. PlansInv'
  BY <1>1, PlansKept DEF ImportsInv
<1>3. ASSUME plan[w] # <<>> PROVE ChunkInv(w)' /\ StoredInv(w)' /\ LoopInv(w)'
  <2> DEFINE d == Met(w) + 1
  <2>1. ChunkInv(w) /\ StoredInv(w) /\ LoopInv(w)
    BY <1>3, ImportFacts
  <2>2. /\ Len(batch[w]) \in Nat /\ Before(w) \in Nat /\ inst[w] \in Nat
    BY <1>3, ImportFacts
  <2>3. /\ Met(w) \in Nat /\ Len(Tail(todo[w])) + Met(w) + 1 = Len(batch[w])
        /\ op.base = inst[w] + Before(w) + Met(w)
    BY <1>1, <1>3, NextOfImport
  <2>4. op.id = plan[w][Before(w) + Met(w) + 1]
    BY <1>1, <1>3, NextOfImport
  <2>5. \A j \in 1..Len(Tail(todo[w])) : Tail(todo[w])[j] = batch[w][Met(w) + 1 + j]
    BY <1>1, <1>3, NextOfImport
  <2>6. Before(w)' = Before(w) /\ StoredCount(w)' = StoredCount(w) /\ Persisted' = Persisted
    BY <1>1 DEF Before, StoredCount, Persisted
  <2>7. ChunkInv(w)'
    BY <1>1, <2>1, <2>6 DEF ChunkInv
  <2>8. StoredInv(w)'
    BY <1>1, <2>1, <2>6 DEF StoredInv
  <2>9. Met(w)' = d /\ d \in Nat /\ d > 0
    <3>1. Len(Tail(todo[w])) \in Nat
      BY <1>1, HeadOfTodo, LenProperties DEF LedgerInv, TypeInv
    <3>2. Met(w)' = Len(batch[w]) - Len(Tail(todo[w]))
      BY <1>1 DEF Met
    <3>3. Len(Tail(todo[w])) + Met(w) + 1 = Len(batch[w]) /\ Met(w) \in Nat
      BY <2>3
    <3>4. \A a, m, b \in Nat : a + m + 1 = b => b - a = m + 1 /\ m + 1 \in Nat /\ m + 1 > 0
      OBVIOUS
    <3> QED
      BY <2>2, <3>1, <3>2, <3>3, <3>4
  <2>10. row.op.id = plan[w][Before(w) + d] /\ row.seq = inst[w] + Before(w) + d
    <3>1. row.seq = expected[w] + 1 /\ row.op = op
      OBVIOUS
    <3>2. expected[w] + 1 = inst[w] + Before(w) + d
      <4>1. expected[w] = inst[w] + Before(w) + Met(w) /\ Met(w) \in Nat
        BY <1>1, <2>3
      <4>2. \A e, i, b, m \in Nat : e = i + b + m => e + 1 = i + b + (m + 1)
        OBVIOUS
      <4>3. expected[w] \in Nat
        BY DEF LedgerInv, TypeInv, TypeOK
      <4> QED
        BY <2>2, <4>1, <4>2, <4>3
    <3>3. Before(w) + d = Before(w) + Met(w) + 1
      BY <2>2, <2>3
    <3> QED
      BY <2>4, <3>1, <3>2, <3>3
  <2>11. ResultVersion(w)' = row.seq
    <3>1. ack \in Ack /\ acks[w] \in Seq(Ack)
      <4>1. op \in Op /\ expected[w] \in Nat
        BY <1>1, HeadOfTodo DEF LedgerInv, TypeInv, TypeOK
      <4>2. op.id \in Ids /\ expected[w] + 1 \in Nat
        BY <4>1 DEF Op
      <4> HIDE DEF op
      <4> QED
        BY <4>2 DEF Ack, LedgerInv, TypeInv, TypeOK
    <3>2. ack.seq = row.seq
      OBVIOUS
    <3> HIDE DEF ack, row
    <3>3. acks'[w][Len(acks'[w])] = ack
      BY <1>1, <3>1, AppendProperties, LenProperties
    <3> QED
      BY <3>2, <3>3 DEF ResultVersion
  <2> HIDE DEF row, op
  <2>12. d \in 1..d /\ \A k \in 1..d : k = d \/ k \in 1..Met(w)
    BY <2>3, <2>9
  <2>13. Met(w) + 1 = d
    OBVIOUS
  <2> HIDE DEF d
  <2>14. ASSUME NEW k \in 1..d
         PROVE  \E r \in rows'[w] : r.op.id = plan[w][Before(w) + k] /\ r.seq = inst[w] + Before(w) + k
    BY <1>1, <2>1, <2>10, <2>12 DEF LoopInv
  <2>15. \A k \in 1..Met(w) : k \in 1..d
    BY <2>3, <2>9, <2>13
  <2>16. ASSUME NEW r \in rows'[w] PROVE \E k \in 1..d : r.op.id = plan[w][Before(w) + k]
    BY <1>1, <2>1, <2>10, <2>12, <2>15 DEF LoopInv
  <2>17. ASSUME NEW id \in seen'[w] PROVE \E k \in 1..d : id = plan[w][Before(w) + k]
    <3>1. Before(w) + Met(w) + 1 = Before(w) + d
      BY <2>2, <2>3, <2>13
    <3> QED
      BY <1>1, <2>1, <2>4, <3>1, <2>12, <2>15 DEF LoopInv
  <2>18. \A j \in 1..Len(todo'[w]) : todo'[w][j] = batch'[w][d + j]
    BY <1>1, <2>5, <2>13
  <2>19. LoopInv(w)'
    BY <1>1, <2>6, <2>9, <2>10, <2>11, <2>14, <2>16, <2>17, <2>18 DEF LoopInv
  <2> QED
    BY <2>7, <2>8, <2>19
<1> QED
  BY <1>1, <1>2, <1>3 DEF ImportInv

\* A chunk walked through to its end: its rows are committed in the place of
\* its operations, and the last of them is the version of the answer.
LEMMA CommittedImports ==
  ASSUME LedgerInv, RequestsInv, ImportsInv, NEW w \in Workers, plan[w] # <<>>,
         CommitTx(w)
  PROVE  /\ Len(batch[w]) > 0 => ResultVersion(w) = inst[w] + sent[w]
         /\ \A k \in 1..Len(plan[w]) :
              /\ k <= sent[w] => \E r \in ops' : r.op.id = plan[w][k] /\ r.seq = inst[w] + k
              /\ k > sent[w] => plan[w][k] \notin Persisted'
<1>1. pc[w] = "loop" /\ todo[w] = <<>> /\ ops' = ops \cup rows[w]
  BY DEF CommitTx
<1>2. /\ Len(plan[w]) \in Nat /\ Len(batch[w]) \in Nat /\ Before(w) \in Nat
      /\ inst[w] \in Nat /\ sent[w] \in Nat
      /\ Before(w) + Len(batch[w]) = sent[w] /\ sent[w] <= Len(plan[w])
  BY ImportFacts
<1>3. /\ StoredCount(w) = Before(w) /\ StoredInv(w) /\ LoopInv(w)
      /\ \A j, k \in 1..Len(plan[w]) : plan[w][j] = plan[w][k] => j = k
  BY <1>1, ImportFacts
<1>4. Met(w) = Len(batch[w])
  <2>1. Len(todo[w]) = 0
    BY <1>1, EmptySeq
  <2> QED
    BY <1>2, <2>1 DEF Met
<1>5. Len(batch[w]) > 0 => ResultVersion(w) = inst[w] + sent[w]
  <2>1. inst[w] + Before(w) + Len(batch[w]) = inst[w] + sent[w]
    BY <1>2
  <2> QED
    BY <1>1, <1>3, <1>4, <2>1 DEF LoopInv
<1>6. ASSUME NEW k \in 1..Len(plan[w]), k <= sent[w]
      PROVE  \E r \in ops' : r.op.id = plan[w][k] /\ r.seq = inst[w] + k
  <2>1. CASE k <= Before(w)
    BY <1>1, <1>3, <2>1 DEF StoredInv
  <2>2. CASE k > Before(w)
    <3>1. PICK j \in 1..Met(w) : k = Before(w) + j /\ inst[w] + Before(w) + j = inst[w] + k
      <4>1. k - Before(w) \in 1..Len(batch[w])
        BY <1>2, <1>6, <2>2
      <4>2. /\ k = Before(w) + (k - Before(w))
            /\ inst[w] + Before(w) + (k - Before(w)) = inst[w] + k
        BY <1>2
      <4> QED
        BY <1>4, <4>1, <4>2
    <3> QED
      BY <1>1, <1>3, <3>1 DEF LoopInv
  <2> QED
    BY <1>2, <2>1, <2>2
<1>7. ASSUME NEW k \in 1..Len(plan[w]), k > sent[w]
      PROVE  plan[w][k] \notin Persisted'
  <2>1. plan[w][k] \notin Persisted
    <3>1. k > Before(w)
      BY <1>2, <1>7
    <3> QED
      BY <1>3, <3>1 DEF StoredInv
  <2>2. ASSUME NEW r \in rows[w] PROVE r.op.id # plan[w][k]
    <3>1. PICK j \in 1..Met(w) : r.op.id = plan[w][Before(w) + j]
      BY <1>1, <1>3 DEF LoopInv
    <3>2. Before(w) + j \in 1..Len(plan[w]) /\ Before(w) + j # k
      BY <1>2, <1>4, <1>7
    <3> QED
      BY <1>3, <3>1, <3>2
  <2> QED
    BY <1>1, <2>1, <2>2 DEF Persisted
<1> QED
  BY <1>5, <1>6, <1>7

LEMMA CommitImports ==
  ASSUME LedgerInv, RequestsInv, ImportsInv, NEW w \in Workers, Commit(w)
  PROVE  PlansInv' /\ ImportInv(w)'
<1>1. /\ CommitTx(w) /\ pc'[w] = "answer" /\ sent[w] = Len(plan[w])
      /\ result'[w].status = "ok"
      /\ UNCHANGED <<inst, batch, plan, sent>>
  BY DEF Commit, Answer, LedgerInv, TypeInv, TypeOK, reqVars
<1>2. PlansInv'
  BY <1>1, PlansKept DEF ImportsInv
<1>3. ASSUME plan[w] # <<>> PROVE ChunkInv(w)' /\ StoredInv(w)' /\ LoopInv(w)'
  <2>1. Before(w)' = Before(w) /\ StoredCount(w)' = sent[w] /\ ChunkInv(w)
    BY <1>1, <1>3, ImportFacts DEF Before, StoredCount
  <2>2. ChunkInv(w)'
    BY <1>1, <2>1 DEF ChunkInv
  <2>3. StoredInv(w)'
    BY <1>1, <1>3, <2>1, CommittedImports DEF StoredInv
  <2> QED
    BY <1>1, <2>2, <2>3 DEF LoopInv
<1> QED
  BY <1>1, <1>2, <1>3 DEF ImportInv

LEMMA CommitChunkImports ==
  ASSUME LedgerInv, RequestsInv, ImportsInv, NEW w \in Workers, CommitChunk(w)
  PROVE  PlansInv' /\ ImportInv(w)'
<1> DEFINE chunk == Chunk(plan[w], sent[w], ResultVersion(w))
<1>1. /\ CommitTx(w) /\ pc[w] = "loop" /\ pc'[w] = "queued" /\ todo[w] = <<>>
      /\ sent[w] < Len(plan[w])
      /\ batch'[w] = chunk /\ sent'[w] = sent[w] + Len(chunk)
      /\ \A v \in Workers \ {w} : batch'[v] = batch[v]
      /\ UNCHANGED <<inst, plan, result>>
  BY DEF CommitChunk, CommitTx, LedgerInv, TypeInv, TypeOK
<1>2. plan[w] \in Seq(Ids) /\ sent[w] \in Nat /\ batch[w] \in Seq(Op) /\ batch[w] # <<>>
  BY <1>1 DEF LedgerInv, TypeInv, TypeOK, RequestInv
<1>3. plan[w] # <<>>
  BY <1>1, <1>2, EmptySeq
<1>4. PlansInv'
  BY <1>1, <1>3, PlansKept DEF ImportsInv
<1>5. /\ Len(plan[w]) \in Nat /\ inst[w] \in Nat
      /\ result[w].status = "none"
  BY <1>1, <1>3, ImportFacts
<1>6. ResultVersion(w) = inst[w] + sent[w]
  <2>1. Len(batch[w]) > 0
    BY <1>2, EmptySeq, LenProperties
  <2> QED
    BY <1>1, <1>3, <2>1, CommittedImports
<1>7. /\ Len(chunk) \in Nat
      /\ \A k \in 1..Len(chunk) :
           chunk[k].id = plan[w][sent[w] + k] /\ chunk[k].base = ResultVersion(w) + k - 1
  <2>1. ResultVersion(w) \in Nat /\ sent[w] <= Len(plan[w])
    BY <1>1, <1>2, <1>5, <1>6
  <2> QED
    BY <1>2, <2>1, ChunkProperties
<1> HIDE DEF chunk
<1>8. Before(w)' = sent[w] /\ StoredCount(w)' = sent[w]
  BY <1>1, <1>2, <1>5, <1>7 DEF Before, StoredCount
<1>9. ChunkInv(w)'
  BY <1>1, <1>2, <1>5, <1>6, <1>7, <1>8 DEF ChunkInv
<1>10. StoredInv(w)'
  BY <1>1, <1>3, <1>8, CommittedImports DEF StoredInv
<1>11. LoopInv(w)'
  BY <1>1 DEF LoopInv
<1> QED
  BY <1>4, <1>9, <1>10, <1>11 DEF ImportInv

LEMMA ImportsInit == Init => ImportsInv
<1> SUFFICES ASSUME Init PROVE ImportsInv
  OBVIOUS
<1>1. ASSUME NEW w \in Workers
      PROVE  plan[w] = <<>> /\ IdsIn(batch[w]) = {} /\ PlanIds(w) = {}
  BY MembersEmpty DEF Init, IdsIn, PlanIds
<1>2. ASSUME NEW w \in Workers, NEW j \in 1..Len(plan[w]) PROVE FALSE
  BY <1>1, <1>2
<1> QED
  BY <1>1, <1>2 DEF ImportsInv, PlansInv, ImportInv

LEMMA ImportsStep ==
  LedgerInv /\ LedgerInv' /\ RequestsInv /\ ImportsInv /\ [Next]_vars => ImportsInv'
<1> SUFFICES ASSUME LedgerInv, LedgerInv', RequestsInv, ImportsInv, [Next]_vars
             PROVE  ImportsInv'
  OBVIOUS
<1>0. TypeOK
  BY DEF LedgerInv, TypeInv
<1>1. ASSUME NEW w \in Workers, Step(w), \A v \in Workers \ {w} : Same(v)
      PROVE  PlansInv' /\ ImportInv(w)'
  <2>1. CASE Request(w)
    BY <1>1, <2>1, ImportRequest, PlainRequest
  <2>2. CASE BuildSnapshot(w)
    BY <1>1, <2>2, BuildSnapshotImports
  <2>3. CASE LockRow(w)
    BY <2>3, LockRowImports
  <2>4. CASE RefuseArchived(w) \/ RefuseStale(w)
    BY <2>4, RefusedImports
  <2>5. CASE SkipRepeat(w) \/ AckExisting(w)
    BY <2>5, SkippedImports
  <2>6. CASE CreateRow(w)
    BY <2>6, CreateRowImports
  <2>7. CASE Commit(w)
    BY <2>7, CommitImports
  <2>8. CASE CommitChunk(w)
    BY <2>8, CommitChunkImports
  <2>9. CASE Respond(w) \/ Crash(w)
    BY <1>1, <2>9, ForgetImports DEF Respond, Crash
  <2> QED
    BY <1>1, <2>1, <2>2, <2>3, <2>4, <2>5, <2>6, <2>7, <2>8, <2>9
    DEF Step, Serve, Transaction
<1>2. CASE \A w \in Workers : Same(w)
  <2>1. PlansInv'
    BY <1>2, PlansKept DEF Same, ImportsInv
  <2> QED
    BY <1>2, <2>1, OthersImport DEF ImportsInv
<1>3. CASE \E w \in Workers : Step(w)
  <2>1. PICK w \in Workers : Step(w)
    BY <1>3
  <2>2. \A v \in Workers \ {w} : Same(v)
    BY <1>0, <2>1, OthersSame
  <2>3. PlansInv' /\ ImportInv(w)'
    BY <1>1, <2>1, <2>2
  <2> QED
    BY <2>2, <2>3, OthersImport DEF ImportsInv
<1> QED
  BY <1>2, <1>3, Steps

\* An import stores an unbroken run of its operations from the version it read
\* on, and all of them if it reports success, although it takes a transaction
\* for each chunk and others commit between two of them.
THEOREM ImportsAreContiguous == Spec => []ImportContiguous
<1>1. ASSUME LedgerInv, RequestsInv, ImportsInv, NEW w \in Workers, plan[w] # <<>>
      PROVE  LET stored == {k \in 1..Len(plan[w]) : plan[w][k] \in Persisted}
             IN  /\ \A k \in stored : StoredSequence(plan[w][k]) = inst[w] + k
                 /\ \A k \in stored : 1..k \subseteq stored
                 /\ result[w].status = "ok" => stored = 1..Len(plan[w])
  <2> DEFINE stored == {k \in 1..Len(plan[w]) : plan[w][k] \in Persisted}
  <2>1. StoredInv(w) /\ ChunkInv(w) /\ Len(plan[w]) \in Nat /\ StoredCount(w) \in Nat
    BY <1>1, ImportFacts DEF StoredCount
  <2>2. ASSUME NEW k \in 1..Len(plan[w]), k <= StoredCount(w)
        PROVE  k \in stored /\ StoredSequence(plan[w][k]) = inst[w] + k
    <3>1. PICK r \in ops : r.op.id = plan[w][k] /\ r.seq = inst[w] + k
      BY <2>1, <2>2 DEF StoredInv
    <3>2. \A q \in ops : q.op.id = plan[w][k] => q = r
      BY <1>1, <3>1 DEF LedgerInv, OpsInv, OneRowPerId
    <3> QED
      BY <3>1, <3>2 DEF StoredSequence, Persisted
  <2>3. ASSUME NEW k \in stored PROVE k <= StoredCount(w)
    BY <2>1 DEF StoredInv
  <2>4. \A k \in stored : StoredSequence(plan[w][k]) = inst[w] + k
    BY <2>2, <2>3
  <2>5. ASSUME NEW k \in stored, NEW j \in 1..k PROVE j \in stored
    <3>1. j \in 1..Len(plan[w]) /\ j <= StoredCount(w)
      BY <2>1, <2>3
    <3> QED
      BY <2>2, <3>1
  <2>6. ASSUME result[w].status = "ok" PROVE stored = 1..Len(plan[w])
    <3>1. StoredCount(w) = Len(plan[w])
      BY <2>1, <2>6 DEF StoredCount, ChunkInv
    <3>2. \A k \in 1..Len(plan[w]) : k <= StoredCount(w)
      BY <2>1, <3>1
    <3> QED
      BY <2>2, <3>2
  <2> QED
    BY <2>4, <2>5, <2>6
<1>2. LedgerInv /\ RequestsInv /\ ImportsInv => ImportContiguous
  BY <1>1 DEF ImportContiguous
<1> QED
  BY <1>2, ImportsInit, ImportsStep, LedgerInvariant, RequestsInvariant, PTL DEF Spec

-----------------------------------------------------------------------------
(* The history panel.  Its steps leave the ledger alone, and of the steps   *)
(* of the ledger it matters only that the version never falls: what a page  *)
(* of the history was computed from stays.                                  *)

Load == [before : Nat, version : Nat \cup {Unread}]

PanelTypes ==
  /\ told \in Seq(Nat)
  /\ oldest \in Nat /\ oldest <= version
  /\ loads \in Seq(Load)
  /\ \A i \in 1..Len(loads) : loads[i].before <= version /\ loads[i].version <= version
  /\ \A k \in 1..Len(told) : 1 <= told[k] /\ told[k] <= version

Descends(s) == \A k \in 2..Len(s) : s[k] = s[k-1] - 1

\* The oldest sequence the panel knows is the last it tells, so that the page
\* asked for before it goes on where the panel ends.
AtEnd == told # <<>> /\ oldest = told[Len(told)]

\* The button and the load under way, if there is one, belong to what is told.
Continues ==
  /\ Descends(told)
  /\ Len(loads) <= 1
  /\ loads = <<>> /\ more => AtEnd
  /\ loads # <<>> =>
       \/ loads[1].before = 0 /\ told = <<>> /\ oldest = 0
       \/ AtEnd /\ loads[1].before = oldest

PanelInv == PanelTypes /\ (~overlapped => Continues)

LEMMA PageFacts ==
  ASSUME NEW load \in Load, load.before <= version, load.version <= version,
         version \in Nat, ~Awaited(load)
  PROVE  LET page == PageOf(load) IN
         /\ page \in Seq(Nat)
         /\ Len(page) \in 0..PageLimit
         /\ \A k \in 1..Len(page) : 1 <= page[k] /\ page[k] <= version
         /\ Descends(page)
         /\ load.before > 0 => \A k \in 1..Len(page) : page[k] = load.before - k
<1> DEFINE newest == IF Upper(load) <= version THEN Upper(load) ELSE version
           size == IF newest <= PageLimit THEN newest ELSE PageLimit
           page == PageOf(load)
<1>1. newest \in Nat /\ newest <= version /\ (load.before > 0 => newest = load.before - 1)
  BY DEF Load, Unread, Awaited, Upper
<1>2. size \in Nat /\ size <= newest /\ size <= PageLimit
  BY <1>1, PanelAssumption
<1>3. page = [k \in 1..size |-> newest + 1 - k]
  BY DEF PageOf
<1> HIDE DEF newest, size, page
<1>4. page \in Seq(Nat) /\ Len(page) = size
  BY <1>1, <1>2, <1>3
<1>5. \A k \in 1..size : page[k] = newest + 1 - k
  BY <1>3
<1>6. Len(page) \in 0..PageLimit
  BY <1>2, <1>4, PanelAssumption
<1>7. \A k \in 1..Len(page) : 1 <= page[k] /\ page[k] <= version
  BY <1>1, <1>2, <1>4, <1>5
<1>8. Descends(page)
  BY <1>1, <1>2, <1>4, <1>5 DEF Descends
<1>9. load.before > 0 => \A k \in 1..Len(page) : page[k] = load.before - k
  BY <1>1, <1>4, <1>5 DEF Load
<1> QED
  BY <1>4, <1>6, <1>7, <1>8, <1>9 DEF page

\* What the panel remembers as oldest is the least of what it has told by name.
LEMMA OldestFacts ==
  ASSUME NEW page \in Seq(Nat), version \in Nat, oldest \in Nat, oldest <= version,
         \A k \in 1..Len(page) : 1 <= page[k] /\ page[k] <= version
  PROVE  /\ OldestOf(page) \in Nat /\ OldestOf(page) <= version
         /\ \A s \in {page[k] : k \in Starts(page)} \cup ({oldest} \ {0}) :
              (\A u \in {page[k] : k \in Starts(page)} \cup ({oldest} \ {0}) : s <= u)
                => OldestOf(page) = s
<1> DEFINE known == {page[k] : k \in Starts(page)} \cup ({oldest} \ {0})
<1>1. Starts(page) \subseteq 1..Len(page)
  BY LenProperties DEF Starts
<1>2. known \in SUBSET Nat /\ \A s \in known : s <= version
  BY <1>1, ElementOfSeq
<1>3. OldestOf(page) = IF known = {} THEN 0 ELSE CHOOSE s \in known : \A u \in known : s <= u
  BY DEF OldestOf
<1> HIDE DEF known
<1>4. known # {} => \E s \in known : \A u \in known : s <= u
  BY <1>2, LeastOf
<1>5. ASSUME NEW s \in known, \A u \in known : s <= u PROVE OldestOf(page) = s
  <2>1. OldestOf(page) \in known /\ \A u \in known : OldestOf(page) <= u
    BY <1>3, <1>4
  <2>2. OldestOf(page) <= s /\ s <= OldestOf(page)
    BY <1>5, <2>1
  <2>3. s \in Nat /\ OldestOf(page) \in Nat
    BY <1>2, <2>1
  <2> QED
    BY <2>2, <2>3
<1>6. OldestOf(page) \in Nat /\ OldestOf(page) <= version
  <2>1. CASE known = {}
    BY <1>3, <2>1
  <2>2. CASE known # {}
    <3>1. OldestOf(page) \in known
      BY <1>3, <1>4, <2>2
    <3> QED
      BY <1>2, <3>1
  <2> QED
    BY <2>1, <2>2
<1> QED
  BY <1>5, <1>6 DEF known

\* A page of as many entries as operations told each by itself.
LEMMA FullPage ==
  ASSUME NEW page \in Seq(Nat), Len(page) <= PageLimit, Full(page)
  PROVE  Starts(page) = 1..Len(page) /\ page # <<>>
<1>1. /\ Len(page) \in Nat /\ PageLimit \in Nat \ {0}
      /\ Starts(page) \in SUBSET (1..Len(page))
  BY LenProperties, PanelAssumption DEF Starts
<1>2. IsFiniteSet(1..Len(page)) /\ Cardinality(1..Len(page)) = Len(page)
  <2>1. 1 \in Int /\ Len(page) \in Int
    BY <1>1
  <2>2. /\ IsFiniteSet(1..Len(page))
        /\ Cardinality(1..Len(page)) = IF 1 > Len(page) THEN 0 ELSE Len(page) - 1 + 1
    BY <2>1, FS_Interval
  <2> QED
    BY <1>1, <2>2
<1>3. /\ Cardinality(Starts(page)) <= Len(page)
      /\ Cardinality(Starts(page)) = Len(page) => Starts(page) = 1..Len(page)
  BY <1>1, <1>2, FS_Subset
<1>4. Len(page) = PageLimit /\ Starts(page) = 1..Len(page)
  BY <1>1, <1>3 DEF Full
<1> QED
  BY <1>1, <1>4, EmptySeq

LEMMA PanelInitial == HistoryInit => PanelInv
BY EmptySeq DEF HistoryInit, Init, PanelInit, PanelInv, PanelTypes, Continues, Descends

\* The ledger grows under an open panel.
LEMMA LedgerKeepsPanel ==
  ASSUME PanelInv, version \in Nat, version' \in Nat, version <= version', UNCHANGED panelVars
  PROVE  PanelInv'
<1>1. PanelTypes'
  <2>1. \A i \in 1..Len(loads) : loads[i] \in Load
    BY ElementOfSeq DEF PanelInv, PanelTypes
  <2>2. \A k \in 1..Len(told) : told[k] \in Nat
    BY ElementOfSeq DEF PanelInv, PanelTypes
  <2> QED
    BY <2>1, <2>2 DEF PanelInv, PanelTypes, panelVars, Load, Unread
<1> QED
  BY <1>1 DEF PanelInv, Continues, Descends, AtEnd, panelVars

\* One more load.
LEMMA LoadPageTypes ==
  ASSUME PanelTypes, version \in Nat, UNCHANGED version, NEW before \in Nat, before <= version,
         LoadPage(before)
  PROVE  /\ loads' \in Seq(Load) /\ Len(loads') = Len(loads) + 1 /\ Len(loads) \in Nat
         /\ \A i \in 1..Len(loads') : loads'[i].before <= version /\ loads'[i].version <= version
         /\ loads = <<>> => loads'[1].before = before
         /\ loads' # <<>>
<1> DEFINE load == [before |-> before, version |-> Unread]
<1>1. load \in Load /\ load.before = before /\ load.version <= version
  BY DEF Load, Unread
<1>2. loads \in Seq(Load) /\ loads' = Append(loads, load)
  BY DEF LoadPage, PanelTypes
<1> HIDE DEF load
<1>3. /\ loads' \in Seq(Load) /\ Len(loads') = Len(loads) + 1 /\ Len(loads) \in Nat
      /\ \A i \in 1..Len(loads) : loads'[i] = loads[i]
      /\ loads'[Len(loads) + 1] = load
      /\ loads' # <<>>
  BY <1>1, <1>2, AppendProperties, LenProperties
<1>4. ASSUME NEW i \in 1..Len(loads')
      PROVE  loads'[i].before <= version /\ loads'[i].version <= version
  <2>1. CASE i \in 1..Len(loads)
    <3>1. loads'[i] = loads[i]
      BY <1>3, <2>1
    <3> QED
      BY <2>1, <3>1 DEF PanelTypes
  <2>2. CASE i = Len(loads) + 1
    BY <1>1, <1>3, <2>2
  <2> QED
    BY <1>3, <2>1, <2>2
<1>5. loads = <<>> => loads'[1].before = before
  BY <1>1, <1>3, EmptySeq
<1> QED
  BY <1>3, <1>4, <1>5

\* One load less.
LEMMA WithoutTypes ==
  ASSUME PanelTypes, NEW i \in 1..Len(loads), loads' = Without(loads, i), UNCHANGED version
  PROVE  /\ loads' \in Seq(Load) /\ Len(loads') = Len(loads) - 1 /\ Len(loads) \in Nat
         /\ \A j \in 1..Len(loads') : loads'[j].before <= version /\ loads'[j].version <= version
<1> DEFINE a == SubSeq(loads, 1, i - 1)
           b == SubSeq(loads, i + 1, Len(loads))
<1>1. loads \in Seq(Load) /\ Len(loads) \in Nat /\ \A j \in 1..Len(loads) : loads[j] \in Load
  BY LenProperties, ElementOfSeq DEF PanelTypes
<1>2. /\ a \in Seq(Load) /\ Len(a) = i - 1 /\ \A j \in 1..Len(a) : a[j] = loads[j]
  <2>1. /\ 1 \in Int /\ i - 1 \in Int /\ \A j \in 1..i - 1 : loads[j] \in Load
    BY <1>1
  <2>2. /\ a \in Seq(Load) /\ Len(a) = IF 1 <= i - 1 THEN i - 1 - 1 + 1 ELSE 0
        /\ \A j \in 1..i - 1 - 1 + 1 : a[j] = loads[1 + j - 1]
    BY <2>1, SubSeqProperties
  <2> QED
    BY <1>1, <2>2
<1>3. /\ b \in Seq(Load) /\ Len(b) = Len(loads) - i
      /\ \A j \in 1..Len(b) : b[j] = loads[i + j]
  <2>1. /\ i + 1 \in Int /\ Len(loads) \in Int /\ \A j \in i + 1..Len(loads) : loads[j] \in Load
    BY <1>1
  <2>2. /\ b \in Seq(Load)
        /\ Len(b) = IF i + 1 <= Len(loads) THEN Len(loads) - (i + 1) + 1 ELSE 0
        /\ \A j \in 1..Len(loads) - (i + 1) + 1 : b[j] = loads[i + 1 + j - 1]
    BY <2>1, SubSeqProperties
  <2> QED
    BY <1>1, <2>2
<1> HIDE DEF a, b
<1>4. /\ a \o b \in Seq(Load) /\ Len(a \o b) = Len(a) + Len(b)
      /\ \A j \in 1..Len(a) + Len(b) : (a \o b)[j] = IF j <= Len(a) THEN a[j] ELSE b[j - Len(a)]
  BY <1>2, <1>3, ConcatProperties
<1>5. loads' = a \o b
  BY DEF Without, a, b
<1>6. loads' \in Seq(Load) /\ Len(loads') = Len(loads) - 1
  <2>1. loads' \in Seq(Load) /\ Len(loads') = Len(a) + Len(b)
    BY <1>4, <1>5
  <2> QED
    BY <1>1, <1>2, <1>3, <2>1
<1>7. ASSUME NEW j \in 1..Len(loads')
      PROVE  loads'[j].before <= version /\ loads'[j].version <= version
  <2>1. j \in 1..Len(a) + Len(b)
    BY <1>4, <1>5, <1>7
  <2>2. PICK k \in 1..Len(loads) : loads'[j] = loads[k]
    <3>1. CASE j <= Len(a)
      <4>1. j \in 1..Len(a) /\ j \in 1..Len(loads)
        BY <1>1, <1>2, <2>1, <3>1
      <4>2. loads'[j] = a[j] /\ a[j] = loads[j]
        BY <1>2, <1>4, <1>5, <2>1, <3>1, <4>1
      <4> QED
        BY <4>1, <4>2
    <3>2. CASE ~(j <= Len(a))
      <4>1. j - Len(a) \in 1..Len(b) /\ i + (j - Len(a)) \in 1..Len(loads)
        BY <1>1, <1>2, <1>3, <2>1, <3>2
      <4>2. loads'[j] = b[j - Len(a)] /\ b[j - Len(a)] = loads[i + (j - Len(a))]
        BY <1>3, <1>4, <1>5, <2>1, <3>2, <4>1
      <4> QED
        BY <4>1, <4>2
    <3> QED
      BY <3>1, <3>2
  <2> QED
    BY <2>2 DEF PanelTypes
<1> QED
  BY <1>1, <1>6, <1>7

\* What is told after a page is rendered.
LEMMA ToldTypes ==
  ASSUME PanelTypes, version \in Nat, NEW page \in Seq(Nat), told' = told \o page,
         UNCHANGED version,
         \A k \in 1..Len(page) : 1 <= page[k] /\ page[k] <= version
  PROVE  /\ told' \in Seq(Nat) /\ Len(told) \in Nat /\ Len(page) \in Nat
         /\ Len(told') = Len(told) + Len(page)
         /\ \A k \in 1..Len(told) : told'[k] = told[k]
         /\ \A k \in 1..Len(page) : told'[Len(told) + k] = page[k]
         /\ \A k \in 1..Len(told') : 1 <= told'[k] /\ told'[k] <= version
<1>1. told \in Seq(Nat) /\ Len(told) \in Nat /\ Len(page) \in Nat
  BY LenProperties DEF PanelTypes
<1>2. /\ told \o page \in Seq(Nat) /\ Len(told \o page) = Len(told) + Len(page)
      /\ \A k \in 1..Len(told) + Len(page) :
           (told \o page)[k] = IF k <= Len(told) THEN told[k] ELSE page[k - Len(told)]
  BY <1>1, ConcatProperties
<1>3. \A k \in 1..Len(told) : told'[k] = told[k]
  BY <1>1, <1>2
<1>4. ASSUME NEW k \in 1..Len(page) PROVE told'[Len(told) + k] = page[k]
  <2>1. /\ Len(told) + k \in 1..Len(told) + Len(page)
        /\ ~(Len(told) + k <= Len(told)) /\ Len(told) + k - Len(told) = k
    BY <1>1
  <2> QED
    BY <1>2, <2>1
<1>5. ASSUME NEW k \in 1..Len(told') PROVE 1 <= told'[k] /\ told'[k] <= version
  <2>1. CASE k \in 1..Len(told)
    BY <1>3, <2>1 DEF PanelTypes
  <2>2. CASE k \notin 1..Len(told)
    <3>1. k - Len(told) \in 1..Len(page) /\ Len(told) + (k - Len(told)) = k
      BY <1>1, <1>2, <2>2
    <3>2. told'[k] = page[k - Len(told)]
      BY <1>4, <3>1
    <3> QED
      BY <3>1, <3>2
  <2> QED
    BY <2>1, <2>2
<1> QED
  BY <1>1, <1>2, <1>3, <1>4, <1>5

LEMMA OpenPanel ==
  ASSUME PanelInv, version \in Nat, UNCHANGED vars, Open
  PROVE  PanelInv'
<1>1. LoadPage(0) /\ told' = <<>> /\ oldest' = 0 /\ overlapped' = (loads # <<>>)
      /\ UNCHANGED version
  BY DEF Open, vars, dbVars
<1>2. /\ loads' \in Seq(Load) /\ Len(loads') = Len(loads) + 1 /\ Len(loads) \in Nat
      /\ \A i \in 1..Len(loads') : loads'[i].before <= version /\ loads'[i].version <= version
      /\ loads = <<>> => loads'[1].before = 0
      /\ loads' # <<>>
  BY <1>1, LoadPageTypes DEF PanelInv
<1>3. told' \in Seq(Nat) /\ Len(told') = 0
  BY <1>1, EmptySeq
<1>4. PanelTypes'
  BY <1>1, <1>2, <1>3 DEF PanelTypes
<1>5. ~overlapped' => Continues'
  <2>1. HAVE ~overlapped'
  <2>2. loads = <<>> /\ Len(loads) = 0 /\ Len(loads') = 1
    <3>1. loads = <<>>
      BY <1>1, <2>1
    <3>2. Len(loads) = 0
      BY <3>1, EmptySeq
    <3> QED
      BY <1>2, <3>1, <3>2
  <2>3. loads'[1].before = 0 /\ Descends(told')
    BY <1>2, <1>3, <2>2 DEF Descends
  <2> QED
    BY <1>1, <1>2, <2>2, <2>3 DEF Continues, Descends
<1> QED
  BY <1>4, <1>5 DEF PanelInv

LEMMA LoadMoreOfPanel ==
  ASSUME PanelInv, version \in Nat, UNCHANGED vars, LoadMore
  PROVE  PanelInv'
<1>1. /\ LoadPage(oldest) /\ more /\ overlapped' = (overlapped \/ loads # <<>>)
      /\ UNCHANGED <<version, told, oldest, more>>
  BY DEF LoadMore, vars, dbVars
<1>2. /\ loads' \in Seq(Load) /\ Len(loads') = Len(loads) + 1 /\ Len(loads) \in Nat
      /\ \A i \in 1..Len(loads') : loads'[i].before <= version /\ loads'[i].version <= version
      /\ loads = <<>> => loads'[1].before = oldest
      /\ loads' # <<>>
  BY <1>1, LoadPageTypes DEF PanelInv, PanelTypes
<1>3. PanelTypes'
  BY <1>1, <1>2 DEF PanelTypes, PanelInv
<1>4. ~overlapped' => Continues'
  <2>1. HAVE ~overlapped'
  <2>2. loads = <<>> /\ Continues
    BY <1>1, <2>1 DEF PanelInv
  <2>3. Len(loads') = 1 /\ loads'[1].before = oldest /\ AtEnd /\ AtEnd'
    BY <1>1, <1>2, <2>2, EmptySeq DEF Continues, AtEnd
  <2> QED
    BY <1>1, <1>2, <2>2, <2>3 DEF Continues, Descends
<1> QED
  BY <1>3, <1>4 DEF PanelInv

LEMMA ReadInstanceOfPanel ==
  ASSUME PanelInv, version \in Nat, UNCHANGED vars, NEW i \in DOMAIN loads, ReadInstance(i)
  PROVE  PanelInv'
<1>1. /\ loads' = [loads EXCEPT ![i].version = version]
      /\ UNCHANGED <<version, told, oldest, more, overlapped>>
  BY DEF ReadInstance, vars, dbVars
<1>2. /\ loads \in Seq(Load) /\ Len(loads) \in Nat /\ i \in 1..Len(loads)
      /\ \A j \in 1..Len(loads) : loads[j] \in Load
  BY LenProperties, ElementOfSeq DEF PanelInv, PanelTypes
<1> DEFINE load == [loads[i] EXCEPT !.version = version]
<1>3. load \in Load /\ load.before = loads[i].before /\ load.version <= version
  BY <1>2 DEF Load
<1>4. loads' = [loads EXCEPT ![i] = load]
  BY <1>1
<1> HIDE DEF load
<1>5. /\ loads' \in Seq(Load) /\ Len(loads') = Len(loads)
      /\ \A j \in 1..Len(loads) : loads'[j] = IF j = i THEN load ELSE loads[j]
  BY <1>2, <1>3, <1>4, ExceptSeq
<1>6. \A j \in 1..Len(loads) : /\ loads'[j].before = loads[j].before
                               /\ loads[j].version <= version => loads'[j].version <= version
  BY <1>3, <1>5
<1>7. PanelTypes'
  BY <1>1, <1>5, <1>6 DEF PanelInv, PanelTypes
<1>8. (loads = <<>>) = (loads' = <<>>)
  BY <1>2, <1>5, EmptySeq
<1>9. Continues => Continues'
  <2>1. HAVE Continues
  <2>2. 1 \in 1..Len(loads) /\ Len(loads) = 1
    <3>1. Len(loads) <= 1 /\ Len(loads) \in Nat /\ i \in 1..Len(loads)
      BY <1>2, <2>1 DEF Continues
    <3>2. \A n \in Nat : n <= 1 /\ i \in 1..n => n = 1 /\ 1 \in 1..n
      BY <3>1
    <3> QED
      BY <3>1, <3>2, Zenon
  <2>3. loads'[1].before = loads[1].before
    BY <1>6, <2>2
  <2> QED
    BY <1>1, <1>5, <1>8, <2>1, <2>2, <2>3 DEF Continues, Descends, AtEnd
<1> QED
  BY <1>1, <1>7, <1>9 DEF PanelInv

LEMMA LoadFailsOfPanel ==
  ASSUME PanelInv, version \in Nat, UNCHANGED vars, NEW i \in DOMAIN loads, LoadFails(i)
  PROVE  PanelInv'
<1>1. /\ loads' = Without(loads, i) /\ more' = FALSE
      /\ UNCHANGED <<version, told, oldest, overlapped>>
  BY DEF LoadFails, vars, dbVars
<1>2. PanelTypes /\ i \in 1..Len(loads)
  BY LenProperties DEF PanelInv, PanelTypes
<1>3. /\ loads' \in Seq(Load) /\ Len(loads') = Len(loads) - 1 /\ Len(loads) \in Nat
      /\ \A j \in 1..Len(loads') : loads'[j].before <= version /\ loads'[j].version <= version
  BY <1>1, <1>2, WithoutTypes
<1>4. PanelTypes'
  BY <1>1, <1>2, <1>3 DEF PanelTypes
<1>5. Continues => Continues'
  <2>1. HAVE Continues
  <2>2. Len(loads') = 0 /\ loads' = <<>>
    BY <1>2, <1>3, <2>1, EmptySeq DEF Continues
  <2> QED
    BY <1>1, <2>1, <2>2 DEF Continues, Descends
<1> QED
  BY <1>1, <1>4, <1>5 DEF PanelInv

LEMMA RenderOfPanel ==
  ASSUME PanelInv, version \in Nat, UNCHANGED vars, NEW i \in DOMAIN loads, Render(i)
  PROVE  PanelInv'
<1> DEFINE page == PageOf(loads[i])
<1>1. /\ loads' = Without(loads, i) /\ ~Awaited(loads[i])
      /\ told' = told \o page /\ oldest' = OldestOf(page) /\ more' = Full(page)
      /\ UNCHANGED <<version, overlapped>>
  BY DEF Render, vars, dbVars
<1>2. PanelTypes /\ i \in 1..Len(loads) /\ loads[i] \in Load
  BY LenProperties, ElementOfSeq DEF PanelInv, PanelTypes
<1>3. /\ loads' \in Seq(Load) /\ Len(loads') = Len(loads) - 1 /\ Len(loads) \in Nat
      /\ \A j \in 1..Len(loads') : loads'[j].before <= version /\ loads'[j].version <= version
  BY <1>1, <1>2, WithoutTypes
<1>4. loads[i].before <= version /\ loads[i].version <= version
  BY <1>2 DEF PanelTypes
<1>5. /\ page \in Seq(Nat) /\ Len(page) \in 0..PageLimit
      /\ \A k \in 1..Len(page) : 1 <= page[k] /\ page[k] <= version
      /\ Descends(page)
      /\ loads[i].before > 0 => \A k \in 1..Len(page) : page[k] = loads[i].before - k
  BY <1>1, <1>2, <1>4, PageFacts
<1> HIDE DEF page
<1>6. /\ oldest \in Nat /\ oldest <= version /\ told \in Seq(Nat)
      /\ \A k \in 1..Len(told) : 1 <= told[k] /\ told[k] <= version
  BY <1>2 DEF PanelTypes
<1>7. /\ OldestOf(page) \in Nat /\ OldestOf(page) <= version
      /\ \A s \in {page[k] : k \in Starts(page)} \cup ({oldest} \ {0}) :
           (\A u \in {page[k] : k \in Starts(page)} \cup ({oldest} \ {0}) : s <= u)
             => OldestOf(page) = s
  BY <1>5, <1>6, OldestFacts
<1>8. /\ told' \in Seq(Nat) /\ Len(told) \in Nat /\ Len(page) \in Nat
      /\ Len(told') = Len(told) + Len(page)
      /\ \A k \in 1..Len(told) : told'[k] = told[k]
      /\ \A k \in 1..Len(page) : told'[Len(told) + k] = page[k]
      /\ \A k \in 1..Len(told') : 1 <= told'[k] /\ told'[k] <= version
  BY <1>1, <1>2, <1>5, ToldTypes
<1>9. PanelTypes'
  BY <1>1, <1>3, <1>7, <1>8 DEF PanelTypes
<1>10. Continues => Continues'
  <2>1. HAVE Continues
  <2>2. Len(loads) = 1 /\ i = 1 /\ loads' = <<>> /\ Len(loads') = 0 /\ loads # <<>>
    BY <1>2, <1>3, <2>1, EmptySeq DEF Continues
  <2>3. \/ loads[1].before = 0 /\ told = <<>> /\ oldest = 0
        \/ AtEnd /\ loads[1].before = oldest /\ oldest > 0 /\ Len(told) > 0
    <3>1. ASSUME AtEnd PROVE oldest > 0 /\ Len(told) > 0
      BY <1>6, <1>8, <3>1, EmptySeq DEF AtEnd
    <3> QED
      BY <2>1, <2>2, <3>1 DEF Continues
  <2>4. Descends(told')
    <3> SUFFICES ASSUME NEW k \in 2..Len(told') PROVE told'[k] = told'[k-1] - 1
      BY DEF Descends
    <3>1. CASE k \in 2..Len(told)
      <4>1. told[k] = told[k-1] - 1
        BY <2>1, <3>1 DEF Continues, Descends
      <4>2. told'[k] = told[k] /\ told'[k-1] = told[k-1]
        <5>1. k \in 1..Len(told) /\ k - 1 \in 1..Len(told)
          BY <1>8, <3>1
        <5> QED
          BY <1>8, <5>1
      <4> QED
        BY <4>1, <4>2
    <3>2. CASE k - Len(told) \in 2..Len(page)
      <4> DEFINE j == k - Len(told)
      <4>1. /\ j \in 2..Len(page) /\ j \in 1..Len(page) /\ j - 1 \in 1..Len(page)
            /\ Len(told) + j = k /\ Len(told) + (j - 1) = k - 1
        BY <1>8, <3>2
      <4> HIDE DEF j
      <4>2. told'[k] = page[j] /\ told'[k-1] = page[j-1]
        BY <1>8, <4>1
      <4>3. page[j] = page[j-1] - 1
        BY <1>5, <4>1 DEF Descends
      <4> QED
        BY <4>2, <4>3
    <3>3. CASE k = Len(told) + 1
      <4>1. Len(told) > 0 /\ 1 \in 1..Len(page) /\ Len(told) \in 1..Len(told) /\ k - 1 = Len(told)
        BY <1>8, <3>3
      <4>2. told'[k] = page[1] /\ told'[k-1] = told[Len(told)]
        BY <1>8, <3>3, <4>1
      <4>3. AtEnd /\ loads[1].before = oldest /\ oldest > 0
        BY <2>3, <4>1, EmptySeq
      <4>4. page[1] = oldest - 1
        BY <1>5, <2>2, <4>1, <4>3
      <4> QED
        BY <4>2, <4>3, <4>4 DEF AtEnd
    <3> QED
      BY <1>8, <3>1, <3>2, <3>3
  <2>5. ASSUME more' PROVE AtEnd'
    <3>1. Starts(page) = 1..Len(page) /\ page # <<>>
      <4>1. Full(page) /\ Len(page) <= PageLimit
        BY <1>1, <1>5, <2>5, PanelAssumption
      <4> QED
        BY <1>5, <4>1, FullPage
    <3> DEFINE n == Len(page)
    <3>2. n \in 1..Len(page) /\ \A k \in 1..Len(page) : page[n] <= page[k]
      <4>1. n \in 1..Len(page)
        BY <1>5, <1>8, <3>1, EmptySeq
      <4>2. \A k \in 1..Len(page) : page[k] \in Nat
        BY <1>5, ElementOfSeq
      <4>3. \A k \in 1..Len(page) : page[k] = page[1] + 1 - k
        <5> DEFINE T == {k \in Nat : k + 1 \in 1..Len(page) => page[k + 1] = page[1] - k}
        <5>1. 0 \in T
          BY <4>1, <4>2
        <5>2. ASSUME NEW k \in T PROVE k + 1 \in T
          <6>1. SUFFICES ASSUME (k + 1) + 1 \in 1..Len(page)
                         PROVE  page[(k + 1) + 1] = page[1] - (k + 1)
            BY <5>2
          <6>2. /\ k + 1 \in 1..Len(page) /\ k + 2 \in 2..Len(page)
                /\ (k + 2) - 1 = k + 1 /\ (k + 1) + 1 = k + 2
            BY <1>8, <5>2, <6>1
          <6>3. page[k + 2] = page[k + 1] - 1
            BY <1>5, <6>2 DEF Descends
          <6>4. page[k + 1] = page[1] - k
            BY <5>2, <6>2
          <6> QED
            BY <4>1, <4>2, <6>2, <6>3, <6>4, <5>2
        <5> HIDE DEF T
        <5>3. Nat \subseteq T
          BY <5>1, <5>2, Inductive
        <5> QED
          <6> TAKE k \in 1..Len(page)
          <6>1. k - 1 \in T /\ (k - 1) + 1 = k /\ page[1] \in Nat
            BY <1>8, <4>1, <4>2, <5>3
          <6> QED
            BY <6>1 DEF T
      <4>4. ASSUME NEW k \in 1..Len(page) PROVE page[n] <= page[k]
        <5>1. page[n] = page[1] + 1 - n /\ page[k] = page[1] + 1 - k /\ page[1] \in Nat
          BY <1>8, <4>1, <4>2, <4>3
        <5> QED
          BY <1>8, <5>1
      <4> QED
        BY <4>1, <4>4
    <3>3. \A u \in {page[k] : k \in Starts(page)} \cup ({oldest} \ {0}) : page[n] <= u
      <4>1. oldest # 0 => page[n] <= oldest
        <5>1. HAVE oldest # 0
        <5>2. loads[i].before = oldest /\ oldest > 0
          BY <1>6, <2>2, <2>3, <5>1
        <5>3. page[n] = oldest - n
          BY <1>5, <3>2, <5>2
        <5> QED
          BY <1>6, <1>8, <5>3
      <4> QED
        BY <3>1, <3>2, <4>1
    <3>4. page[n] \in {page[k] : k \in Starts(page)}
      BY <3>1, <3>2
    <3>5. OldestOf(page) = page[n]
      BY <1>7, <3>3, <3>4
    <3>6. told'[Len(told')] = page[n] /\ Len(told') > 0
      BY <1>8, <3>2
    <3> QED
      BY <1>1, <1>8, <3>5, <3>6, EmptySeq DEF AtEnd
  <2> QED
    BY <2>2, <2>4, <2>5 DEF Continues
<1> QED
  BY <1>1, <1>9, <1>10 DEF PanelInv

LEMMA PanelStep == LedgerInv /\ PanelInv /\ [HistoryNext]_<<vars, panelVars>> => PanelInv'
<1> SUFFICES ASSUME LedgerInv, PanelInv, [HistoryNext]_<<vars, panelVars>> PROVE PanelInv'
  OBVIOUS
<1>1. version \in Nat
  BY DEF LedgerInv, TypeInv, TypeOK
<1>2. CASE Next /\ UNCHANGED panelVars
  <2>1. LedgerInv' /\ version <= version'
    BY <1>2, LedgerStep, GrowsStep DEF Grows
  <2>2. version' \in Nat
    BY <2>1 DEF LedgerInv, TypeInv, TypeOK
  <2> QED
    BY <1>1, <1>2, <2>1, <2>2, LedgerKeepsPanel
<1>3. CASE Panel /\ UNCHANGED vars
  BY <1>1, <1>3, OpenPanel, LoadMoreOfPanel, ReadInstanceOfPanel, RenderOfPanel,
     LoadFailsOfPanel DEF Panel
<1>4. CASE UNCHANGED <<vars, panelVars>>
  BY <1>1, <1>4, LedgerKeepsPanel DEF vars, dbVars
<1> QED
  BY <1>2, <1>3, <1>4 DEF HistoryNext

\* Every operation is told once and none is left out as long as the loads of
\* an opening do not overlap, for every length of a page, whatever operations
\* are alike, and while the ledger grows.
THEOREM PanelTellsOnce == HistorySpec => []ToldOnce
<1>1. HistoryInit => LedgerInv
  BY LedgerInit DEF HistoryInit
<1>2. LedgerInv /\ [HistoryNext]_<<vars, panelVars>> => LedgerInv'
  BY LedgerStep DEF HistoryNext
<1>3. PanelInv => ToldOnce
  BY DEF PanelInv, Continues, Descends, ToldOnce
<1> QED
  BY <1>1, <1>2, <1>3, PanelInitial, PanelStep, PTL DEF HistorySpec

=============================================================================
