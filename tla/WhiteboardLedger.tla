-------------------------- MODULE WhiteboardLedger --------------------------
(***************************************************************************)
(* The write path of one whiteboard: apps/whiteboard/service.py with the   *)
(* callers that reach it, the submit, restore and import endpoints of      *)
(* api.py, restore.py and board_import.py.                                 *)
(*                                                                         *)
(* A worker is one server thread serving one request.  It reads the        *)
(* Whiteboard instance without a lock, then runs submit_batch: a           *)
(* transaction that locks the row, walks through the operations of the     *)
(* request one by one and commits or rolls back.  An import runs one such  *)
(* transaction per chunk.  A worker may die at any step; its transaction   *)
(* is then rolled back and its client may send the operations again.       *)
(*                                                                         *)
(* The database is the set ops of operation rows and the two columns of    *)
(* the whiteboard row that matter, version and archived.  The columns      *)
(* title, last_operation_at and archived_at, payloads other than a         *)
(* restore's snapshot, and structural validation (which runs before        *)
(* anything else and touches nothing) are left out.                        *)
(***************************************************************************)
EXTENDS Integers, Sequences

CONSTANTS
  Workers,          \* server threads
  NoWorker,         \* nobody holds the row lock
  OpIds,            \* ids of the operations clients draw
  RestoreIds,       \* ids of the restores clients ask for
  ImportIds,        \* ids an import draws with uuid4
  MaxBatch,         \* limits.MAX_BATCH_OPERATIONS
  MaxImport         \* operations in one import, the leading clear included

ASSUME WorkersAssumption == NoWorker \notin Workers
ASSUME IdsAssumption ==
  /\ OpIds \cap RestoreIds = {}
  /\ (OpIds \cup RestoreIds) \cap ImportIds = {}
ASSUME BatchAssumption == MaxBatch \in Nat \ {0}
ASSUME ImportAssumption == MaxImport \in Nat

VARIABLES
  ops,              \* committed rows: [seq, op]
  version,          \* Whiteboard.version
  archived,         \* Whiteboard.status = ARCHIVED
  lock,             \* holder of the row lock
  pc,               \* where each worker is
  inst,             \* version of the Whiteboard instance the worker read
  batch,            \* operations handed to submit_batch
  plan,             \* ids of a whole import, <<>> for another request
  sent,             \* how many of plan have been handed to submit_batch
  todo,             \* rest of the loop over the batch
  seen,             \* ids already met in this batch
  expected,         \* the version the next operation has to be based on
  rows,             \* rows created in the open transaction
  acks,             \* acknowledgements of the request (or import chunk)
  result            \* what the worker is about to answer

dbVars == <<ops, version, archived>>
reqVars == <<inst, batch, plan, sent>>
txVars == <<todo, seen, expected, rows>>
vars == <<dbVars, lock, pc, reqVars, txVars, acks, result>>

Ids == OpIds \cup RestoreIds \cup ImportIds

Op == [kind : {"edit", "restore"}, id : Ids, base : Nat,
       target : Nat, snap : SUBSET (Nat \X Ids)]

Row == [seq : Nat, op : Op]

Ack == [id : Ids, seq : Nat, dup : BOOLEAN]

\* An operation whose payload is what the client drew.
Edit(id, base) ==
  [kind |-> "edit", id |-> id, base |-> base, target |-> 0, snap |-> {}]

Persisted == {r.op.id : r \in ops}

\* Mutant: a retry is acknowledged with the version the board has now.
StoredSequenceIsVersion(id) == version

\* The sequence an operation was stored under by an earlier request.
StoredSequence(id) == (CHOOSE r \in ops : r.op.id = id).seq

\* The history a snapshot "as of target" is replayed from.
Prefix(target) == {<<r.seq, r.op.id>> : r \in {q \in ops : q.seq <= target}}

Answer(status, v) == [status |-> status, version |-> v]

NoAnswer == Answer("none", 0)

-----------------------------------------------------------------------------
Init ==
  /\ ops = {} /\ version = 0 /\ archived = FALSE
  /\ lock = NoWorker
  /\ pc = [w \in Workers |-> "idle"]
  /\ inst = [w \in Workers |-> 0]
  /\ batch = [w \in Workers |-> <<>>]
  /\ plan = [w \in Workers |-> <<>>]
  /\ sent = [w \in Workers |-> 0]
  /\ todo = [w \in Workers |-> <<>>]
  /\ seen = [w \in Workers |-> {}]
  /\ expected = [w \in Workers |-> 0]
  /\ rows = [w \in Workers |-> {}]
  /\ acks = [w \in Workers |-> <<>>]
  /\ result = [w \in Workers |-> NoAnswer]

-----------------------------------------------------------------------------
(* Requests.  Each begins with _get_whiteboard_and_partnership, which       *)
(* loads a Whiteboard instance without a lock: inst is the version it had,  *)
(* kept for the requests that look at it.                                   *)

Receive(w, where, v, b, p, n) ==
  /\ pc[w] = "idle"
  /\ pc' = [pc EXCEPT ![w] = where]
  /\ inst' = [inst EXCEPT ![w] = v]
  /\ batch' = [batch EXCEPT ![w] = b]
  /\ plan' = [plan EXCEPT ![w] = p]
  /\ sent' = [sent EXCEPT ![w] = n]
  /\ UNCHANGED <<dbVars, lock, txVars, acks, result>>

\* OperationSubmitView.post and the consumer's operation.submit: ids may
\* repeat and bases may be out of date, since clients retry.
Submit(w, b) == Receive(w, "queued", 0, b, <<>>, 0)

\* The bases of a batch of n: the first is a version the board has had, each
\* next one is the base before it or one more.
Bases(n) ==
  {f \in [1..n -> 0..(version + n)] :
     /\ f[1] <= version
     /\ \A k \in 2..n : f[k] - f[k-1] \in {0, 1}}

EditBatch(ids, bases) == [k \in DOMAIN ids |-> Edit(ids[k], bases[k])]

\* WhiteboardRestoreView.post: the client names only the target.
Restore(w, id, base, target) ==
  Receive(w, "snapshot", version,
          <<[kind |-> "restore", id |-> id, base |-> base,
             target |-> target, snap |-> {}]>>, <<>>, 0)

\* The next chunk of an import, based on version v onwards.
Chunk(p, n, v) ==
  [k \in 1..(IF Len(p) - n < MaxBatch THEN Len(p) - n ELSE MaxBatch) |->
     Edit(p[n + k], v + k - 1)]

\* ImportService.import_board: the version is the one of the instance.
Import(w, p) ==
  LET first == Chunk(p, 0, version)
  IN  Receive(w, "queued", version, first, p, Len(first))

\* uuid4 draws ids nobody has used.
Drawn == UNION {{plan[v][k] : k \in 1..Len(plan[v])} : v \in Workers}

ImportPlans(n) ==
  {p \in [1..n -> ImportIds \ (Persisted \cup Drawn)] :
     \A j, k \in 1..n : p[j] = p[k] => j = k}

\* RestoreService.restore checks the target against the instance and replays
\* the rows up to it, without a lock, before it submits; it does not look at
\* the instance again.
TargetUnchecked(w) == TRUE   \* mutant

TargetKnown(w) == batch[w][1].target <= inst[w]

WithSnapshot(op) == [op EXCEPT !.snap = Prefix(op.target)]

BuildSnapshot(w) ==
  /\ pc[w] = "snapshot"
  /\ IF TargetKnown(w)
       THEN /\ pc' = [pc EXCEPT ![w] = "queued"]
            /\ batch' = [batch EXCEPT ![w] = <<WithSnapshot(batch[w][1])>>]
            /\ UNCHANGED result
       ELSE /\ pc' = [pc EXCEPT ![w] = "answer"]
            /\ result' = [result EXCEPT ![w] = Answer("invalid", 0)]
            /\ UNCHANGED batch
  /\ inst' = [inst EXCEPT ![w] = 0]
  /\ UNCHANGED <<dbVars, lock, plan, sent, txVars, acks>>

-----------------------------------------------------------------------------
(* The transaction of submit_batch.                                         *)

\* select_for_update waits for the row; an archived board is refused.
LockRow(w) ==
  /\ pc[w] = "queued"
  /\ lock = NoWorker
  /\ ~archived
  /\ lock' = w
  /\ pc' = [pc EXCEPT ![w] = "loop"]
  /\ todo' = [todo EXCEPT ![w] = batch[w]]
  /\ seen' = [seen EXCEPT ![w] = {}]
  /\ expected' = [expected EXCEPT ![w] = version]
  /\ rows' = [rows EXCEPT ![w] = {}]
  /\ acks' = [acks EXCEPT ![w] = <<>>]
  /\ UNCHANGED <<dbVars, reqVars, result>>

RefuseArchived(w) ==
  /\ pc[w] = "queued"
  /\ lock = NoWorker
  /\ archived
  /\ pc' = [pc EXCEPT ![w] = "answer"]
  /\ result' = [result EXCEPT ![w] = Answer("read_only", 0)]
  /\ UNCHANGED <<dbVars, lock, reqVars, txVars, acks>>

\* The locals of submit_batch go out of scope.
EndTx(w) ==
  /\ todo' = [todo EXCEPT ![w] = <<>>]
  /\ seen' = [seen EXCEPT ![w] = {}]
  /\ expected' = [expected EXCEPT ![w] = 0]
  /\ rows' = [rows EXCEPT ![w] = {}]

InLoop(w) == pc[w] = "loop" /\ todo[w] # <<>>

\* The same id again within the batch is ignored.
SkipRepeat(w) ==
  /\ InLoop(w)
  /\ Head(todo[w]).id \in seen[w]
  /\ todo' = [todo EXCEPT ![w] = Tail(@)]
  /\ UNCHANGED <<dbVars, lock, pc, reqVars, seen, expected, rows, acks, result>>

\* An operation stored by an earlier request is acknowledged as it is.
AckExisting(w) ==
  LET id == Head(todo[w]).id
  IN  /\ InLoop(w)
      /\ id \notin seen[w]
      /\ id \in Persisted
      /\ acks' = [acks EXCEPT ![w] =
                    Append(@, [id |-> id, seq |-> StoredSequence(id), dup |-> TRUE])]
      /\ seen' = [seen EXCEPT ![w] = @ \cup {id}]
      /\ todo' = [todo EXCEPT ![w] = Tail(@)]
      /\ UNCHANGED <<dbVars, lock, pc, reqVars, expected, rows, result>>

\* Mutant: only the batch itself is searched for the id.
IsNewInBatch(w) == Head(todo[w]).id \notin seen[w]

IsNew(w) ==
  LET id == Head(todo[w]).id IN id \notin seen[w] /\ id \notin Persisted

NotAhead(w) == Head(todo[w]).base <= expected[w]   \* mutant

UpToDate(w) == Head(todo[w]).base = expected[w]

CreateRow(w) ==
  LET op == Head(todo[w])
      sequence == expected[w] + 1
  IN  /\ InLoop(w)
      /\ IsNew(w)
      /\ UpToDate(w)
      /\ rows' = [rows EXCEPT ![w] = @ \cup {[seq |-> sequence, op |-> op]}]
      /\ acks' = [acks EXCEPT ![w] =
                    Append(@, [id |-> op.id, seq |-> sequence, dup |-> FALSE])]
      /\ expected' = [expected EXCEPT ![w] = sequence]
      /\ seen' = [seen EXCEPT ![w] = @ \cup {op.id}]
      /\ todo' = [todo EXCEPT ![w] = Tail(@)]
      /\ UNCHANGED <<dbVars, lock, pc, reqVars, result>>

\* Mutant: each operation is saved on its own, without an atomic block.
RefuseStaleOneByOne(w) ==
  /\ InLoop(w)
  /\ IsNew(w)
  /\ ~UpToDate(w)
  /\ pc' = [pc EXCEPT ![w] = "answer"]
  /\ lock' = NoWorker
  /\ result' = [result EXCEPT ![w] = Answer("stale", expected[w])]
  /\ ops' = ops \cup rows[w]
  /\ version' = expected[w]
  /\ EndTx(w)
  /\ acks' = [acks EXCEPT ![w] = <<>>]
  /\ UNCHANGED <<archived, reqVars>>

\* Mutant: the row lock is kept when the block is left by the exception.
RefuseStaleKeepLock(w) ==
  /\ InLoop(w)
  /\ IsNew(w)
  /\ ~UpToDate(w)
  /\ pc' = [pc EXCEPT ![w] = "answer"]
  /\ result' = [result EXCEPT ![w] = Answer("stale", expected[w])]
  /\ EndTx(w)
  /\ acks' = [acks EXCEPT ![w] = <<>>]
  /\ UNCHANGED <<dbVars, lock, reqVars>>

\* StaleVersionError leaves the atomic block: everything is rolled back.
RefuseStale(w) ==
  /\ InLoop(w)
  /\ IsNew(w)
  /\ ~UpToDate(w)
  /\ pc' = [pc EXCEPT ![w] = "answer"]
  /\ lock' = NoWorker
  /\ result' = [result EXCEPT ![w] = Answer("stale", expected[w])]
  /\ EndTx(w)
  /\ acks' = [acks EXCEPT ![w] = <<>>]
  /\ UNCHANGED <<dbVars, reqVars>>

\* SubmitResult.version.
ResultVersion(w) == acks[w][Len(acks[w])].seq

SavedVersionCountsAcks(w) == version + Len(acks[w])   \* mutant

\* The row is saved only if something was applied, and the block commits.
SavedVersion(w) == IF rows[w] # {} THEN expected[w] ELSE version

CommitTx(w) ==
  /\ pc[w] = "loop"
  /\ todo[w] = <<>>
  /\ ops' = ops \cup rows[w]
  /\ version' = SavedVersion(w)
  /\ lock' = NoWorker
  /\ EndTx(w)

Commit(w) ==
  /\ sent[w] = Len(plan[w])
  /\ CommitTx(w)
  /\ pc' = [pc EXCEPT ![w] = "answer"]
  /\ result' = [result EXCEPT ![w] = Answer("ok", ResultVersion(w))]
  /\ UNCHANGED <<archived, reqVars, acks>>

\* An import goes on with its next chunk, based on the version of the last.
CommitChunk(w) ==
  LET chunk == Chunk(plan[w], sent[w], ResultVersion(w))
  IN  /\ sent[w] < Len(plan[w])
      /\ CommitTx(w)
      /\ pc' = [pc EXCEPT ![w] = "queued"]
      /\ batch' = [batch EXCEPT ![w] = chunk]
      /\ sent' = [sent EXCEPT ![w] = @ + Len(chunk)]
      /\ acks' = [acks EXCEPT ![w] = <<>>]
      /\ UNCHANGED <<archived, inst, plan, result>>

-----------------------------------------------------------------------------
(* The end of a request, its loss, and the board's status.                  *)

Forget(w) ==
  /\ pc' = [pc EXCEPT ![w] = "idle"]
  /\ inst' = [inst EXCEPT ![w] = 0]
  /\ batch' = [batch EXCEPT ![w] = <<>>]
  /\ plan' = [plan EXCEPT ![w] = <<>>]
  /\ sent' = [sent EXCEPT ![w] = 0]
  /\ EndTx(w)
  /\ acks' = [acks EXCEPT ![w] = <<>>]
  /\ result' = [result EXCEPT ![w] = NoAnswer]
  /\ UNCHANGED dbVars

Respond(w) ==
  /\ pc[w] = "answer"
  /\ Forget(w)
  /\ UNCHANGED lock

\* The worker dies, or the database connection does: an open transaction is
\* rolled back and its lock released; the client gets no answer.
Crash(w) ==
  /\ pc[w] # "idle"
  /\ Forget(w)
  /\ lock' = IF lock = w THEN NoWorker ELSE lock

\* Mutant: the status is written without the row lock.
SetStatusUnlocked(s) ==
  /\ archived' = s
  /\ UNCHANGED <<ops, version, lock, pc, reqVars, txVars, acks, result>>

\* WhiteboardMetadataService.archive and unarchive, each one short transaction.
SetStatus(s) ==
  /\ lock = NoWorker
  /\ archived' = s
  /\ UNCHANGED <<ops, version, lock, pc, reqVars, txVars, acks, result>>

Archive == SetStatus(TRUE)

Unarchive == SetStatus(FALSE)

\* n is how many operations of an import the chunks up to this one hold.
Transaction(w) ==
  \/ LockRow(w) \/ RefuseArchived(w)
  \/ SkipRepeat(w) \/ AckExisting(w) \/ CreateRow(w) \/ RefuseStale(w)
  \/ Commit(w)
  \/ \E n \in 1..(MaxImport - 1) : sent[w] = n /\ CommitChunk(w)

Serve(w) == BuildSnapshot(w) \/ Transaction(w) \/ Respond(w)

Request(w) ==
  \/ \E n \in 1..MaxBatch : \E ids \in [1..n -> OpIds], bases \in Bases(n) :
       Submit(w, EditBatch(ids, bases))
  \/ \E id \in RestoreIds, base \in 0..version, target \in 0..(version + 1) :
       Restore(w, id, base, target)
  \/ \E n \in 1..MaxImport : \E p \in ImportPlans(n) : Import(w, p)

Next ==
  \/ \E w \in Workers : Request(w) \/ Serve(w) \/ Crash(w)
  \/ Archive
  \/ Unarchive

Spec == Init /\ [][Next]_vars

\* A thread that serves a request keeps running, and the database hands the
\* row lock to those who wait for it in turn.
Fairness == \A w \in Workers : WF_vars(Serve(w)) /\ SF_vars(LockRow(w) \/ RefuseArchived(w))

FairSpec == Spec /\ Fairness

-----------------------------------------------------------------------------
(* Properties.                                                              *)

\* Every variable holds a value of its kind.
TypeOK ==
  /\ ops \subseteq Row
  /\ version \in Nat
  /\ archived \in BOOLEAN
  /\ lock \in Workers \cup {NoWorker}
  /\ pc \in [Workers -> {"idle", "snapshot", "queued", "loop", "answer"}]
  /\ inst \in [Workers -> Nat]
  /\ batch \in [Workers -> Seq(Op)]
  /\ plan \in [Workers -> Seq(Ids)]
  /\ sent \in [Workers -> Nat]
  /\ todo \in [Workers -> Seq(Op)]
  /\ seen \in [Workers -> SUBSET Ids]
  /\ expected \in [Workers -> Nat]
  /\ rows \in [Workers -> SUBSET Row]
  /\ acks \in [Workers -> Seq(Ack)]
  /\ result \in [Workers -> [status : {"none", "ok", "stale", "read_only", "invalid"},
                             version : Nat]]

\* Whiteboard.version is the sequence of the last operation and the sequences
\* are 1, 2, ..., version, each used once: whatever transactions interleave,
\* replay order has neither a gap nor a tie.
LedgerDense ==
  /\ {r.seq : r \in ops} = 1..version
  /\ \A r, q \in ops : r.seq = q.seq => r = q

\* However often and however late a client sends an operation again, it is in
\* the ledger at most once.
AppliedOnce == \A r, q \in ops : r.op.id = q.op.id => r = q

\* Optimistic concurrency: an operation is accepted only right after the
\* version its client had seen.
NoBlindWrite == \A r \in ops : r.op.base = r.seq - 1

\* The snapshot a restore carries was read before the lock was taken; it is
\* still exactly the board as of the target sequence.
SnapshotFaithful ==
  \A r \in ops : r.op.kind = "restore" =>
     r.op.target < r.seq /\ r.op.snap = Prefix(r.op.target)

\* An answer "ok" acknowledges each operation of the request (of its last
\* chunk), by the sequence the operation really has in the ledger.
AcksTruthful ==
  \A w \in Workers : result[w].status = "ok" =>
    /\ \A k \in 1..Len(acks[w]) :
         \E r \in ops : r.op.id = acks[w][k].id /\ r.seq = acks[w][k].seq
    /\ \A k \in 1..Len(batch[w]) :
         \E j \in 1..Len(acks[w]) : acks[w][j].id = batch[w][k].id

\* What an import has stored so far is an unbroken run of its operations from
\* the version it read on, and the whole of them if it reports success:
\* nobody's operation ever lands between two chunks.
ImportContiguous ==
  \A w \in Workers : plan[w] # <<>> =>
    LET stored == {k \in 1..Len(plan[w]) : plan[w][k] \in Persisted}
    IN  /\ \A k \in stored : StoredSequence(plan[w][k]) = inst[w] + k
        /\ \A k \in stored : 1..k \subseteq stored
        /\ result[w].status = "ok" => stored = 1..Len(plan[w])

\* All or nothing: a step that stores anything stores every operation of the
\* request (or import chunk) it stores for.
WholeRequests ==
  [][ops' # ops =>
       \E w \in Workers : \A k \in 1..Len(batch[w]) :
          batch[w][k].id \in {r.op.id : r \in ops'}]_vars

\* A request whose operations are all stored is acknowledged if the board is
\* not archived, however old the versions are that the client based them on:
\* the search for the id comes before the comparison of versions.
RetryIsAcknowledged ==
  [][\A w \in Workers :
       /\ pc[w] = "loop" /\ pc'[w] = "answer"
       /\ \A k \in 1..Len(batch[w]) : batch[w][k].id \in Persisted
       => result'[w].status = "ok"]_vars

\* Seen from outside the ledger is a list that grows at its end, by new ids
\* only, and only while the board is not archived.
IdsOf(R, n) == [s \in 1..n |-> (CHOOSE r \in R : r.seq = s).op.id]

IdsInOrder == IdsOf(ops, version)

Log == INSTANCE OpLog WITH Ids <- Ids, log <- IdsInOrder, open <- ~archived

ImplementsOpLog == Log!Spec

\* Every request comes to an end, whatever the others wait for or lose.
RequestsEnd == \A w \in Workers : pc[w] # "idle" ~> pc[w] = "idle"

=============================================================================
