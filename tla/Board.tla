------------------------------- MODULE Board --------------------------------
(***************************************************************************)
(* The pages on one board and what each of them shows                      *)
(* (frontend/src/whiteboard/engine.ts, index.ts, state.ts in BoardState,   *)
(* and the server's replay in Replay).                                     *)
(*                                                                         *)
(* A page draws at once on its own board and emits operations; they are    *)
(* committed one after the other in the order they were emitted, whatever  *)
(* the partner commits in between (SyncEngine, WhiteboardLedger).  A page  *)
(* starts with nothing cached, loads the board, and polls; once its socket *)
(* is ready it is told of each later commit in order (Realtime) and polls  *)
(* no more.  A restore is not applied: its observers load the board anew.  *)
(* A load reads the version and the operations one after the other.        *)
(*                                                                         *)
(* "applied" is a history variable: the operations a page's board reflects *)
(* since it last loaded, in the order it applied them, with a mark for     *)
(* each step that is not an operation of the ledger.                       *)
(***************************************************************************)
EXTENDS Replay, BoardState, FiniteSets

CONSTANTS
  Pages,
  Live,          \* the pages whose socket can connect
  Drawn,         \* strokes drawn before
  Opened,        \* the pages that have loaded them, and connected
  Gestures,      \* the gestures the user of a page makes
  MaxOps,        \* operations made from then on, restores included
  MaxUndos,      \* steps on the undo and redo stacks
  MaxRequests    \* requests of a page in flight when it polls

Nobody == "nobody"

ASSUME PagesAssumption == /\ IsFiniteSet(Pages) /\ Nobody \notin Pages
                          /\ Live \subseteq Pages /\ Opened \subseteq Pages
ASSUME BoundsAssumption == Drawn \in Nat /\ MaxOps \in Nat /\ MaxUndos \in Nat /\ MaxRequests \in Nat
ASSUME GesturesAssumption ==
  Gestures \in [Pages -> SUBSET {"draw", "delete", "erase", "clear", "move", "resize",
                                "revert", "undo"}]

VARIABLES
  ledger,        \* the operations of the board, in sequence
  board,         \* Engine.board
  version,       \* Engine._serverVersion
  nextId,        \* Engine.nextId
  held,          \* dragOriginalStroke or resizeOriginalStroke, with the gesture
  outbox,        \* emitted and not yet committed
  made,          \* how many operations a page has emitted
  heard,         \* how far the socket has told a page of the ledger
  polls,         \* the polls of a page in flight, "late" once a load has
                 \* replaced the board they were made for
  loads,         \* its requests for the whole board in flight
  applied,
  undos          \* steps made on them

pageVars == <<board, version, nextId, held, outbox, made>>
netVars == <<heard, polls, loads>>
vars == <<ledger, pageVars, netVars, applied, undos>>

Connecting == -1

Ready(p) == heard[p] # Connecting

\* A stroke is drawn at 1, moved by 1 and resized to twice its distance from 0.
Start == 1
By == 1
About == 0
Scale == 2

\* Operation n of page p, and the marks of an undo, of a gesture on a stroke
\* that had changed, of a restore that could not be loaded and of a late poll.
Token(p, n) == <<p, n>>
Undone(p) == <<p, 0>>
Stale(p) == <<p, -1>>
Unloaded(p) == <<p, -2>>
Late(p) == <<p, -3>>

Made == UNION {{Token(p, n) : n \in 1..made[p]} : p \in Pages}

Total == Cardinality(Made)

Marked(steps, mark) == IF mark \in Elements(steps) THEN steps ELSE Append(steps, mark)

Tokens(ops) == [i \in DOMAIN ops |-> ops[i].token]

-----------------------------------------------------------------------------
\* Emitting and receiving operations

Create(stroke) == [type |-> "create_stroke", id |-> stroke.id, at |-> stroke.at]

Delete(stroke) == [type |-> "delete_object", id |-> stroke.id]

ClearCanvas == [type |-> "clear_canvas"]

Move(id) == [type |-> "move_object", id |-> id, by |-> By]

\* Mutant: the anchor that is sent is not the one that was used.
ResizeElsewhere(id) ==
  [type |-> "resize_object", id |-> id, about |-> Start, by |-> Scale]

Resize(id) == [type |-> "resize_object", id |-> id, about |-> About, by |-> Scale]

Creates(strokes) == [i \in DOMAIN strokes |-> Create(strokes[i])]

\* _emitServerOps: each operation of a gesture advances the version.
Emit(p, envelopes) ==
  LET ops == [i \in DOMAIN envelopes |->
                [page |-> p, token |-> Token(p, made[p] + i), op |-> envelopes[i]]]
  IN /\ Total + Len(ops) <= MaxOps
     /\ outbox' = [outbox EXCEPT ![p] = @ \o ops]
     /\ made' = [made EXCEPT ![p] = @ + Len(ops)]
     /\ version' = [version EXCEPT ![p] = @ + Len(ops)]
     /\ applied' = [applied EXCEPT ![p] = @ \o Tokens(ops)]

\* remoteEnvToOp and applyRemoteOperation: a change of what is not there, or a
\* clear of an empty board, leaves no trace.
Received(b, entry) ==
  LET op == entry.op
      there == op.type \in {"delete_object", "move_object", "resize_object"}
               /\ HasStroke(b.strokes, op.id)
      stroke == StrokeById(b.strokes, op.id)
  IN CASE op.type = "create_stroke" ->
            Commit(b, Adding(<<[id |-> op.id, at |-> op.at]>>))
       [] op.type = "clear_canvas" /\ b.strokes # <<>> -> Commit(b, Clearing(b.strokes))
       [] op.type = "delete_object" /\ there -> Commit(b, Removing(<<stroke>>))
       [] op.type = "move_object" /\ there ->
            Commit(b, Changing(stroke, [stroke EXCEPT !.at = Moved(@, op.by)]))
       [] op.type = "resize_object" /\ there ->
            Commit(b, Changing(stroke, [stroke EXCEPT !.at = Scaled(@, op.about, op.by)]))
       [] OTHER -> b

\* The boards a page goes through as it takes in one entry after the other.
Boards(b, entries) ==
  LET after[i \in 0..Len(entries)] ==
        IF i = 0 THEN b ELSE Received(after[i-1], entries[i])
  IN  after

ReceivedAll(b, entries) == Boards(b, entries)[Len(entries)]

Ops(entries) == [i \in DOMAIN entries |-> entries[i].op]

\* What the server says is on the board after so many operations.
Truth(sequence) == StrokesAt(Ops(ledger), sequence)

-----------------------------------------------------------------------------
\* Gestures

Shown(p) == Elements(board[p].strokes)

\* onEndPoint with the pen: the live stroke and the finished one take an id each.
Draw(p) ==
  LET stroke == [id |-> <<p, nextId[p] + 1>>, at |-> Start] IN
  /\ "draw" \in Gestures[p]
  /\ held[p] = <<>>
  /\ board' = [board EXCEPT ![p] = Commit(@, Adding(<<stroke>>))]
  /\ nextId' = [nextId EXCEPT ![p] = @ + 2]
  /\ Emit(p, <<Create(stroke)>>)
  /\ UNCHANGED <<ledger, held, netVars, undos>>

DeleteSelection(p, stroke) ==
  /\ "delete" \in Gestures[p]
  /\ board' = [board EXCEPT ![p] = Commit(@, Removing(<<stroke>>))]
  /\ Emit(p, <<Delete(stroke)>>)
  /\ UNCHANGED <<ledger, nextId, held, netVars, undos>>

\* finishErase: the stroke goes, and what is left of it, if anything, is a
\* new stroke named after the old one.
FinishErase(p, stroke, pieces) ==
  LET left == [i \in 1..pieces |->
                 [id |-> Append(stroke.id, nextId[p] + i - 1), at |-> stroke.at + Start]]
      removed == Commit(board[p], Removing(<<stroke>>))
  IN /\ "erase" \in Gestures[p]
     /\ held[p] = <<>>
     /\ board' = [board EXCEPT ![p] =
                    IF pieces = 0 THEN removed ELSE Commit(removed, Adding(left))]
     /\ nextId' = [nextId EXCEPT ![p] = @ + pieces]
     /\ Emit(p, <<Delete(stroke)>> \o Creates(left))
     /\ UNCHANGED <<ledger, held, netVars, undos>>

ClearBoard(p) ==
  /\ "clear" \in Gestures[p]
  /\ board[p].strokes # <<>>
  /\ board' = [board EXCEPT ![p] = Commit(@, Clearing(@.strokes))]
  /\ Emit(p, <<ClearCanvas>>)
  /\ UNCHANGED <<ledger, nextId, held, netVars, undos>>

\* onBeginObjectDrag, onBeginResize: the stroke is kept as it is now.
Begin(p, gesture, stroke) ==
  /\ gesture \in Gestures[p] \cap {"move", "resize"}
  /\ held[p] = <<>>
  /\ held' = [held EXCEPT ![p] = <<[gesture |-> gesture, stroke |-> stroke]>>]
  /\ UNCHANGED <<ledger, board, version, nextId, outbox, made, netVars, applied, undos>>

\* onEndObjectDrag, onEndResize: the change is made from the stroke as it was
\* when the gesture began.
End(p) ==
  LET from == held[p][1].stroke
      move == held[p][1].gesture = "move"
      at == IF move THEN Moved(from.at, By) ELSE Scaled(from.at, About, Scale)
      stale == HasStroke(board[p].strokes, from.id) /\ from \notin Shown(p)
      op == IF move THEN Move(from.id) ELSE Resize(from.id)
      entry == [page |-> p, token |-> Token(p, made[p] + 1), op |-> op]
  IN /\ held[p] # <<>>
     /\ Total < MaxOps
     /\ held' = [held EXCEPT ![p] = <<>>]
     /\ board' = [board EXCEPT ![p] = Commit(@, Changing(from, [from EXCEPT !.at = at]))]
     /\ outbox' = [outbox EXCEPT ![p] = Append(@, entry)]
     /\ made' = [made EXCEPT ![p] = @ + 1]
     /\ version' = [version EXCEPT ![p] = @ + 1]
     /\ applied' = [applied EXCEPT ![p] =
                      (IF stale THEN Marked(@, Stale(p)) ELSE @) \o <<entry.token>>]
     /\ UNCHANGED <<ledger, nextId, netVars, undos>>

\* onCancelObjectDrag, onCancelResize
Cancel(p) ==
  /\ held[p] # <<>>
  /\ held' = [held EXCEPT ![p] = <<>>]
  /\ UNCHANGED <<ledger, board, version, nextId, outbox, made, netVars, applied, undos>>

\* The undo stack is the page's own business: nothing is emitted.
Travel(p, next) ==
  /\ "undo" \in Gestures[p]
  /\ undos < MaxUndos
  /\ undos' = undos + 1
  /\ board' = [board EXCEPT ![p] = next]
  /\ applied' = [applied EXCEPT ![p] = Marked(@, Undone(p))]
  /\ UNCHANGED <<ledger, version, nextId, held, outbox, made, netVars>>

UndoLast(p) == board[p].past # <<>> /\ Travel(p, Undo(board[p]))

RedoLast(p) == board[p].future # <<>> /\ Travel(p, Redo(board[p]))

-----------------------------------------------------------------------------
\* The server and what the pages learn of it

\* The operations of a page are stored in the order it emitted them.
Store(p) ==
  /\ outbox[p] # <<>>
  /\ ledger' = Append(ledger, Head(outbox[p]))
  /\ outbox' = [outbox EXCEPT ![p] = Tail(@)]
  /\ UNCHANGED <<board, version, nextId, held, made, netVars, applied, undos>>

\* The request of loadFullState, and what is left to apply when it is answered:
\* the operations of a poll behind a restore.  Only the first load of a page
\* leaves an empty answer alone.
Fetch(first, after, upTo) ==
  [since |-> Len(ledger), first |-> first, after |-> after, upTo |-> upTo]

Load(p) == loads' = [loads EXCEPT ![p] = Append(@, Fetch(FALSE, 0, 0))]

\* revertTo of an online page, and onReverted: the server takes the restore if
\* the page's version is the board's.
Revert(p, target) ==
  LET entry == [page |-> p, token |-> Token(p, made[p] + 1),
                op |-> [type |-> "restore_version", strokes |-> Truth(target)]]
  IN /\ "revert" \in Gestures[p]
     /\ Ready(p)
     /\ Total < MaxOps
     /\ version[p] = Len(ledger)
     /\ ledger' = Append(ledger, entry)
     /\ made' = [made EXCEPT ![p] = @ + 1]
     /\ Load(p)
     /\ UNCHANGED <<board, version, nextId, held, outbox, heard, polls, applied, undos>>

\* connection.ready: the socket tells of what comes after this version.
Connect(p) ==
  /\ p \in Live
  /\ ~ Ready(p)
  /\ heard' = [heard EXCEPT ![p] = Len(ledger)]
  /\ UNCHANGED <<ledger, pageVars, polls, loads, applied, undos>>

\* onApplyRemote: the page is told of the next operation.  Its own it has
\* applied already; a restore makes it load the board.
Hear(p) ==
  LET entry == ledger[heard[p] + 1]
      restored == entry.op.type = "restore_version"
      own == entry.page = p /\ ~ restored
  IN /\ Ready(p)
     /\ heard[p] < Len(ledger)
     /\ heard' = [heard EXCEPT ![p] = @ + 1]
     /\ IF restored THEN Load(p) ELSE UNCHANGED loads
     /\ IF own \/ restored
          THEN UNCHANGED <<board, applied>>
          ELSE /\ board' = [board EXCEPT ![p] = Received(@, entry)]
               /\ applied' = [applied EXCEPT ![p] = Append(@, entry.token)]
     /\ UNCHANGED <<ledger, version, nextId, held, outbox, made, polls, undos>>

-----------------------------------------------------------------------------
\* Polls and loads.  What the server read between a request and its answer is
\* chosen when the page takes the answer in.

View(p) == [board |-> board[p], version |-> version[p], applied |-> applied[p]]

Shows(p, view) ==
  /\ board' = [board EXCEPT ![p] = view.board]
  /\ version' = [version EXCEPT ![p] = view.version]
  /\ applied' = [applied EXCEPT ![p] = view.applied]

Restores(after, upTo) ==
  {i \in after + 1..upTo : ledger[i].op.type = "restore_version"}

First(positions) == CHOOSE i \in positions : \A j \in positions : i <= j

\* The loop of a poll over the operations after one sequence and up to another:
\* those before the first restore are applied; there, it loads the board.
Polled(p, view, requests, after, upTo) ==
  LET restores == Restores(after, upTo)
      last == IF restores = {} THEN upTo ELSE First(restores) - 1
      ops == SubSeq(ledger, after + 1, last)
  IN /\ Shows(p, [board |-> ReceivedAll(view.board, ops),
                  version |-> IF ops = <<>> THEN view.version ELSE last,
                  applied |-> view.applied \o Tokens(ops)])
     /\ loads' = [loads EXCEPT ![p] =
                    IF restores = {} THEN requests
                    ELSE Append(requests, Fetch(FALSE, last + 1, upTo))]

Others(requests, i) ==
  SubSeq(requests, 1, i - 1) \o SubSeq(requests, i + 1, Len(requests))

\* startRemotePolling: a tick does not wait for the poll before it.
Ask(p) ==
  /\ ~ Ready(p)
  /\ Len(polls[p]) + Len(loads[p]) < MaxRequests
  /\ polls' = [polls EXCEPT ![p] =
                 Append(@, [cursor |-> version[p], since |-> Len(ledger), late |-> FALSE])]
  /\ UNCHANGED <<ledger, pageVars, heard, loads, applied, undos>>

\* The answer of OperationListView to the i-th poll.
TakePoll(p, i, upTo) ==
  LET poll == polls[p][i]
      view == [View(p) EXCEPT !.applied = IF poll.late THEN Marked(@, Late(p)) ELSE @]
  IN /\ upTo >= poll.since
     /\ polls' = [polls EXCEPT ![p] = Others(@, i)]
     /\ IF poll.cursor < upTo
          THEN Polled(p, view, loads[p], poll.cursor, upTo)
          ELSE /\ Shows(p, [view EXCEPT !.version = IF upTo > @ THEN upTo ELSE @])
               /\ UNCHANGED loads
     /\ UNCHANGED <<ledger, nextId, held, outbox, made, heard, undos>>

PollFails(p, i) ==
  /\ polls' = [polls EXCEPT ![p] = Others(@, i)]
  /\ UNCHANGED <<ledger, pageVars, heard, loads, applied, undos>>

\* loadServerState
LoadedBoard(strokes) ==
  [strokes |-> strokes,
   past |-> IF strokes = <<>> THEN <<>> ELSE <<Adding(strokes)>>,
   future |-> <<>>]

\* Mutant: the page believes to have loaded all there is.
LoadedNewest(seq, upTo) ==
  [board |-> LoadedBoard(Truth(upTo)),
   version |-> Len(ledger),
   applied |-> Tokens(SubSeq(ledger, 1, upTo))]

LoadedView(seq, upTo) ==
  [board |-> LoadedBoard(Truth(upTo)),
   version |-> seq,
   applied |-> Tokens(SubSeq(ledger, 1, upTo))]

\* The answer of WhiteboardStateView: the version is read, then the operations.
\* A poll that asked for it goes on behind the restore.
TakeLoad(p, i, seq, upTo) ==
  LET load == loads[p][i]
      requests == Others(loads[p], i)
      ignored == load.first /\ Truth(upTo) = <<>>
  IN /\ load.since <= seq
     /\ seq <= upTo
     /\ IF ignored
          THEN UNCHANGED polls
          ELSE polls' = [polls EXCEPT ![p] = [k \in DOMAIN @ |-> [@[k] EXCEPT !.late = TRUE]]]
     /\ Polled(p, IF ignored THEN View(p) ELSE LoadedView(seq, upTo),
               requests, load.after, load.upTo)
     /\ UNCHANGED <<ledger, nextId, held, outbox, made, heard, undos>>

\* A failed load keeps whatever is shown.
LoadFails(p, i) ==
  LET load == loads[p][i]
      view == [View(p) EXCEPT !.applied = IF load.first THEN @ ELSE Marked(@, Unloaded(p))]
  IN /\ Polled(p, view, Others(loads[p], i), load.after, load.upTo)
     /\ UNCHANGED <<ledger, nextId, held, outbox, made, heard, polls, undos>>

-----------------------------------------------------------------------------
Init ==
  /\ ledger = [i \in 1..Drawn |->
                [page |-> Nobody, token |-> Token(Nobody, i),
                 op |-> Create([id |-> <<Nobody, i>>, at |-> i])]]
  /\ board = [p \in Pages |-> IF p \in Opened THEN LoadedBoard(Truth(Drawn)) ELSE EmptyBoard]
  /\ version = [p \in Pages |-> IF p \in Opened THEN Drawn ELSE 0]
  /\ nextId = [p \in Pages |-> 1]
  /\ held = [p \in Pages |-> <<>>]
  /\ outbox = [p \in Pages |-> <<>>]
  /\ made = [p \in Pages |-> 0]
  /\ heard = [p \in Pages |-> IF p \in Opened \cap Live THEN Drawn ELSE Connecting]
  /\ polls = [p \in Pages |-> <<>>]
  /\ loads = [p \in Pages |-> IF p \in Opened THEN <<>> ELSE <<Fetch(TRUE, 0, 0)>>]
  /\ applied = [p \in Pages |-> IF p \in Opened THEN Tokens(ledger) ELSE <<>>]
  /\ undos = 0

User(p) ==
  \/ Draw(p)
  \/ ClearBoard(p)
  \/ End(p)
  \/ Cancel(p)
  \/ UndoLast(p)
  \/ RedoLast(p)
  \/ \E stroke \in Shown(p) :
       \/ DeleteSelection(p, stroke)
       \/ \E pieces \in 0..1 : FinishErase(p, stroke, pieces)
       \/ \E gesture \in {"move", "resize"} : Begin(p, gesture, stroke)
  \/ \E target \in 1..Len(ledger) - 1 : Revert(p, target)

Learn(p) ==
  \/ Store(p)
  \/ Connect(p)
  \/ Hear(p)
  \/ Ask(p)
  \/ \E i \in DOMAIN polls[p] :
       PollFails(p, i) \/ \E upTo \in 0..Len(ledger) : TakePoll(p, i, upTo)
  \/ \E i \in DOMAIN loads[p] :
       LoadFails(p, i) \/ \E seq, upTo \in 0..Len(ledger) : TakeLoad(p, i, seq, upTo)

Next == \E p \in Pages : User(p) \/ Learn(p)

Spec == Init /\ [][Next]_vars

-----------------------------------------------------------------------------
\* Properties

\* Every part of the state is of its kind, the ids on a board are distinct, and
\* no page knows of operations the board does not have.
TypeOK ==
  /\ \A p \in Pages :
       /\ \A s, t \in DOMAIN board[p].strokes :
            board[p].strokes[s].id = board[p].strokes[t].id => s = t
       /\ version[p] \in 0..Len(ledger) + Len(outbox[p])
       /\ heard[p] \in Connecting..Len(ledger)
       /\ Len(held[p]) \in 0..1
       /\ Len(polls[p]) <= MaxRequests
  /\ undos \in 0..MaxUndos
  /\ Len(ledger) <= Drawn + MaxOps

\* What is left of an erased stroke is named after it and numbered by the page
\* (engine.ts:485), and the numbers of all pages start at 1: pages that erase
\* the same stroke can name two pieces alike.  The server then takes the second
\* for the first, while the pages keep the one they had.
Pieces(p) ==
  {e.op.id : e \in {entry \in Elements(ledger) \cup Elements(outbox[p]) :
                     /\ entry.page = p
                     /\ entry.op.type = "create_stroke"
                     /\ Len(entry.op.id) > 2}}

NamedApart == \A p, q \in Pages : p # q => Pieces(p) \cap Pieces(q) = {}

\* The engine and the server give operations the same meaning: a page that has
\* applied the first operations of the ledger, each once and in their order,
\* shows what the server replays from them, stroke by stroke and in z-order,
\* whether it drew them, heard of them, polled them or loaded them, and
\* whatever gestures were under way, as long as no two pages name a piece alike.
AgreesWithReplay ==
  NamedApart => \A p \in Pages :
    LET count == Len(applied[p]) IN
    (count <= Len(ledger) /\ applied[p] = Tokens(SubSeq(ledger, 1, count)))
      => board[p].strokes = Truth(count)

AllApplied(p) == Elements(applied[p])

\* No operation was applied twice and no gesture was made on a stale stroke.
Straight(p) ==
  /\ \A i, j \in DOMAIN applied[p] : applied[p][i] = applied[p][j] => i = j
  /\ Stale(p) \notin AllApplied(p)

\* The undo stack explains the board: replaying it gives the strokes that are
\* shown, so that undo and redo neither lose a stroke nor bring back what the
\* partner deleted, also across the partner's operations and the loads (their
\* z-order is not kept: a removed stroke comes back on top).  It holds as long
\* as the page applied each operation once, and to the strokes it was made from,
\* and no two pages name a piece alike.
StackExplainsBoard ==
  NamedApart => \A p \in Pages :
    Straight(p) => Elements(Stages(board[p].past)[Len(board[p].past)]) = Shown(p)

\* A page that only watches never misses an operation below its version, however
\* its polls fail and however its socket, its loads and its polls race, as long
\* as no restore failed to load and no poll was answered for a board that a load
\* has replaced in the meantime.
WatcherMissesNothing ==
  \A p \in Pages :
    made[p] = 0 /\ {Unloaded(p), Late(p)} \cap AllApplied(p) = {}
      => Elements(Tokens(SubSeq(ledger, 1, version[p]))) \subseteq AllApplied(p)

\* What conflict-strategy.md promises: when everything is stored and every page
\* has learned all it will, all of them show the strokes the server has.
Quiet ==
  \A p \in Pages :
    /\ outbox[p] = <<>> /\ held[p] = <<>> /\ loads[p] = <<>>
    /\ Undone(p) \notin AllApplied(p) /\ Unloaded(p) \notin AllApplied(p)
    /\ polls[p] = <<>>
    /\ IF Ready(p) THEN heard[p] = Len(ledger) ELSE version[p] = Len(ledger)

Converges == Quiet => \A p \in Pages : Shown(p) = Elements(Truth(Len(ledger)))
=============================================================================
