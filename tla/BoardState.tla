----------------------------- MODULE BoardState -----------------------------
(***************************************************************************)
(* The board of a page (frontend/src/whiteboard/state.ts): its strokes from *)
(* bottom to top, the operations it committed, and those it has undone.    *)
(* Pure definitions; engine.ts, in Board, applies them.                    *)
(***************************************************************************)
EXTENDS Keeping

EmptyBoard == [strokes |-> <<>>, past |-> <<>>, future |-> <<>>]

Elements(strokes) == {strokes[i] : i \in DOMAIN strokes}

\* hasStroke
HasStroke(strokes, id) == \E s \in Elements(strokes) : s.id = id

\* strokeById
StrokeById(strokes, id) == CHOOSE s \in Elements(strokes) : s.id = id

\* The local operations, as state.ts writes them.
Adding(strokes) == [type |-> "add", strokes |-> strokes]

Removing(strokes) == [type |-> "remove", strokes |-> strokes]

Clearing(strokes) == [type |-> "clear", strokes |-> strokes]

\* A move or a resize: what a stroke was and what it is.
Changing(from, to) == [type |-> "change", from |-> from, to |-> to]

\* Mutant: a move or a resize is done again.
InvertOpNotChange(op) ==
  CASE op.type = "add" -> Removing(op.strokes)
    [] op.type \in {"remove", "clear"} -> Adding(op.strokes)
    [] op.type = "change" -> op

InvertOp(op) ==
  CASE op.type = "add" -> Removing(op.strokes)
    [] op.type \in {"remove", "clear"} -> Adding(op.strokes)
    [] op.type = "change" -> Changing(op.to, op.from)

\* Mutant: a stroke that is there already is added again.
FreshOrNot(strokes, added) == added

Fresh(strokes, added) ==
  Keep(added, {i \in DOMAIN added : ~ HasStroke(strokes, added[i].id)})

NextStrokes(strokes, op) ==
  CASE op.type = "add" -> strokes \o Fresh(strokes, op.strokes)
    [] op.type = "remove" ->
         Keep(strokes, {i \in DOMAIN strokes : ~ HasStroke(op.strokes, strokes[i].id)})
    [] op.type = "clear" -> <<>>
    [] op.type = "change" ->
         [i \in DOMAIN strokes |-> IF strokes[i].id = op.to.id THEN op.to ELSE strokes[i]]

\* The strokes before the first operation of a stack, after it, ...
Stages(ops) ==
  LET strokes[i \in 0..Len(ops)] ==
        IF i = 0 THEN <<>> ELSE NextStrokes(strokes[i-1], ops[i])
  IN  strokes

\* A new operation discards what was undone.
Commit(board, op) ==
  [strokes |-> NextStrokes(board.strokes, op),
   past |-> Append(board.past, op),
   future |-> <<>>]

Newest(ops) == ops[Len(ops)]

Shorter(ops) == SubSeq(ops, 1, Len(ops) - 1)

Undo(board) ==
  [strokes |-> NextStrokes(board.strokes, InvertOp(Newest(board.past))),
   past |-> Shorter(board.past),
   future |-> Append(board.future, Newest(board.past))]

Redo(board) ==
  [strokes |-> NextStrokes(board.strokes, Newest(board.future)),
   past |-> Append(board.past, Newest(board.future)),
   future |-> Shorter(board.future)]
=============================================================================
