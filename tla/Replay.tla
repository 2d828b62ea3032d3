------------------------------- MODULE Replay -------------------------------
(***************************************************************************)
(* Replaying operations into the strokes of a board                        *)
(* (apps/whiteboard/state_reconstruction.py, selectors.py, restore.py).    *)
(*                                                                         *)
(* The points of a stroke are abstracted to one coordinate, "at": a move   *)
(* adds to it, a resize scales it about an anchor, and the two do not      *)
(* commute.  Color, width, opacity and creator never change and are left   *)
(* out.                                                                    *)
(***************************************************************************)
EXTENDS Keeping, Integers

\* A ReconstructedState: the objects by id, and the ids from bottom to top.
NoObjects == [objects |-> [id \in {} |-> 0], order |-> <<>>]

Moved(at, by) == at + by

Scaled(at, about, by) == about + (at - about) * by

Without(order, id) == Keep(order, {i \in DOMAIN order : order[i] # id})

ObjectIds(state) == DOMAIN state.objects

Upsert(state, id, at) ==
  [objects |-> [other \in ObjectIds(state) \cup {id} |->
                  IF other = id THEN at ELSE state.objects[other]],
   order |-> Append(Without(state.order, id), id)]

Drop(state, id) ==
  [objects |-> [other \in ObjectIds(state) \ {id} |-> state.objects[other]],
   order |-> Without(state.order, id)]

NewPlace(at, op) ==
  IF op.type = "move_object" THEN Moved(at, op.by) ELSE Scaled(at, op.about, op.by)

\* An operation on an object that is no longer there does nothing.
Patch(state, op) ==
  IF op.id \in ObjectIds(state)
    THEN [state EXCEPT !.objects[op.id] = NewPlace(@, op)] ELSE state

Snapshot(strokes) ==
  [objects |-> [id \in {strokes[i].id : i \in DOMAIN strokes} |->
                  (CHOOSE s \in {strokes[i] : i \in DOMAIN strokes} : s.id = id).at],
   order |-> [i \in DOMAIN strokes |-> strokes[i].id]]

\* WhiteboardStateBuilder.apply
ApplyOp(state, op) ==
  CASE op.type = "create_stroke" -> Upsert(state, op.id, op.at)
    [] op.type = "delete_object" -> Drop(state, op.id)
    [] op.type = "clear_canvas" -> NoObjects
    [] op.type \in {"move_object", "resize_object"} -> Patch(state, op)
    [] op.type = "restore_version" -> Snapshot(op.strokes)

\* The states replay goes through: before the first operation, after it, ...
States(ops) ==
  LET state[i \in 0..Len(ops)] ==
        IF i = 0 THEN NoObjects ELSE ApplyOp(state[i-1], ops[i])
  IN  state

\* reconstruct_state
ReplayAll(ops) == States(ops)[Len(ops)]

\* The list the state API sends and a restore stores: the objects in z-order.
InOrder(state) ==
  [i \in DOMAIN state.order |->
     [id |-> state.order[i], at |-> state.objects[state.order[i]]]]

\* reconstruct_state_at
StrokesAt(ops, sequence) == InOrder(ReplayAll(SubSeq(ops, 1, sequence)))
=============================================================================
