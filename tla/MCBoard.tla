------------------------------ MODULE MCBoard -------------------------------
(***************************************************************************)
(* Small instances of Board for TLC: p1 draws, deletes and reverts, p2     *)
(* opens the board later, drags or erases what it finds there and undoes.  *)
(* The operations and the steps of undo and redo are counted, and a page   *)
(* marks a hazard once, so the state space is finite.                      *)
(***************************************************************************)
EXTENDS Board, TLC

CONSTANTS p1, p2

SplitGestures ==
  (p1 :> {"draw", "delete", "revert"})
    @@ (p2 :> {"move", "resize", "erase", "clear", "undo"})
=============================================================================
