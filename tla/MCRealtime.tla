----------------------------- MODULE MCRealtime -----------------------------
(***************************************************************************)
(* Small instances of Realtime for TLC.  An id enters the log once, and    *)
(* connections and repeats are counted, so the state space is finite.      *)
(***************************************************************************)
EXTENDS Realtime, TLC

\* Pages are interchangeable, and so are operations of one kind.
Symmetry ==
  Permutations(Pages) \cup Permutations(Restores) \cup Permutations(Ids \ Restores)
=============================================================================
