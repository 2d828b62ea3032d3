---------------------------- MODULE MCSyncEngine ----------------------------
(***************************************************************************)
(* Small instances of SyncEngine for TLC.  The ids are few, each is drawn  *)
(* once, and faults and openings are counted, so the state space is finite *)
(* without a constraint.                                                   *)
(***************************************************************************)
EXTENDS SyncEngine, TLC

OwnIds == {1, 2}

OneId == {1}

PartnersIds == {101}

EachLater == {1}         \* no two operations in one millisecond

\* Without a socket the pages are interchangeable.
Symmetry == Permutations(Tabs)
=============================================================================
