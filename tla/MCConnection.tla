----------------------------- MODULE MCConnection -----------------------------
EXTENDS Connection, TLC

CONSTANTS p1, p2, alice

Tabs == p1 :> alice @@ p2 :> alice

(***************************************************************************)
(* Two tabs of one person compete for one slot; one tab meets everything.  *)
(***************************************************************************)
AllScenes ==
    {[pages |-> {p1, p2}, faults |-> 1, ends |-> FALSE, archives |-> FALSE],
     [pages |-> {p1}, faults |-> 1, ends |-> TRUE, archives |-> TRUE]}
=============================================================================
