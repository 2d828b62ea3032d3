------------------------- MODULE MCWhiteboardLedger -------------------------
(***************************************************************************)
(* Small instances of WhiteboardLedger for TLC.  The ids bound the ledger: *)
(* an operation id is stored once, so version stays below the number of    *)
(* ids and no other bound is needed.                                       *)
(***************************************************************************)
EXTENDS WhiteboardLedger, TLC

\* Workers and the ids of edits are interchangeable.
Symmetry == Permutations(Workers) \cup Permutations(OpIds)
=============================================================================
