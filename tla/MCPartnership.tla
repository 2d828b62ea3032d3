---------------------------- MODULE MCPartnership ----------------------------
(***************************************************************************)
(* Small instances of Partnership for TLC.  Users and workers are          *)
(* interchangeable.                                                        *)
(***************************************************************************)
EXTENDS Partnership, TLC

Symmetry == Permutations(Users) \cup Permutations(Workers)
=============================================================================
