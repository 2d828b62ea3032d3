------------------------------ MODULE Keeping -------------------------------
(***************************************************************************)
(* What Array.filter and list.remove leave of a list: the members at some  *)
(* of its positions, in their order.  Shared by the strokes of a page and  *)
(* the z-order of the server's replay.                                     *)
(***************************************************************************)
EXTENDS Naturals, Sequences

\* The positions up to each i that are among those given, in order.
Positions(n, among) ==
  LET upTo[i \in 0..n] ==
        IF i = 0 THEN <<>>
        ELSE IF i \in among THEN Append(upTo[i-1], i) ELSE upTo[i-1]
  IN  upTo

Keep(s, among) ==
  LET kept == Positions(Len(s), among)[Len(s)]
  IN  [k \in 1..Len(kept) |-> s[kept[k]]]
=============================================================================
