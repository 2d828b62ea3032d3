------------------------------- MODULE OpLog -------------------------------
(***************************************************************************)
(* What the operation ledger of one whiteboard promises its callers,       *)
(* whatever the transactions, locks and retries underneath: a list of      *)
(* operation ids that only grows, at its end, by whole groups, never       *)
(* holds an id twice, and does not grow while the board is archived        *)
(* (apps/whiteboard/models.py, WhiteboardOperation and Whiteboard.status). *)
(***************************************************************************)
EXTENDS Naturals, Sequences

CONSTANT Ids        \* operation ids

VARIABLES
  log,              \* the ids of the applied operations, in sequence order
  open              \* FALSE while the board is archived

vars == <<log, open>>

Distinct(s) == \A j, k \in DOMAIN s : s[j] = s[k] => j = k

TypeOK ==
  /\ log \in Seq(Ids)
  /\ open \in BOOLEAN

Init ==
  /\ log = <<>>
  /\ open = TRUE

\* One accepted request: what was there stays where it was, new ids follow.
Accept ==
  /\ open
  /\ log' \in Seq(Ids)
  /\ Len(log') > Len(log)
  /\ \A k \in 1..Len(log) : log'[k] = log[k]
  /\ Distinct(log')
  /\ UNCHANGED open

Close ==
  /\ open' = FALSE
  /\ UNCHANGED log

Reopen ==
  /\ open' = TRUE
  /\ UNCHANGED log

Next == Accept \/ Close \/ Reopen

Spec == Init /\ [][Next]_vars
=============================================================================
