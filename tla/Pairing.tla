------------------------------- MODULE Pairing -------------------------------
(***************************************************************************)
(* What apps/partnerships promises, without requests, invitations, locks   *)
(* or transactions: one person opens a partnership, a second one may join  *)
(* it, and it closes for good.  Nobody is in two at once.                  *)
(***************************************************************************)
CONSTANTS
  Users,
  Slots             \* partnerships that may be opened

VARIABLE pair       \* the state of each partnership and the people in it

Init == pair = [s \in Slots |-> [state |-> "NONE", people |-> {}]]

Alone(u) == \A s \in Slots : u \notin pair[s].people

Propose(s, u) ==
  /\ pair[s].state = "NONE"
  /\ Alone(u)
  /\ pair' = [pair EXCEPT ![s] = [state |-> "PENDING", people |-> {u}]]

Join(s, u) ==
  /\ pair[s].state = "PENDING"
  /\ Alone(u)
  /\ pair' = [pair EXCEPT ![s] = [state |-> "ACTIVE", people |-> @.people \cup {u}]]

\* Withdrawn or refused before anyone joined.
Cancel(s) ==
  /\ pair[s].state = "PENDING"
  /\ pair' = [pair EXCEPT ![s] = [state |-> "CANCELLED", people |-> {}]]

Leave(s) ==
  /\ pair[s].state = "ACTIVE"
  /\ pair' = [pair EXCEPT ![s] = [state |-> "ENDED", people |-> {}]]

Next ==
  \E s \in Slots :
    \/ \E u \in Users : Propose(s, u) \/ Join(s, u)
    \/ Cancel(s) \/ Leave(s)

Spec == Init /\ [][Next]_pair
=============================================================================
