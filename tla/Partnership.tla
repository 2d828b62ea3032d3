----------------------------- MODULE Partnership -----------------------------
(***************************************************************************)
(* Invitations, partnerships and memberships: apps/partnerships/services.py*)
(* as its views call it, on PostgreSQL with READ COMMITTED transactions.   *)
(*                                                                         *)
(* create_invitation makes one partnership with one invitation, so both    *)
(* carry the same number.  A request is a worker that goes from one        *)
(* statement that can wait for a lock, or that reads what another request  *)
(* may change, to the next.  Its uncommitted writes stay with the worker   *)
(* until its transaction commits; the locks it holds follow from where it  *)
(* is.                                                                     *)
(*                                                                         *)
(* Left out: tokens and e-mail, the event and notification tables, the     *)
(* rate limits of the views, and requests of a user who is not allowed to  *)
(* make them, except accept and reject, whose check is part of the         *)
(* transaction.  A user is its own e-mail address.                         *)
(***************************************************************************)
EXTENDS Naturals, FiniteSets

CONSTANTS
  Users,
  Workers,          \* requests that can run at a time
  MaxInvitations,   \* bound on create_invitation
  Expires,          \* invitations may expire
  Resends           \* the resend button is used

ASSUME InvitationsAssumption == MaxInvitations \in Nat
ASSUME FlagsAssumption == Expires \in BOOLEAN /\ Resends \in BOOLEAN

VARIABLES
  inv,              \* invitation: inviter, invitee, status, expires_at passed
  status,           \* partnership: status
  members,          \* partnership: users with an ACTIVE membership
  call              \* what each worker is doing

vars == <<inv, status, members, call>>

Invitations == 1..MaxInvitations

NoInvitation == [from |-> {}, to |-> {}, status |-> "NONE", expired |-> FALSE]

\* A request that goes on reads the invitation as it was fetched: seen.
Idle == [at |-> "idle", user |-> {}, peer |-> {}, id |-> 0, seen |-> "NONE"]

Sent(i) == inv[i].status = "SENT"

Fresh == {i \in Invitations : inv[i].status = "NONE"}

SentBetween(a, b) == {i \in Invitations : Sent(i) /\ inv[i].from = {a} /\ inv[i].to = {b}}

\* _has_any_active_membership, and the index that allows one per user.
Taken(u) == \E i \in Invitations : u \in members[i]

\* _has_connected_partnership.
Connected(u) == \E i \in Invitations : u \in members[i] /\ status[i] = "ACTIVE"

\* Rows locked by a transaction that has not committed.
InvitationFree(i) == \A w \in Workers : ~(call[w].at = "cancel" /\ call[w].id = i)

PartnershipFree(i) == \A w \in Workers : ~(call[w].at \in {"join", "sign"} /\ call[w].id = i)

\* A membership of the user that is inserted and not committed.
Claimed(u) == \E w \in Workers : call[w].at = "sign" /\ call[w].user = {u}

NeverLocked(a, b) == TRUE                                   \* mutant

\* pg_advisory_xact_lock on the pair of addresses.
PairFree(a, b) ==
  \A w \in Workers : ~(call[w].at = "insert" /\ call[w].user \cup call[w].peer = {a, b})

-----------------------------------------------------------------------------
Init ==
  /\ inv = [i \in Invitations |-> NoInvitation]
  /\ status = [i \in Invitations |-> "NONE"]
  /\ members = [i \in Invitations |-> {}]
  /\ call = [w \in Workers |-> Idle]

Go(w, at) == call' = [call EXCEPT ![w].at = at]

Done(w) == call' = [call EXCEPT ![w] = Idle]

\* A view fetches invitation i and calls the service, which goes by the
\* status it is given or locks the row and reads it anew.
Begin(w, at, u, i, seen) ==
  /\ call[w] = Idle
  /\ i \notin Fresh
  /\ call' = [call EXCEPT ![w] = [at |-> at, user |-> {u}, peer |-> {}, id |-> i,
                                  seen |-> seen]]
  /\ UNCHANGED <<inv, status, members>>

\* The requests: by the inviter, or by anybody.
Ask(w) ==
  \E i \in Invitations, u \in Users :
    \/ inv[i].from = {u} /\ Resends /\ Begin(w, "resend", u, i, inv[i].status)
    \/ inv[i].from = {u} /\ Begin(w, "revoke", u, i, inv[i].status)
    \/ Begin(w, "expire", u, i, "NONE")
    \/ Begin(w, "reject", u, i, "NONE")

\* invite_landing, by whoever has the link: the invitation that was fetched
\* is SENT and has expired.
Land(w, i) ==
  /\ Sent(i) /\ inv[i].expired
  /\ \E u \in inv[i].to : Begin(w, "land", u, i, "SENT")

Invite(w, a, b) ==
  /\ call[w] = Idle
  /\ a # b
  /\ Fresh # {}
  /\ call' = [call EXCEPT ![w] = [Idle EXCEPT !.at = "create", !.user = {a}, !.peer = {b}]]
  /\ UNCHANGED <<inv, status, members>>

-----------------------------------------------------------------------------
(* create_invitation and resend_invitation.                                 *)

User(w) == CHOOSE u \in Users : call[w].user = {u}

Peer(w) == CHOOSE u \in Users : call[w].peer = {u}

\* A reissued invitation is SENT and has its full time again.
Reissued(i) == inv' = [inv EXCEPT ![i].status = "SENT", ![i].expired = FALSE]

\* The pair lock and the checks under it.  An invitation that is still SENT
\* is locked and issued again in the same transaction.
Create(w) ==
  LET a == User(w)
      b == Peer(w)
  IN  /\ call[w].at = "create"
      /\ PairFree(a, b)
      /\ \/ /\ Connected(a) \/ SentBetween(b, a) # {}
            /\ Done(w) /\ UNCHANGED inv
         \/ /\ ~Connected(a) /\ SentBetween(b, a) = {}
            /\ \E i \in SentBetween(a, b) : InvitationFree(i) /\ Reissued(i)
            /\ Done(w)
         \/ /\ ~Connected(a) /\ SentBetween(b, a) = {} /\ SentBetween(a, b) = {}
            /\ IF Taken(a) THEN Done(w) ELSE Go(w, "insert")
            /\ UNCHANGED inv
      /\ UNCHANGED <<status, members>>

\* The inserts; the unique indexes refuse a second active membership or a
\* second SENT invitation of the pair.
Insert(w) ==
  LET a == User(w)
      b == Peer(w)
      i == CHOOSE i \in Fresh : TRUE
  IN  /\ call[w].at = "insert"
      /\ ~Claimed(a)
      /\ IF Taken(a) \/ SentBetween(a, b) # {} \/ Fresh = {}
           THEN UNCHANGED <<inv, status, members>>
           ELSE /\ inv' = [inv EXCEPT ![i] = [from |-> {a}, to |-> {b}, status |-> "SENT",
                                              expired |-> FALSE]]
                /\ status' = [status EXCEPT ![i] = "PENDING"]
                /\ members' = [members EXCEPT ![i] = {a}]
      /\ Done(w)

\* resend_invitation judges the invitation as the view fetched it.
Resend(w) ==
  /\ call[w].at = "resend"
  /\ IF call[w].seen \in {"SENT", "EXPIRED"} /\ ~Connected(User(w))
       THEN call' = [call EXCEPT ![w].at = "reissue", ![w].seen = "NONE"]
       ELSE Done(w)
  /\ UNCHANGED <<inv, status, members>>

Reissue(w) ==
  LET i == call[w].id
      others == {j \in Invitations : /\ j # i /\ Sent(j)
                                     /\ inv[j].from = inv[i].from /\ inv[j].to = inv[i].to}
  IN  /\ call[w].at = "reissue"
      /\ InvitationFree(i)
      /\ IF others = {} THEN Reissued(i) ELSE UNCHANGED inv
      /\ Done(w)
      /\ UNCHANGED <<status, members>>

-----------------------------------------------------------------------------
(* revoke_invitation and reject_invitation.                                 *)

\* revoke_invitation judges the invitation as the view fetched it.
Revoke(w) ==
  /\ call[w].at = "revoke"
  /\ IF call[w].seen = "SENT"
       THEN /\ InvitationFree(call[w].id)
            /\ call' = [call EXCEPT ![w].at = "cancel", ![w].seen = "REVOKED"]
       ELSE Done(w)
  /\ UNCHANGED <<inv, status, members>>

\* The status of the invitation, not of its partnership.
Rejected == "REJECTED"

\* reject_invitation locks it and looks again.
Reject(w) ==
  LET i == call[w].id
  IN  /\ call[w].at = "reject"
      /\ InvitationFree(i)
      /\ IF Sent(i) /\ inv[i].to = call[w].user
           THEN call' = [call EXCEPT ![w].at = "cancel", ![w].seen = Rejected]
           ELSE Done(w)
      /\ UNCHANGED <<inv, status, members>>

CancelsAny(i) == status[i] # "NONE"                         \* mutant

\* Only a partnership that is still pending is cancelled.
Cancels(i) == status[i] = "PENDING"

\* Both then lock the partnership and commit.
Cancel(w) ==
  LET i == call[w].id
  IN  /\ call[w].at = "cancel"
      /\ PartnershipFree(i)
      /\ inv' = [inv EXCEPT ![i].status = call[w].seen]
      /\ IF Cancels(i)
           THEN /\ status' = [status EXCEPT ![i] = "CANCELLED"]
                /\ members' = [members EXCEPT ![i] = {}]
           ELSE UNCHANGED <<status, members>>
      /\ Done(w)

-----------------------------------------------------------------------------
(* accept_invitation.                                                       *)

\* _mark_expired_invitation, in a transaction of its own.
MarkExpired(w) ==
  LET i == call[w].id
  IN  /\ call[w].at = "expire"
      /\ InvitationFree(i)
      /\ inv' = IF Sent(i) /\ inv[i].expired
                  THEN [inv EXCEPT ![i].status = "EXPIRED"] ELSE inv
      /\ Go(w, "validate")
      /\ UNCHANGED <<status, members>>

\* The first transaction checks the invitation and lets go of its lock.
Validate(w) ==
  LET i == call[w].id
  IN  /\ call[w].at = "validate"
      /\ InvitationFree(i)
      /\ IF Sent(i) /\ inv[i].to = call[w].user THEN Go(w, "activate") ELSE Done(w)
      /\ UNCHANGED <<inv, status, members>>

JoinableUnlessFull(i) == status[i] # "NONE"                 \* mutant

\* The partnership is still there to be joined.
Joinable(i) == status[i] = "PENDING"

\* The second transaction locks the partnership and checks it.
Activate(w) ==
  LET i == call[w].id
  IN  /\ call[w].at = "activate"
      /\ PartnershipFree(i)
      /\ IF Joinable(i) /\ ~Taken(User(w)) /\ Cardinality(members[i]) < 2
           THEN Go(w, "join") ELSE Done(w)
      /\ UNCHANGED <<inv, status, members>>

NoIndex(u) == TRUE                                          \* mutant

\* uniq_one_active_membership_per_user and the trigger.
IndexAllows(u) == ~Taken(u)

\* The membership is inserted; a membership of the same user that is not
\* committed is waited for, and a committed one is an IntegrityError.
Join(w) ==
  /\ call[w].at = "join"
  /\ ~Claimed(User(w))
  /\ IF IndexAllows(User(w)) THEN Go(w, "sign") ELSE Done(w)
  /\ UNCHANGED <<inv, status, members>>

\* The row of the invitation is written last, then all of it commits.
Sign(w) ==
  LET i == call[w].id
  IN  /\ call[w].at = "sign"
      /\ InvitationFree(i)
      /\ inv' = [inv EXCEPT ![i].status = "ACCEPTED"]
      /\ status' = [status EXCEPT ![i] = "ACTIVE"]
      /\ members' = [members EXCEPT ![i] = @ \cup {User(w)}]
      /\ Done(w)

NeverBroken(w, v) == FALSE                                  \* mutant

\* An accept and a revoke or reject wait for the row the other one holds.
Deadlocked(w, v) ==
  /\ call[w].id = call[v].id
  /\ call[w].at = "sign" /\ call[v].at = "cancel"

\* PostgreSQL ends one of them.
BreakDeadlock(w) ==
  /\ \E v \in Workers : Deadlocked(w, v) \/ Deadlocked(v, w)
  /\ Done(w)
  /\ UNCHANGED <<inv, status, members>>

-----------------------------------------------------------------------------
(* The rest.                                                                *)

\* invite_landing writes EXPIRED without looking again.
LandExpired(w) ==
  /\ call[w].at = "land"
  /\ InvitationFree(call[w].id)
  /\ inv' = [inv EXCEPT ![call[w].id].status = "EXPIRED"]
  /\ Done(w)
  /\ UNCHANGED <<status, members>>

\* end_partnership: one lock, one transaction.
EndPartnership(i, u) ==
  /\ PartnershipFree(i)
  /\ status[i] = "ACTIVE"
  /\ u \in members[i]
  /\ status' = [status EXCEPT ![i] = "ENDED"]
  /\ members' = [members EXCEPT ![i] = {}]
  /\ UNCHANGED <<inv, call>>

\* expires_at passes; it matters to a SENT invitation only.
Expire(i) ==
  /\ Expires
  /\ Sent(i)
  /\ ~inv[i].expired
  /\ inv' = [inv EXCEPT ![i].expired = TRUE]
  /\ UNCHANGED <<status, members, call>>

Work(w) ==
  \/ Create(w) \/ Insert(w) \/ Resend(w) \/ Reissue(w)
  \/ Revoke(w) \/ Reject(w) \/ Cancel(w)
  \/ MarkExpired(w) \/ Validate(w) \/ Activate(w) \/ Join(w) \/ Sign(w)
  \/ BreakDeadlock(w)
  \/ LandExpired(w)

Next ==
  \/ \E w \in Workers :
       \/ Ask(w) \/ Work(w)
       \/ \E a, b \in Users : Invite(w, a, b)
       \/ \E i \in Invitations : Land(w, i)
  \/ \E i \in Invitations : Expire(i) \/ \E u \in Users : EndPartnership(i, u)

Spec == Init /\ [][Next]_vars

\* A request that can go on does, and the database breaks its deadlocks.
FairSpec == Spec /\ \A w \in Workers : WF_vars(Work(w))

-----------------------------------------------------------------------------
(* Properties.                                                              *)

TypeOK ==
  /\ inv \in [Invitations ->
       [from : SUBSET Users, to : SUBSET Users, expired : BOOLEAN,
        status : {"NONE", "SENT", "ACCEPTED", "REJECTED", "REVOKED", "EXPIRED"}]]
  /\ status \in [Invitations -> {"NONE", "PENDING", "ACTIVE", "ENDED", "CANCELLED"}]
  /\ members \in [Invitations -> SUBSET Users]
  /\ call \in [Workers ->
       [at : {"idle", "create", "insert", "resend", "reissue", "revoke", "reject", "cancel",
              "expire", "validate", "activate", "join", "sign", "land"},
        user : SUBSET Users, peer : SUBSET Users, id : 0..MaxInvitations,
        seen : {"NONE", "SENT", "ACCEPTED", "REJECTED", "REVOKED", "EXPIRED"}]]

\* A pending partnership has its inviter as only member, an active one the
\* two people of its invitation, and one that is over has nobody: no order of
\* accepting, revoking, rejecting and ending leaves half a partnership.
MembersFitStatus ==
  \A i \in Invitations :
    /\ status[i] = "PENDING" => members[i] = inv[i].from
    /\ status[i] = "ACTIVE" => members[i] = inv[i].from \cup inv[i].to
    /\ status[i] \notin {"PENDING", "ACTIVE"} => members[i] = {}

\* Nobody is an active member of two partnerships, whichever of their
\* invitations are accepted and created at the same time.
OneEach ==
  \A i, j \in Invitations : i # j => members[i] \cap members[j] = {}

\* A partnership never becomes active after its invitation was revoked or
\* rejected, although accept checks the invitation in an earlier transaction.
RefusedNeverActivates ==
  [][\A i \in Invitations :
       inv[i].status \in {"REVOKED", "REJECTED"} /\ status[i] # "ACTIVE"
         => status'[i] # "ACTIVE"]_vars

\* Two people who do not resend never have invitations to each other that
\* both wait for an answer, though both may be created at the same moment.
NotMutual ==
  \A i, j \in Invitations : Sent(i) /\ Sent(j) => ~(inv[i].from = inv[j].to /\ inv[i].to = inv[j].from)

\* A request does not wait for a lock forever.
RequestsEnd == \A w \in Workers : call[w] # Idle ~> call[w] = Idle

\* What Pairing sees of the tables.
pairs == [i \in Invitations |-> [state |-> status[i], people |-> members[i]]]

P == INSTANCE Pairing WITH Slots <- Invitations, pair <- pairs

\* The requests implement Pairing.
ImplementsPairing == P!Spec

=============================================================================
