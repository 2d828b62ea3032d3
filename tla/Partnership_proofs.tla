------------------------- MODULE Partnership_proofs -------------------------
(***************************************************************************)
(* Proofs about Partnership, for any users, workers and number of          *)
(* invitations.                                                            *)
(***************************************************************************)
EXTENDS Partnership, TLAPS

\* An invitation and its partnership are made together, by two people, and
\* one that is pending was neither refused nor accepted.
InvitationInv ==
  \A i \in Invitations :
    /\ (inv[i].status = "NONE") <=> (status[i] = "NONE")
    /\ status[i] = "PENDING" => inv[i].status \in {"SENT", "EXPIRED"}
    /\ status[i] # "NONE" =>
         \E a, b \in Users : a # b /\ inv[i].from = {a} /\ inv[i].to = {b}

InvType ==
  [from : SUBSET Users, to : SUBSET Users, expired : BOOLEAN,
   status : {"NONE", "SENT", "ACCEPTED", "REJECTED", "REVOKED", "EXPIRED"}]

CallType ==
  [at : {"idle", "create", "insert", "resend", "reissue", "revoke", "reject", "cancel",
         "expire", "validate", "activate", "join", "sign", "land"},
   user : SUBSET Users, peer : SUBSET Users, id : 0..MaxInvitations,
   seen : {"NONE", "SENT", "ACCEPTED", "REJECTED", "REVOKED", "EXPIRED"}]

\* What a request knows at the point it has reached.
CallFits(c) ==
  /\ c.at \in {"create", "insert"} =>
       \E a, b \in Users : a # b /\ c.user = {a} /\ c.peer = {b}
  /\ c.at \notin {"idle", "create", "insert"} =>
       /\ c.id \in Invitations
       /\ status[c.id] # "NONE"
       /\ \E u \in Users : c.user = {u}
  /\ c.at \in {"activate", "join", "sign"} => inv[c.id].to = c.user
  /\ c.at \in {"join", "sign"} => status[c.id] = "PENDING"
  /\ c.at = "sign" => \A i \in Invitations : c.user \cap members[i] = {}
  /\ c.at = "cancel" => c.seen \in {"REVOKED", "REJECTED"}

CallInv == \A w \in Workers : CallFits(call[w])

\* Two accepts under way are for two partnerships and two users.
Apart(c, d) ==
  /\ ~(c.at \in {"join", "sign"} /\ d.at \in {"join", "sign"} /\ c.id = d.id)
  /\ ~(c.at = "sign" /\ d.at = "sign" /\ c.user = d.user)

LockInv == \A v, w \in Workers : v # w => Apart(call[v], call[w])

IInv == TypeOK /\ InvitationInv /\ CallInv /\ LockInv /\ MembersFitStatus /\ OneEach

\* The initial states satisfy the invariant.
LEMMA InitInv == Init => IInv
<1> SUFFICES ASSUME Init PROVE IInv
  OBVIOUS
<1>1. TypeOK
  BY InvitationsAssumption DEF Init, TypeOK, NoInvitation, Idle, Invitations
<1>2. InvitationInv /\ MembersFitStatus /\ OneEach
  BY DEF Init, InvitationInv, MembersFitStatus, OneEach, NoInvitation
<1>3. CallInv /\ LockInv
  BY DEF Init, CallInv, CallFits, LockInv, Apart, Idle
<1> QED
  BY <1>1, <1>2, <1>3 DEF IInv

\* The user of a request that has one.
LEMMA UserIs ==
  ASSUME NEW w \in Workers, NEW u \in Users, call[w].user = {u}
  PROVE  User(w) = u
  BY DEF User

\* The person a request invites.
LEMMA PeerIs ==
  ASSUME NEW w \in Workers, NEW u \in Users, call[w].peer = {u}
  PROVE  Peer(w) = u
  BY DEF Peer

\* A step that neither moves people nor closes a partnership may change the
\* status of an invitation to SENT or EXPIRED.
LEMMA DataKept ==
  ASSUME IInv, UNCHANGED <<status, members>>,
         \A i \in Invitations :
           /\ inv'[i].from = inv[i].from /\ inv'[i].to = inv[i].to
           /\ \/ inv'[i].status = inv[i].status
              \/ inv[i].status # "NONE" /\ inv'[i].status \in {"SENT", "EXPIRED"}
  PROVE  InvitationInv' /\ MembersFitStatus' /\ OneEach'
<1>1. InvitationInv'
  BY DEF IInv, InvitationInv
<1>2. MembersFitStatus'
  BY DEF IInv, MembersFitStatus
<1>3. OneEach'
  BY DEF IInv, OneEach
<1> QED
  BY <1>1, <1>2, <1>3

\* Worker w goes on to c, and the partnerships stay as they are.
LEMMA CallMoved ==
  ASSUME IInv, UNCHANGED <<status, members>>,
         \A i \in Invitations : inv'[i].to = inv[i].to,
         NEW w \in Workers, NEW c \in CallType,
         call' = [call EXCEPT ![w] = c],
         CallFits(c),
         \A v \in Workers \ {w} : Apart(call[v], c)
  PROVE  CallInv' /\ LockInv' /\ call' \in [Workers -> CallType]
<1>1. call \in [Workers -> CallType]
  BY DEF IInv, TypeOK, CallType
<1>2. /\ call'[w] = c
      /\ \A v \in Workers \ {w} : call'[v] = call[v]
  BY <1>1
<1>3. ASSUME NEW d, CallFits(d) PROVE CallFits(d)'
  BY <1>3 DEF CallFits
<1>4. CallInv'
  BY <1>2, <1>3 DEF IInv, CallInv
<1>5. ASSUME NEW d, NEW e, Apart(d, e) PROVE Apart(e, d)
  BY <1>5 DEF Apart
<1>6. LockInv'
  BY <1>2, <1>5 DEF IInv, LockInv
<1>7. call' \in [Workers -> CallType]
  BY <1>1
<1> QED
  BY <1>4, <1>6, <1>7

\* A worker that moves on without disturbing a row.
LEMMA MovesOn ==
  ASSUME IInv, NEW w \in Workers, UNCHANGED <<inv, status, members>>,
         NEW c \in CallType, call' = [call EXCEPT ![w] = c], CallFits(c),
         \A v \in Workers \ {w} : Apart(call[v], c)
  PROVE  IInv'
<1>1. InvitationInv' /\ MembersFitStatus' /\ OneEach'
  BY DataKept
<1>2. CallInv' /\ LockInv' /\ call' \in [Workers -> CallType]
  BY CallMoved
<1>3. TypeOK'
  BY <1>2 DEF IInv, TypeOK, CallType
<1> QED
  BY <1>1, <1>2, <1>3 DEF IInv

\* A request that ends.
LEMMA IdleFits ==
  /\ Idle \in CallType
  /\ CallFits(Idle)
  /\ \A d : Apart(d, Idle)
  BY InvitationsAssumption DEF Idle, CallType, CallFits, Apart

\* A request that ends and leaves the tables alone.
LEMMA Ends ==
  ASSUME IInv, NEW w \in Workers, UNCHANGED <<inv, status, members>>, Done(w)
  PROVE  IInv'
  BY MovesOn, IdleFits DEF Done

\* A worker that only relabels invitations and ends.
LEMMA RelabelsAndEnds ==
  ASSUME IInv, NEW w \in Workers, UNCHANGED <<status, members>>, Done(w),
         NEW i \in Invitations, inv[i].status # "NONE",
         NEW s \in {"SENT", "EXPIRED"}, NEW e \in BOOLEAN,
         inv' = [inv EXCEPT ![i].status = s, ![i].expired = e]
  PROVE  IInv'
<1> DEFINE n == [inv[i] EXCEPT !.status = s, !.expired = e]
<1>a. inv \in [Invitations -> InvType]
  BY DEF IInv, TypeOK, InvType
<1>b. n \in InvType /\ n.from = inv[i].from /\ n.to = inv[i].to /\ n.status = s
  BY <1>a DEF InvType
<1>c. inv' = [inv EXCEPT ![i] = n]
  BY <1>a
<1> HIDE DEF n
<1>1. /\ inv' \in [Invitations -> InvType]
      /\ \A j \in Invitations :
           /\ inv'[j].from = inv[j].from /\ inv'[j].to = inv[j].to
           /\ inv'[j].status = inv[j].status \/ j = i
      /\ inv'[i].status = s
  BY <1>a, <1>b, <1>c
<1>2. InvitationInv' /\ MembersFitStatus' /\ OneEach'
  BY <1>1, DataKept
<1>d. \A j \in Invitations : inv'[j].to = inv[j].to
  BY <1>1
<1>e. call' = [call EXCEPT ![w] = Idle]
  BY DEF Done
<1>f. \A v \in Workers \ {w} : Apart(call[v], Idle)
  BY IdleFits
<1>3. CallInv' /\ LockInv' /\ call' \in [Workers -> CallType]
  BY ONLY IInv, UNCHANGED <<status, members>>, w \in Workers, <1>d, <1>e, <1>f, IdleFits,
          CallMoved
<1>4. TypeOK'
  BY <1>1, <1>3 DEF IInv, TypeOK, CallType, InvType
<1> QED
  BY <1>2, <1>3, <1>4 DEF IInv

\* The call of a worker is well-formed.
LEMMA CallIs ==
  ASSUME IInv, NEW w \in Workers
  PROVE  call[w] \in CallType /\ CallFits(call[w])
  BY DEF IInv, TypeOK, CallType, CallInv

\* Requests begin.
LEMMA StartInv ==
  ASSUME IInv, NEW w \in Workers,
         \/ Ask(w)
         \/ \E a, b \in Users : Invite(w, a, b)
         \/ \E i \in Invitations : Land(w, i)
  PROVE  IInv'
<1>1. ASSUME NEW u \in Users, NEW i \in Invitations,
             NEW at \in {"resend", "revoke", "expire", "reject", "land"},
             NEW seen \in {"NONE", "SENT", "ACCEPTED", "REJECTED", "REVOKED", "EXPIRED"},
             Begin(w, at, u, i, seen)
      PROVE  IInv'
  <2> DEFINE c == [at |-> at, user |-> {u}, peer |-> {}, id |-> i, seen |-> seen]
  <2>1. c \in CallType
    BY InvitationsAssumption DEF CallType, Invitations
  <2>2. status[i] # "NONE"
    BY <1>1 DEF Begin, Fresh, IInv, InvitationInv
  <2>3. CallFits(c)
    BY <2>2 DEF CallFits
  <2>4. \A v \in Workers \ {w} : Apart(call[v], c)
    BY DEF Apart
  <2>5. call' = [call EXCEPT ![w] = c] /\ UNCHANGED <<inv, status, members>>
    BY <1>1 DEF Begin
  <2> HIDE DEF c
  <2> QED
    BY <2>1, <2>3, <2>4, <2>5, MovesOn
<1>2. CASE Ask(w)
  <2>1. PICK i \in Invitations, u \in Users :
          \/ Begin(w, "resend", u, i, inv[i].status) \/ Begin(w, "revoke", u, i, inv[i].status)
          \/ Begin(w, "expire", u, i, "NONE") \/ Begin(w, "reject", u, i, "NONE")
    BY <1>2 DEF Ask
  <2>2. inv[i].status \in {"NONE", "SENT", "ACCEPTED", "REJECTED", "REVOKED", "EXPIRED"}
    BY DEF IInv, TypeOK
  <2> QED
    BY <1>1, <2>1, <2>2
<1>3. ASSUME NEW a \in Users, NEW b \in Users, Invite(w, a, b) PROVE IInv'
  <2> DEFINE c == [Idle EXCEPT !.at = "create", !.user = {a}, !.peer = {b}]
  <2>1. c \in CallType
    BY IdleFits DEF CallType, Idle
  <2>2. CallFits(c)
    BY <1>3 DEF CallFits, Idle, Invite
  <2>3. \A v \in Workers \ {w} : Apart(call[v], c)
    BY DEF Apart, Idle
  <2>4. call' = [call EXCEPT ![w] = c] /\ UNCHANGED <<inv, status, members>>
    BY <1>3 DEF Invite
  <2> HIDE DEF c
  <2> QED
    BY <2>1, <2>2, <2>3, <2>4, MovesOn
<1>4. ASSUME NEW i \in Invitations, Land(w, i) PROVE IInv'
  <2>1. PICK u \in inv[i].to : Begin(w, "land", u, i, "SENT")
    BY <1>4 DEF Land
  <2>2. u \in Users
    BY <2>1 DEF IInv, TypeOK
  <2> QED
    BY <1>1, <2>1, <2>2
<1> QED
  BY <1>2, <1>3, <1>4

\* Every point a request can be at.
LEMMA AtIs ==
  ASSUME IInv, NEW w \in Workers,
         NEW at \in {"insert", "validate", "activate", "join", "sign", "reissue", "cancel"},
         NEW seen \in {"NONE", "SENT", "ACCEPTED", "REJECTED", "REVOKED", "EXPIRED"}
  PROVE  /\ [call[w] EXCEPT !.at = at] \in CallType
         /\ [call[w] EXCEPT !.at = at, !.seen = seen] \in CallType
  BY CallIs DEF CallType

\* create_invitation checks, or issues the invitation again.
LEMMA CreateInv ==
  ASSUME IInv, NEW w \in Workers, Create(w)
  PROVE  IInv'
<1> DEFINE a == User(w)
           b == Peer(w)
<1>0. UNCHANGED <<status, members>>
  BY DEF Create
<1>1. CASE UNCHANGED inv /\ Done(w)
  BY <1>0, <1>1, Ends
<1>2. CASE UNCHANGED inv /\ Go(w, "insert")
  <2> DEFINE c == [call[w] EXCEPT !.at = "insert"]
  <2>1. call[w].at = "create"
    BY DEF Create
  <2>2. c \in CallType
    BY AtIs
  <2>3. CallFits(c)
    BY <2>1, CallIs DEF CallFits, CallType
  <2>4. \A v \in Workers \ {w} : Apart(call[v], c)
    BY CallIs DEF Apart, CallType
  <2>5. call' = [call EXCEPT ![w] = c]
    BY <1>2 DEF Go
  <2> HIDE DEF c
  <2> QED
    BY <1>0, <1>2, <2>2, <2>3, <2>4, <2>5, MovesOn
<1>3. CASE Done(w) /\ \E i \in SentBetween(a, b) : Reissued(i)
  <2>1. PICK i \in Invitations : Sent(i) /\ Reissued(i)
    BY <1>3 DEF SentBetween
  <2>2. inv[i].status # "NONE"
    BY <2>1 DEF Sent
  <2> QED
    BY <1>0, <1>3, <2>1, <2>2, RelabelsAndEnds DEF Reissued
<1> QED
  BY <1>1, <1>2, <1>3 DEF Create

\* resend_invitation reads.
LEMMA ResendInv ==
  ASSUME IInv, NEW w \in Workers, Resend(w)
  PROVE  IInv'
<1>0. UNCHANGED <<inv, status, members>> /\ call[w].at = "resend"
  BY DEF Resend
<1>1. CASE Done(w)
  BY <1>0, <1>1, Ends
<1>2. CASE call' = [call EXCEPT ![w].at = "reissue", ![w].seen = "NONE"]
  <2> DEFINE c == [call[w] EXCEPT !.at = "reissue", !.seen = "NONE"]
  <2>2. c \in CallType
    BY AtIs
  <2>3. CallFits(c)
    BY <1>0, CallIs DEF CallFits, CallType
  <2>4. \A v \in Workers \ {w} : Apart(call[v], c)
    BY CallIs DEF Apart, CallType
  <2>5. call' = [call EXCEPT ![w] = c]
    BY <1>2, CallIs DEF CallType, IInv, TypeOK
  <2> HIDE DEF c
  <2> QED
    BY <1>0, <2>2, <2>3, <2>4, <2>5, MovesOn
<1> QED
  BY <1>1, <1>2 DEF Resend

\* resend_invitation writes.
LEMMA ReissueInv ==
  ASSUME IInv, NEW w \in Workers, Reissue(w)
  PROVE  IInv'
<1>0. UNCHANGED <<status, members>> /\ call[w].at = "reissue" /\ Done(w)
  BY DEF Reissue
<1>1. CASE UNCHANGED inv
  BY <1>0, <1>1, Ends
<1>2. CASE Reissued(call[w].id)
  <2>1. call[w].id \in Invitations /\ inv[call[w].id].status # "NONE"
    BY <1>0, CallIs DEF CallFits, IInv, InvitationInv
  <2> QED
    BY <1>0, <1>2, <2>1, RelabelsAndEnds DEF Reissued
<1> QED
  BY <1>1, <1>2 DEF Reissue

\* revoke_invitation reads.
LEMMA RevokeInv ==
  ASSUME IInv, NEW w \in Workers, Revoke(w)
  PROVE  IInv'
<1>0. UNCHANGED <<inv, status, members>> /\ call[w].at = "revoke"
  BY DEF Revoke
<1>1. CASE Done(w)
  BY <1>0, <1>1, Ends
<1>2. CASE call' = [call EXCEPT ![w].at = "cancel", ![w].seen = "REVOKED"]
  <2> DEFINE c == [call[w] EXCEPT !.at = "cancel", !.seen = "REVOKED"]
  <2>1. c \in CallType
    BY AtIs
  <2>2. CallFits(c)
    BY <1>0, CallIs DEF CallFits, CallType
  <2>3. \A v \in Workers \ {w} : Apart(call[v], c)
    BY CallIs DEF Apart, CallType
  <2>4. call' = [call EXCEPT ![w] = c]
    BY <1>2, CallIs DEF CallType, IInv, TypeOK
  <2> HIDE DEF c
  <2> QED
    BY <1>0, <2>1, <2>2, <2>3, <2>4, MovesOn
<1> QED
  BY <1>1, <1>2 DEF Revoke

\* reject_invitation checks.
LEMMA RejectInv ==
  ASSUME IInv, NEW w \in Workers, Reject(w)
  PROVE  IInv'
<1>0. UNCHANGED <<inv, status, members>> /\ call[w].at = "reject"
  BY DEF Reject
<1>1. CASE Done(w)
  BY <1>0, <1>1, Ends
<1>2. CASE call' = [call EXCEPT ![w].at = "cancel", ![w].seen = Rejected]
  <2> DEFINE c == [call[w] EXCEPT !.at = "cancel", !.seen = "REJECTED"]
  <2>1. c \in CallType
    BY AtIs
  <2>2. CallFits(c)
    BY <1>0, CallIs DEF CallFits, CallType
  <2>3. \A v \in Workers \ {w} : Apart(call[v], c)
    BY CallIs DEF Apart, CallType
  <2>4. call' = [call EXCEPT ![w] = c]
    BY <1>2, CallIs DEF CallType, IInv, TypeOK, Rejected
  <2> HIDE DEF c
  <2> QED
    BY <1>0, <2>1, <2>2, <2>3, <2>4, MovesOn
<1> QED
  BY <1>1, <1>2 DEF Reject

\* The first transaction of accept_invitation.
LEMMA ValidateInv ==
  ASSUME IInv, NEW w \in Workers, Validate(w)
  PROVE  IInv'
<1>0. UNCHANGED <<inv, status, members>> /\ call[w].at = "validate"
  BY DEF Validate
<1>1. CASE Done(w)
  BY <1>0, <1>1, Ends
<1>2. CASE inv[call[w].id].to = call[w].user /\ Go(w, "activate")
  <2> DEFINE c == [call[w] EXCEPT !.at = "activate"]
  <2>1. c \in CallType
    BY AtIs
  <2>2. CallFits(c)
    BY <1>0, <1>2, CallIs DEF CallFits, CallType
  <2>3. \A v \in Workers \ {w} : Apart(call[v], c)
    BY CallIs DEF Apart, CallType
  <2>4. call' = [call EXCEPT ![w] = c]
    BY <1>2 DEF Go
  <2> HIDE DEF c
  <2> QED
    BY <1>0, <2>1, <2>2, <2>3, <2>4, MovesOn
<1> QED
  BY <1>1, <1>2 DEF Validate

\* The second one locks a partnership that nobody else is joining.
LEMMA ActivateInv ==
  ASSUME IInv, NEW w \in Workers, Activate(w)
  PROVE  IInv'
<1>0. UNCHANGED <<inv, status, members>> /\ call[w].at = "activate" /\ PartnershipFree(call[w].id)
  BY DEF Activate
<1>1. CASE Done(w)
  BY <1>0, <1>1, Ends
<1>2. CASE Joinable(call[w].id) /\ Go(w, "join")
  <2> DEFINE c == [call[w] EXCEPT !.at = "join"]
  <2>1. c \in CallType
    BY AtIs
  <2>2. CallFits(c)
    BY <1>0, <1>2, CallIs DEF CallFits, CallType, Joinable
  <2>3. c.at = "join" /\ c.id = call[w].id
    BY CallIs DEF CallType
  <2>4. \A v \in Workers \ {w} : Apart(call[v], c)
    BY <1>0, <2>3 DEF Apart, PartnershipFree
  <2>5. call' = [call EXCEPT ![w] = c]
    BY <1>2 DEF Go
  <2> HIDE DEF c
  <2> QED
    BY <1>0, <2>1, <2>2, <2>4, <2>5, MovesOn
<1> QED
  BY <1>1, <1>2 DEF Activate

\* The membership is inserted by a user who has no other one, committed or
\* not.
LEMMA JoinInv ==
  ASSUME IInv, NEW w \in Workers, Join(w)
  PROVE  IInv'
<1>0. UNCHANGED <<inv, status, members>> /\ call[w].at = "join" /\ ~Claimed(User(w))
  BY DEF Join
<1>1. CASE Done(w)
  BY <1>0, <1>1, Ends
<1>2. CASE IndexAllows(User(w)) /\ Go(w, "sign")
  <2> DEFINE c == [call[w] EXCEPT !.at = "sign"]
  <2>1. c \in CallType
    BY AtIs
  <2>2. PICK u \in Users : call[w].user = {u}
    BY <1>0, CallIs DEF CallFits
  <2>3. User(w) = u
    BY <2>2, UserIs
  <2>4. c.at = "sign" /\ c.id = call[w].id /\ c.user = {u}
    BY <2>2, CallIs DEF CallType
  <2>5. \A i \in Invitations : c.user \cap members[i] = {}
    BY <1>2, <2>3, <2>4 DEF IndexAllows, Taken
  <2>6. CallFits(c)
    BY <1>0, <2>4, <2>5, <2>2, CallIs DEF CallFits, CallType
  <2>7. \A v \in Workers \ {w} : Apart(call[v], c)
    BY <1>0, <2>3, <2>4 DEF Apart, Claimed, IInv, LockInv
  <2>8. call' = [call EXCEPT ![w] = c]
    BY <1>2 DEF Go
  <2> HIDE DEF c
  <2> QED
    BY <1>0, <2>1, <2>6, <2>7, <2>8, MovesOn
<1> QED
  BY <1>1, <1>2 DEF Join

\* The database ends a deadlocked request.
LEMMA BreakInv ==
  ASSUME IInv, NEW w \in Workers, BreakDeadlock(w)
  PROVE  IInv'
  BY Ends DEF BreakDeadlock

\* invite_landing writes EXPIRED.
LEMMA LandInv ==
  ASSUME IInv, NEW w \in Workers, LandExpired(w)
  PROVE  IInv'
<1> DEFINE i == call[w].id
<1>1. i \in Invitations /\ inv[i].status # "NONE"
  BY CallIs DEF LandExpired, CallFits, IInv, InvitationInv
<1>2. inv[i] \in InvType
  BY <1>1 DEF IInv, TypeOK, InvType
<1>3. inv[i].expired \in BOOLEAN
  BY <1>2 DEF InvType
<1>4. inv' = [inv EXCEPT ![i].status = "EXPIRED", ![i].expired = inv[i].expired]
  BY <1>1, <1>2 DEF LandExpired, IInv, TypeOK, InvType
<1>5. UNCHANGED <<status, members>> /\ Done(w)
  BY DEF LandExpired
<1> HIDE DEF i
<1> QED
  BY <1>1, <1>3, <1>4, <1>5, RelabelsAndEnds

\* accept_invitation marks an invitation whose time is over.
LEMMA MarkExpiredInv ==
  ASSUME IInv, NEW w \in Workers, MarkExpired(w)
  PROVE  IInv'
<1> DEFINE i == call[w].id
           c == [call[w] EXCEPT !.at = "validate"]
<1>0. UNCHANGED <<status, members>> /\ call[w].at = "expire" /\ Go(w, "validate")
  BY DEF MarkExpired
<1>1. c \in CallType
  BY AtIs
<1>2. CallFits(c)
  BY <1>0, CallIs DEF CallFits, CallType
<1>3. \A v \in Workers \ {w} : Apart(call[v], c)
  BY CallIs DEF Apart, CallType
<1>4. call' = [call EXCEPT ![w] = c]
  BY <1>0 DEF Go
<1>5. inv \in [Invitations -> InvType]
  BY DEF IInv, TypeOK, InvType
<1>6. /\ inv' \in [Invitations -> InvType]
      /\ \A j \in Invitations :
           /\ inv'[j].from = inv[j].from /\ inv'[j].to = inv[j].to
           /\ \/ inv'[j].status = inv[j].status
              \/ inv[j].status # "NONE" /\ inv'[j].status \in {"SENT", "EXPIRED"}
  <2>1. CASE inv' = inv
    BY <1>5, <2>1
  <2>2. CASE Sent(i) /\ inv' = [inv EXCEPT ![i].status = "EXPIRED"]
    BY <1>5, <2>2, ZenonT(30) DEF InvType, Sent
  <2> QED
    BY <2>1, <2>2 DEF MarkExpired
<1> HIDE DEF c
<1>7. InvitationInv' /\ MembersFitStatus' /\ OneEach'
  BY <1>0, <1>6, DataKept
<1>8. \A j \in Invitations : inv'[j].to = inv[j].to
  BY <1>6
<1>9. CallInv' /\ LockInv' /\ call' \in [Workers -> CallType]
  BY ONLY IInv, <1>0, w \in Workers, <1>1, <1>2, <1>3, <1>4, <1>8, CallMoved
<1>10. TypeOK'
  BY <1>0, <1>6, <1>9 DEF IInv, TypeOK, CallType, InvType
<1> QED
  BY <1>7, <1>9, <1>10 DEF IInv

\* A request that ends takes nothing from the others, as long as what each
\* of them goes by is still so.
LEMMA OthersKept ==
  ASSUME IInv, NEW w \in Workers, Done(w),
         ASSUME NEW v \in Workers \ {w}, NEW d, d = call[v], CallFits(d)
         PROVE  CallFits(d)'
  PROVE  CallInv' /\ LockInv' /\ call' \in [Workers -> CallType]
<1>1. call \in [Workers -> CallType]
  BY DEF IInv, TypeOK, CallType
<1>2. /\ call'[w] = Idle
      /\ \A v \in Workers \ {w} : call'[v] = call[v]
  BY <1>1 DEF Done
<1>3. CallFits(Idle)'
  BY DEF CallFits, Idle
<1>4. CallInv'
  BY <1>2, <1>3 DEF IInv, CallInv
<1>5. \A d : Apart(d, Idle) /\ Apart(Idle, d)
  BY DEF Apart, Idle
<1>6. LockInv'
  BY <1>2, <1>5 DEF IInv, LockInv
<1>7. call' \in [Workers -> CallType]
  BY <1>1, IdleFits DEF Done
<1> QED
  BY <1>4, <1>6, <1>7

\* A revoked or rejected invitation takes its pending partnership with it,
\* unless somebody is joining.
LEMMA CancelInv ==
  ASSUME IInv, NEW w \in Workers, Cancel(w)
  PROVE  IInv'
<1> DEFINE i == call[w].id
<1>1. /\ i \in Invitations /\ status[i] # "NONE"
      /\ call[w].seen \in {"REVOKED", "REJECTED"}
  BY CallIs DEF Cancel, CallFits
<1>2. /\ Done(w) /\ PartnershipFree(i)
      /\ inv' = [inv EXCEPT ![i].status = call[w].seen]
  BY DEF Cancel
<1>3. inv \in [Invitations -> InvType]
  BY DEF IInv, TypeOK, InvType
<1>4. /\ inv' \in [Invitations -> InvType]
      /\ inv'[i].status = call[w].seen
      /\ \A j \in Invitations : inv'[j].from = inv[j].from /\ inv'[j].to = inv[j].to
      /\ \A j \in Invitations \ {i} : inv'[j] = inv[j]
  BY <1>1, <1>2, <1>3 DEF InvType
<1>5. /\ status' \in [Invitations -> {"NONE", "PENDING", "ACTIVE", "ENDED", "CANCELLED"}]
      /\ members' \in [Invitations -> SUBSET Users]
      /\ \A j \in Invitations : j # i => status'[j] = status[j] /\ members'[j] = members[j]
      /\ \/ status[i] = "PENDING" /\ status'[i] = "CANCELLED" /\ members'[i] = {}
         \/ status[i] # "PENDING" /\ status'[i] = status[i] /\ members'[i] = members[i]
  BY <1>1 DEF Cancel, Cancels, IInv, TypeOK
<1> HIDE DEF i
<1>6. InvitationInv'
  <2> SUFFICES ASSUME NEW j \in Invitations
               PROVE  /\ (inv'[j].status = "NONE") <=> (status'[j] = "NONE")
                      /\ status'[j] = "PENDING" => inv'[j].status \in {"SENT", "EXPIRED"}
                      /\ status'[j] # "NONE" =>
                           \E a, b \in Users : /\ a # b
                                              /\ inv'[j].from = {a} /\ inv'[j].to = {b}
    BY DEF InvitationInv
  <2>1. /\ (inv[j].status = "NONE") <=> (status[j] = "NONE")
        /\ status[j] = "PENDING" => inv[j].status \in {"SENT", "EXPIRED"}
        /\ status[j] # "NONE" =>
             \E a, b \in Users : a # b /\ inv[j].from = {a} /\ inv[j].to = {b}
    BY DEF IInv, InvitationInv
  <2>2. CASE j # i
    BY <1>4, <1>5, <2>1, <2>2
  <2>3. CASE j = i
    BY <1>1, <1>4, <1>5, <2>1, <2>3
  <2> QED
    BY <2>2, <2>3
<1>7. MembersFitStatus'
  <2>1. \A j \in Invitations : inv'[j].from = inv[j].from /\ inv'[j].to = inv[j].to
    BY <1>4
  <2>2. MembersFitStatus
    BY DEF IInv
  <2> QED
    BY <1>1, <1>5, <2>1, <2>2 DEF MembersFitStatus
<1>8. OneEach'
  BY <1>5 DEF IInv, OneEach
<1>9. ASSUME NEW v \in Workers \ {w}, NEW d, d = call[v], CallFits(d)
      PROVE  CallFits(d)'
  <2>1. d.at \in {"join", "sign"} => d.id # i
    BY <1>2, <1>9 DEF PartnershipFree
  <2>2. \A j \in Invitations : members'[j] \subseteq members[j]
    BY <1>5
  <2>3. \A j \in Invitations : status[j] # "NONE" => status'[j] # "NONE"
    BY <1>1, <1>5
  <2>4. \A j \in Invitations : inv'[j].to = inv[j].to
    BY <1>4
  <2>5. \A j \in Invitations : j # i => status'[j] = status[j]
    BY <1>5
  <2>6. d.at = "sign" => \A j \in Invitations : d.user \cap members'[j] = {}
    BY <1>9, <2>2 DEF CallFits
  <2>7. d.at \notin {"idle", "create", "insert"} => d.id \in Invitations
    BY <1>9 DEF CallFits
  <2> QED
    BY <1>9, <2>1, <2>3, <2>4, <2>5, <2>6, <2>7 DEF CallFits
<1>10. CallInv' /\ LockInv' /\ call' \in [Workers -> CallType]
  BY <1>2, <1>9, OthersKept
<1>11. TypeOK'
  BY <1>4, <1>5, <1>10 DEF TypeOK, CallType, InvType
<1> QED
  BY <1>6, <1>7, <1>8, <1>10, <1>11 DEF IInv

\* The new membership is of somebody who has no other, committed or not.
LEMMA InsertInv ==
  ASSUME IInv, NEW w \in Workers, Insert(w)
  PROVE  IInv'
<1>0. PICK a, b \in Users : a # b /\ call[w].user = {a} /\ call[w].peer = {b}
  BY CallIs DEF Insert, CallFits
<1> DEFINE i == CHOOSE k \in Fresh : TRUE
           n == [from |-> {a}, to |-> {b}, status |-> "SENT", expired |-> FALSE]
<1>1. User(w) = a /\ Peer(w) = b
  BY <1>0, UserIs, PeerIs
<1>2. Done(w) /\ ~Claimed(a)
  BY <1>1 DEF Insert
<1>3. CASE UNCHANGED <<inv, status, members>>
  BY <1>2, <1>3, Ends
<1>4. CASE /\ ~Taken(a) /\ Fresh # {}
           /\ inv' = [inv EXCEPT ![i] = n]
           /\ status' = [status EXCEPT ![i] = "PENDING"]
           /\ members' = [members EXCEPT ![i] = {a}]
  <2>1. i \in Invitations /\ inv[i].status = "NONE" /\ status[i] = "NONE"
    BY <1>4 DEF Fresh, IInv, InvitationInv
  <2>2. n \in InvType /\ n.status = "SENT" /\ n.from = {a} /\ n.to = {b}
    BY DEF InvType
  <2> HIDE DEF i, n
  <2>3. /\ inv \in [Invitations -> InvType]
        /\ status \in [Invitations -> {"NONE", "PENDING", "ACTIVE", "ENDED", "CANCELLED"}]
        /\ members \in [Invitations -> SUBSET Users]
    BY DEF IInv, TypeOK, InvType
  <2>4. /\ inv' \in [Invitations -> InvType]
        /\ status' \in [Invitations -> {"NONE", "PENDING", "ACTIVE", "ENDED", "CANCELLED"}]
        /\ members' \in [Invitations -> SUBSET Users]
        /\ inv'[i] = n /\ status'[i] = "PENDING" /\ members'[i] = {a}
        /\ \A j \in Invitations \ {i} :
             inv'[j] = inv[j] /\ status'[j] = status[j] /\ members'[j] = members[j]
    BY <1>4, <2>1, <2>2, <2>3
  <2>5. InvitationInv'
    BY <1>0, <2>1, <2>2, <2>4 DEF IInv, InvitationInv
  <2>6. MembersFitStatus'
    <3>1. MembersFitStatus
      BY DEF IInv
    <3>2. ASSUME NEW j \in Invitations, j # i
          PROVE  inv'[j] = inv[j] /\ status'[j] = status[j] /\ members'[j] = members[j]
      BY <2>4, <3>2
    <3>3. inv'[i].from = {a} /\ status'[i] = "PENDING" /\ members'[i] = {a}
      BY <2>2, <2>4
    <3> QED
      BY <3>1, <3>2, <3>3, ZenonT(30) DEF MembersFitStatus
  <2>7. \A j \in Invitations : a \notin members[j]
    BY <1>4 DEF Taken
  <2>8. OneEach'
    BY <2>4, <2>7 DEF IInv, OneEach
  <2>9. ASSUME NEW v \in Workers \ {w}, NEW d, d = call[v], CallFits(d)
        PROVE  CallFits(d)'
    <3>1. d.at = "sign" => d.user # {a} /\ \E u \in Users : d.user = {u}
      BY <1>2, <2>9 DEF Claimed, CallFits
    <3>2. d.at = "sign" => \A j \in Invitations : d.user \cap members'[j] = {}
      BY <2>4, <2>9, <3>1 DEF CallFits
    <3>3. d.at \notin {"idle", "create", "insert"} => d.id \in Invitations \ {i}
      BY <2>1, <2>9 DEF CallFits
    <3>4. d.at \notin {"idle", "create", "insert"} =>
            inv'[d.id] = inv[d.id] /\ status'[d.id] = status[d.id]
      BY <2>4, <3>3
    <3> QED
      BY <2>9, <3>2, <3>3, <3>4 DEF CallFits
  <2>10. CallInv' /\ LockInv' /\ call' \in [Workers -> CallType]
    BY <1>2, <2>9, OthersKept
  <2>11. TypeOK'
    BY <2>4, <2>10 DEF TypeOK, CallType, InvType
  <2> QED
    BY <2>5, <2>6, <2>8, <2>10, <2>11 DEF IInv
<1> QED
  BY <1>1, <1>3, <1>4 DEF Insert

\* The last step of accept_invitation makes the pair.
LEMMA SignInv ==
  ASSUME IInv, NEW w \in Workers, Sign(w)
  PROVE  IInv'
<1> DEFINE i == call[w].id
<1>0. PICK u \in Users : call[w].user = {u}
  BY CallIs DEF Sign, CallFits
<1>1. User(w) = u
  BY <1>0, UserIs
<1>2. /\ i \in Invitations /\ status[i] = "PENDING" /\ inv[i].to = {u}
      /\ \A j \in Invitations : u \notin members[j]
      /\ call[w].at = "sign" /\ Done(w)
  BY <1>0, CallIs DEF Sign, CallFits
<1>3. /\ inv \in [Invitations -> InvType]
      /\ status \in [Invitations -> {"NONE", "PENDING", "ACTIVE", "ENDED", "CANCELLED"}]
      /\ members \in [Invitations -> SUBSET Users]
  BY DEF IInv, TypeOK, InvType
<1> DEFINE n == [inv[i] EXCEPT !.status = "ACCEPTED"]
<1>4. /\ n \in InvType /\ n.from = inv[i].from /\ n.to = inv[i].to /\ n.status = "ACCEPTED"
      /\ inv' = [inv EXCEPT ![i] = n]
  BY <1>2, <1>3 DEF InvType, Sign
<1>5. /\ status' = [status EXCEPT ![i] = "ACTIVE"]
      /\ members' = [members EXCEPT ![i] = @ \cup {u}]
  BY <1>1 DEF Sign
<1> HIDE DEF i, n
<1>6. /\ inv' \in [Invitations -> InvType]
      /\ status' \in [Invitations -> {"NONE", "PENDING", "ACTIVE", "ENDED", "CANCELLED"}]
      /\ members' \in [Invitations -> SUBSET Users]
      /\ inv'[i] = n /\ status'[i] = "ACTIVE" /\ members'[i] = members[i] \cup {u}
      /\ \A j \in Invitations \ {i} :
           inv'[j] = inv[j] /\ status'[j] = status[j] /\ members'[j] = members[j]
  BY <1>2, <1>3, <1>4, <1>5
<1>7. \A j \in Invitations : inv'[j].from = inv[j].from /\ inv'[j].to = inv[j].to
  BY <1>4, <1>6
<1>8. InvitationInv'
  <2>1. ASSUME NEW j \in Invitations, j # i
        PROVE  inv'[j] = inv[j] /\ status'[j] = status[j]
    BY <1>6, <2>1
  <2>2. inv'[i].status = "ACCEPTED" /\ status'[i] = "ACTIVE" /\ status[i] # "NONE"
    BY <1>2, <1>4, <1>6
  <2> QED
    BY <1>7, <2>1, <2>2 DEF IInv, InvitationInv
<1>9. MembersFitStatus'
  <2>1. MembersFitStatus
    BY DEF IInv
  <2>2. ASSUME NEW j \in Invitations, j # i
        PROVE  status'[j] = status[j] /\ members'[j] = members[j]
    BY <1>6, <2>2
  <2>3. status'[i] = "ACTIVE" /\ members'[i] = inv[i].from \cup inv[i].to
    BY <1>2, <1>6, <2>1 DEF MembersFitStatus
  <2> QED
    BY <1>7, <2>1, <2>2, <2>3 DEF MembersFitStatus
<1>10. OneEach'
  BY <1>2, <1>6 DEF IInv, OneEach
<1>11. ASSUME NEW v \in Workers \ {w}, NEW d, d = call[v], CallFits(d)
       PROVE  CallFits(d)'
  <2>1. /\ d.at \in {"join", "sign"} => d.id # i
        /\ d.at = "sign" => d.user # {u}
    BY <1>0, <1>2, <1>11 DEF IInv, LockInv, Apart, i
  <2>2. d.at \notin {"idle", "create", "insert"} => d.id \in Invitations
    BY <1>11 DEF CallFits
  <2>3. \A j \in Invitations : status[j] # "NONE" => status'[j] # "NONE"
    BY <1>2, <1>6
  <2>4. \A j \in Invitations : j # i => status'[j] = status[j]
    BY <1>6
  <2>5. \A j \in Invitations : members'[j] \subseteq members[j] \cup {u}
    BY <1>6
  <2>6. d.at = "sign" => \A j \in Invitations : d.user \cap members'[j] = {}
    <3>1. SUFFICES ASSUME d.at = "sign"
                   PROVE  \A j \in Invitations : d.user \cap members'[j] = {}
      OBVIOUS
    <3>2. PICK x \in Users : d.user = {x}
      BY <1>11, <3>1 DEF CallFits
    <3>3. x # u
      BY <2>1, <3>1, <3>2
    <3>4. \A j \in Invitations : x \notin members[j]
      BY <1>11, <3>1, <3>2 DEF CallFits
    <3> QED
      BY <2>5, <3>2, <3>3, <3>4
  <2> QED
    BY <1>7, <1>11, <2>1, <2>2, <2>3, <2>4, <2>6 DEF CallFits
<1>12. CallInv' /\ LockInv' /\ call' \in [Workers -> CallType]
  BY <1>2, <1>11, OthersKept
<1>13. TypeOK'
  BY <1>6, <1>12 DEF TypeOK, CallType, InvType
<1> QED
  BY <1>8, <1>9, <1>10, <1>12, <1>13 DEF IInv

\* A partnership that ends was active, so nobody is joining it.
LEMMA EndInv ==
  ASSUME IInv, NEW i \in Invitations, NEW u \in Users, EndPartnership(i, u)
  PROVE  IInv'
<1>1. /\ status[i] = "ACTIVE" /\ UNCHANGED <<inv, call>>
      /\ status' = [status EXCEPT ![i] = "ENDED"]
      /\ members' = [members EXCEPT ![i] = {}]
  BY DEF EndPartnership
<1>2. TypeOK'
  BY <1>1 DEF IInv, TypeOK
<1>3. /\ status'[i] = "ENDED" /\ members'[i] = {}
      /\ \A j \in Invitations \ {i} : status'[j] = status[j] /\ members'[j] = members[j]
  BY <1>1 DEF IInv, TypeOK
<1>4. InvitationInv' /\ MembersFitStatus' /\ OneEach'
  BY <1>1, <1>3 DEF IInv, InvitationInv, MembersFitStatus, OneEach
<1>5. ASSUME NEW d, CallFits(d) PROVE CallFits(d)'
  BY <1>1, <1>3, <1>5 DEF CallFits
<1>6. CallInv' /\ LockInv'
  BY <1>1, <1>5 DEF IInv, CallInv, LockInv
<1> QED
  BY <1>2, <1>4, <1>6 DEF IInv

\* Time passes.
LEMMA ExpireInv ==
  ASSUME IInv, NEW i \in Invitations, Expire(i)
  PROVE  IInv'
<1>1. UNCHANGED <<status, members, call>> /\ inv' = [inv EXCEPT ![i].expired = TRUE]
  BY DEF Expire
<1>2. inv \in [Invitations -> InvType]
  BY DEF IInv, TypeOK, InvType
<1>3. /\ inv' \in [Invitations -> InvType]
      /\ \A j \in Invitations :
           /\ inv'[j].from = inv[j].from /\ inv'[j].to = inv[j].to
           /\ inv'[j].status = inv[j].status
  BY <1>1, <1>2 DEF InvType
<1>4. InvitationInv' /\ MembersFitStatus' /\ OneEach'
  BY <1>1, <1>3, DataKept
<1>5. ASSUME NEW d, CallFits(d) PROVE CallFits(d)'
  BY <1>1, <1>3, <1>5 DEF CallFits
<1>6. CallInv' /\ LockInv' /\ TypeOK'
  BY <1>1, <1>3, <1>5 DEF IInv, CallInv, LockInv, TypeOK, InvType
<1> QED
  BY <1>4, <1>6 DEF IInv

\* Every step keeps the invariant.
LEMMA NextInv == IInv /\ [Next]_vars => IInv'
<1> SUFFICES ASSUME IInv, [Next]_vars PROVE IInv'
  OBVIOUS
<1>1. CASE UNCHANGED vars
  BY <1>1 DEF vars, IInv, TypeOK, InvitationInv, CallInv, CallFits, LockInv, MembersFitStatus,
              OneEach
<1>2. ASSUME NEW w \in Workers, Work(w) PROVE IInv'
  BY <1>2, CreateInv, InsertInv, ResendInv, ReissueInv, RevokeInv, RejectInv, CancelInv,
     MarkExpiredInv, ValidateInv, ActivateInv, JoinInv, SignInv, BreakInv, LandInv DEF Work
<1> QED
  BY <1>1, <1>2, StartInv, ExpireInv, EndInv DEF Next

-----------------------------------------------------------------------------
\* The invariant holds.
LEMMA Invariant == Spec => []IInv
  BY InitInv, NextInv, PTL DEF Spec

\* The states of the tables and of the requests stay in their sets.
THEOREM TypesHold == Spec => []TypeOK
<1>1. IInv => TypeOK
  BY DEF IInv
<1> QED
  BY <1>1, Invariant, PTL

\* No order of accepting, revoking, rejecting, expiring and ending leaves
\* half a partnership.
THEOREM NoHalfPartnership == Spec => []MembersFitStatus
<1>1. IInv => MembersFitStatus
  BY DEF IInv
<1> QED
  BY <1>1, Invariant, PTL

\* Nobody is ever an active member of two partnerships.
THEOREM OnePartnershipEach == Spec => []OneEach
<1>1. IInv => OneEach
  BY DEF IInv
<1> QED
  BY <1>1, Invariant, PTL

\* The steps that touch partnerships, and what each does to them.
Opens(i, u) ==
  /\ status[i] = "NONE"
  /\ \A j \in Invitations : u \notin members[j]
  /\ status' = [status EXCEPT ![i] = "PENDING"]
  /\ members' = [members EXCEPT ![i] = {u}]

Joins(i, u) ==
  /\ status[i] = "PENDING"
  /\ \A j \in Invitations : u \notin members[j]
  /\ status' = [status EXCEPT ![i] = "ACTIVE"]
  /\ members' = [members EXCEPT ![i] = members[i] \cup {u}]

Closes(i, was, is) ==
  /\ status[i] = was
  /\ status' = [status EXCEPT ![i] = is]
  /\ members' = [members EXCEPT ![i] = {}]

TouchesPairs ==
  \/ UNCHANGED <<status, members>>
  \/ \E i \in Invitations, u \in Users : Opens(i, u) \/ Joins(i, u)
  \/ \E i \in Invitations : Closes(i, "PENDING", "CANCELLED") \/ Closes(i, "ACTIVE", "ENDED")

\* Partnerships are touched in four ways only.
LEMMA PartnershipSteps ==
  ASSUME IInv, Next
  PROVE  TouchesPairs
<1>1. ASSUME NEW w \in Workers, Insert(w) PROVE TouchesPairs
  <2>1. PICK u \in Users : call[w].user = {u}
    BY <1>1, CallIs DEF Insert, CallFits
  <2> DEFINE i == CHOOSE k \in Fresh : TRUE
  <2>2. CASE /\ Fresh # {} /\ ~Taken(u)
             /\ status' = [status EXCEPT ![i] = "PENDING"]
             /\ members' = [members EXCEPT ![i] = {u}]
    <3>1. i \in Invitations /\ status[i] = "NONE"
      BY <2>2 DEF Fresh, IInv, InvitationInv
    <3> QED
      BY <2>2, <3>1 DEF Taken, Opens, TouchesPairs
  <2> QED
    BY <1>1, <2>1, <2>2, UserIs DEF Insert, TouchesPairs
<1>2. ASSUME NEW w \in Workers, Sign(w) PROVE TouchesPairs
  <2>1. PICK u \in Users : call[w].user = {u}
    BY <1>2, CallIs DEF Sign, CallFits
  <2>2. User(w) = u
    BY <2>1, UserIs
  <2>3. /\ call[w].id \in Invitations /\ status[call[w].id] = "PENDING"
        /\ \A j \in Invitations : u \notin members[j]
    BY <1>2, <2>1, CallIs DEF Sign, CallFits
  <2>4. /\ status' = [status EXCEPT ![call[w].id] = "ACTIVE"]
        /\ members' = [members EXCEPT ![call[w].id] = members[call[w].id] \cup {u}]
    BY <1>2, <2>2, <2>3 DEF Sign, IInv, TypeOK
  <2> QED
    BY <2>3, <2>4 DEF Joins, TouchesPairs
<1>3. ASSUME NEW w \in Workers, Cancel(w) PROVE TouchesPairs
  BY <1>3, CallIs DEF Cancel, Cancels, CallFits, Closes, TouchesPairs
<1>4. ASSUME NEW w \in Workers, Work(w), ~Insert(w), ~Sign(w), ~Cancel(w) PROVE TouchesPairs
  BY <1>4 DEF Work, Create, Resend, Reissue, Revoke, Reject, MarkExpired, Validate, Activate,
              Join, BreakDeadlock, LandExpired, TouchesPairs
<1>5. ASSUME NEW w \in Workers,
             Ask(w) \/ (\E a, b \in Users : Invite(w, a, b))
               \/ \E i \in Invitations : Land(w, i)
      PROVE  TouchesPairs
  BY <1>5 DEF Ask, Invite, Land, Begin, TouchesPairs
<1>6. ASSUME NEW i \in Invitations, Expire(i) PROVE TouchesPairs
  BY <1>6 DEF Expire, TouchesPairs
<1>7. ASSUME NEW i \in Invitations, NEW u \in Users, EndPartnership(i, u) PROVE TouchesPairs
  BY <1>7 DEF EndPartnership, Closes, TouchesPairs
<1> QED
  BY <1>1, <1>2, <1>3, <1>4, <1>5, <1>6, <1>7 DEF Next

\* What was refused does not become active: a partnership is joined only
\* while it is pending, and then its invitation was not refused.
THEOREM RefusedStays == Spec => RefusedNeverActivates
<1> DEFINE Stays == \A i \in Invitations :
                      inv[i].status \in {"REVOKED", "REJECTED"} /\ status[i] # "ACTIVE"
                        => status'[i] # "ACTIVE"
<1>1. IInv /\ [Next]_vars => [Stays]_vars
  <2> SUFFICES ASSUME IInv, Next, NEW i \in Invitations,
                      inv[i].status \in {"REVOKED", "REJECTED"}, status[i] # "ACTIVE"
               PROVE  status'[i] # "ACTIVE"
    OBVIOUS
  <2>1. status[i] # "PENDING"
    BY DEF IInv, InvitationInv
  <2>2. status \in [Invitations -> {"NONE", "PENDING", "ACTIVE", "ENDED", "CANCELLED"}]
    BY DEF IInv, TypeOK
  <2>3. ASSUME NEW j \in Invitations, NEW u \in Users, Opens(j, u) \/ Joins(j, u)
        PROVE  status'[i] # "ACTIVE"
    BY <2>1, <2>2, <2>3 DEF Opens, Joins
  <2>4. ASSUME NEW j \in Invitations,
               Closes(j, "PENDING", "CANCELLED") \/ Closes(j, "ACTIVE", "ENDED")
        PROVE  status'[i] # "ACTIVE"
    BY <2>2, <2>4 DEF Closes
  <2> QED
    BY <2>3, <2>4, PartnershipSteps DEF TouchesPairs
<1> QED
  BY <1>1, Invariant, PTL DEF Spec, RefusedNeverActivates

\* The initial tables are those of Pairing.
LEMMA PairingInit == Init => P!Init
  BY DEF Init, P!Init, pairs

\* A step that changes one partnership changes one entry of pairs.
LEMMA PairsMoved ==
  ASSUME IInv, NEW i \in Invitations, NEW s, NEW m,
         status' = [status EXCEPT ![i] = s], members' = [members EXCEPT ![i] = m]
  PROVE  pairs' = [pairs EXCEPT ![i] = [state |-> s, people |-> m]]
  BY DEF IInv, TypeOK, pairs

\* Every step of a request is a step of Pairing, or leaves its state alone.
LEMMA PairingStep == IInv /\ [Next]_vars => [P!Next]_pairs
<1> SUFFICES ASSUME IInv, [Next]_vars PROVE [P!Next]_pairs
  OBVIOUS
<1>1. ASSUME UNCHANGED <<status, members>> PROVE UNCHANGED pairs
  BY <1>1 DEF pairs
<1>2. \A i \in Invitations : pairs[i].state = status[i] /\ pairs[i].people = members[i]
  BY DEF pairs
<1>3. ASSUME NEW i \in Invitations, NEW u \in Users, Opens(i, u) PROVE P!Next
  <2>1. P!Propose(i, u)
    BY <1>2, <1>3, PairsMoved DEF Opens, P!Propose, P!Alone
  <2> QED
    BY <2>1 DEF P!Next
<1>4. ASSUME NEW i \in Invitations, NEW u \in Users, Joins(i, u) PROVE P!Next
  <2>1. pairs' = [pairs EXCEPT ![i] = [state |-> "ACTIVE", people |-> members[i] \cup {u}]]
    BY <1>4, PairsMoved DEF Joins
  <2>2. P!Join(i, u)
    BY <1>2, <1>4, <2>1 DEF Joins, P!Join, P!Alone
  <2> QED
    BY <2>2 DEF P!Next
<1>5. ASSUME NEW i \in Invitations, Closes(i, "PENDING", "CANCELLED") PROVE P!Next
  <2>1. P!Cancel(i)
    BY <1>2, <1>5, PairsMoved DEF Closes, P!Cancel
  <2> QED
    BY <2>1 DEF P!Next
<1>6. ASSUME NEW i \in Invitations, Closes(i, "ACTIVE", "ENDED") PROVE P!Next
  <2>1. P!Leave(i)
    BY <1>2, <1>6, PairsMoved DEF Closes, P!Leave
  <2> QED
    BY <2>1 DEF P!Next
<1> QED
  BY <1>1, <1>3, <1>4, <1>5, <1>6, PartnershipSteps DEF vars, TouchesPairs

\* The requests, with their locks and transactions, implement Pairing.
THEOREM PairingImplemented == Spec => ImplementsPairing
  BY PairingInit, PairingStep, Invariant, PTL DEF Spec, ImplementsPairing, P!Spec

-----------------------------------------------------------------------------
(* Two people who do not resend.  A request that is about to insert holds   *)
(* the lock of its pair, so nobody invites in the other direction after it  *)
(* has looked.                                                              *)

Inserting(w) == call[w].at = "insert"

Between(w) == call[w].user \cup call[w].peer

PairInv ==
  /\ \A w \in Workers : call[w].at \notin {"resend", "reissue"}
  /\ \A w \in Workers : Inserting(w) =>
       \A i \in Invitations :
         Sent(i) => ~(inv[i].from = call[w].peer /\ inv[i].to = call[w].user)
  /\ \A v, w \in Workers : Inserting(v) /\ Inserting(w) /\ v # w => Between(v) # Between(w)

\* A step that sends nothing and lets nobody go on to insert.
SendsNothing ==
  /\ \A i \in Invitations :
       inv'[i].status = "SENT" =>
         inv[i].status = "SENT" /\ inv'[i].from = inv[i].from /\ inv'[i].to = inv[i].to
  /\ \A w \in Workers :
       call'[w].at \in {"insert", "resend", "reissue"} => call'[w] = call[w]

LEMMA QuietForPairs ==
  ASSUME PairInv, NotMutual, SendsNothing
  PROVE  PairInv' /\ NotMutual'
<1>1. NotMutual'
  BY DEF NotMutual, Sent, SendsNothing
<1>2. PairInv'
  BY DEF PairInv, Sent, SendsNothing, Inserting, Between
<1> QED
  BY <1>1, <1>2

\* A request that ends, or goes on to another place than the insert.
LEMMA CallsGoOn ==
  ASSUME IInv, NEW w \in Workers,
         \/ Done(w)
         \/ \E at \in {"validate", "activate", "join", "sign"} : Go(w, at)
         \/ \E seen : call' = [call EXCEPT ![w].at = "cancel", ![w].seen = seen]
  PROVE  \A v \in Workers :
           call'[v].at \in {"insert", "resend", "reissue"} => call'[v] = call[v]
<1>1. call \in [Workers -> CallType] /\ call[w] \in CallType
  BY DEF IInv, TypeOK, CallType
<1>2. \A v \in Workers \ {w} : call'[v] = call[v]
  BY <1>1 DEF Done, Go
<1>3. CASE Done(w)
  BY <1>1, <1>2, <1>3 DEF Done, Idle
<1>4. ASSUME NEW at \in {"validate", "activate", "join", "sign"}, Go(w, at)
      PROVE  call'[w].at \notin {"insert", "resend", "reissue"}
  BY <1>1, <1>4 DEF Go, CallType
<1>5. ASSUME NEW seen, call' = [call EXCEPT ![w].at = "cancel", ![w].seen = seen]
      PROVE  call'[w].at \notin {"insert", "resend", "reissue"}
  BY <1>1, <1>5 DEF CallType
<1> QED
  BY <1>2, <1>3, <1>4, <1>5

\* Requests begin somewhere else than at the insert.
LEMMA CallsBegin ==
  ASSUME ~Resends, IInv, NEW w \in Workers,
         \/ Ask(w)
         \/ \E a, b \in Users : Invite(w, a, b)
         \/ \E i \in Invitations : Land(w, i)
  PROVE  SendsNothing
<1>1. call \in [Workers -> CallType]
  BY DEF IInv, TypeOK, CallType
<1>2. ASSUME NEW u \in Users, NEW i \in Invitations, NEW seen,
             NEW at \in {"revoke", "expire", "reject", "land"}, Begin(w, at, u, i, seen)
      PROVE  SendsNothing
  BY <1>1, <1>2 DEF Begin, SendsNothing
<1>3. ASSUME NEW a \in Users, NEW b \in Users, Invite(w, a, b)
      PROVE  SendsNothing
  BY <1>1, <1>3 DEF Invite, Idle, SendsNothing
<1>4. ASSUME NEW i \in Invitations, Land(w, i)
      PROVE  SendsNothing
  <2>1. PICK u \in inv[i].to : Begin(w, "land", u, i, "SENT")
    BY <1>4 DEF Land
  <2>2. u \in Users
    BY <2>1 DEF IInv, TypeOK
  <2> QED
    BY <1>2, <2>1, <2>2
<1>5. CASE Ask(w)
  <2>1. PICK i \in Invitations, u \in Users :
          \/ Begin(w, "revoke", u, i, inv[i].status)
          \/ Begin(w, "expire", u, i, "NONE") \/ Begin(w, "reject", u, i, "NONE")
    BY <1>5 DEF Ask
  <2> QED
    BY <1>2, <2>1
<1> QED
  BY <1>3, <1>4, <1>5

\* The steps of a request but for create, insert and resend.
LEMMA WorksQuietly ==
  ASSUME IInv, NEW w \in Workers,
         \/ Revoke(w) \/ Reject(w) \/ Cancel(w)
         \/ MarkExpired(w) \/ Validate(w) \/ Activate(w) \/ Join(w) \/ Sign(w)
         \/ BreakDeadlock(w) \/ LandExpired(w)
  PROVE  SendsNothing
<1>1. \A v \in Workers :
        call'[v].at \in {"insert", "resend", "reissue"} => call'[v] = call[v]
  <2>1. \/ Done(w)
        \/ \E at \in {"validate", "activate", "join", "sign"} : Go(w, at)
        \/ \E seen : call' = [call EXCEPT ![w].at = "cancel", ![w].seen = seen]
    BY DEF Revoke, Reject, Cancel, MarkExpired, Validate, Activate, Join, Sign,
           BreakDeadlock, LandExpired
  <2> QED
    BY <2>1, CallsGoOn
<1>2. inv \in [Invitations -> InvType] /\ call[w] \in CallType /\ CallFits(call[w])
  BY CallIs DEF IInv, TypeOK, InvType
<1>3. \/ inv' = inv
      \/ \E s \in {"REVOKED", "REJECTED", "EXPIRED", "ACCEPTED"} :
           inv' = [inv EXCEPT ![call[w].id].status = s]
  <2>1. CASE Cancel(w)
    BY <1>2, <2>1 DEF Cancel, CallFits
  <2>2. CASE Revoke(w) \/ Reject(w) \/ Validate(w) \/ Activate(w) \/ Join(w) \/ BreakDeadlock(w)
    BY <2>2 DEF Revoke, Reject, Validate, Activate, Join, BreakDeadlock
  <2>3. CASE MarkExpired(w) \/ Sign(w) \/ LandExpired(w)
    BY <2>3 DEF MarkExpired, Sign, LandExpired
  <2> QED
    BY <2>1, <2>2, <2>3
<1>4. ASSUME NEW s \in {"REVOKED", "REJECTED", "EXPIRED", "ACCEPTED"}, NEW j,
             inv' = [inv EXCEPT ![j].status = s], NEW i \in Invitations,
             inv'[i].status = "SENT"
      PROVE  inv'[i] = inv[i]
  BY <1>2, <1>4 DEF InvType
<1> QED
  BY <1>1, <1>3, <1>4 DEF SendsNothing

\* create_invitation looks under the lock of its pair.
LEMMA CreateForPairs ==
  ASSUME IInv, PairInv, NotMutual, NEW w \in Workers, Create(w)
  PROVE  PairInv' /\ NotMutual'
<1>1. call \in [Workers -> CallType] /\ inv \in [Invitations -> InvType]
  BY DEF IInv, TypeOK, CallType, InvType
<1>2. PICK a \in Users, b \in Users : a # b /\ call[w].user = {a} /\ call[w].peer = {b}
  BY CallIs DEF Create, CallFits
<1>3. User(w) = a /\ Peer(w) = b
  BY <1>2, UserIs, PeerIs
<1>4. CASE UNCHANGED inv /\ Done(w)
  <2>1. SendsNothing
    BY <1>4, CallsGoOn DEF SendsNothing
  <2> QED
    BY <2>1, QuietForPairs
<1>5. ASSUME NEW i \in SentBetween(a, b), Reissued(i), Done(w)
      PROVE  PairInv' /\ NotMutual'
  <2>1. i \in Invitations /\ inv[i].status = "SENT"
    BY DEF SentBetween, Sent
  <2>2. \A j \in Invitations :
          /\ inv'[j].status = inv[j].status
          /\ inv'[j].from = inv[j].from /\ inv'[j].to = inv[j].to
    BY <1>1, <1>5, <2>1 DEF Reissued, InvType
  <2>3. SendsNothing
    BY <1>5, <2>2, CallsGoOn DEF SendsNothing
  <2> QED
    BY <2>3, QuietForPairs
<1>6. CASE UNCHANGED inv /\ Go(w, "insert") /\ SentBetween(b, a) = {} /\ PairFree(a, b)
  <2>1. /\ \A v \in Workers \ {w} : call'[v] = call[v]
        /\ call'[w].at = "insert" /\ call'[w].user = {a} /\ call'[w].peer = {b}
    BY <1>1, <1>2, <1>6 DEF Go, CallType
  <2>2. \A v \in Workers : Inserting(v) => Between(v) # {a, b}
    BY <1>6 DEF PairFree, Inserting, Between
  <2>3. \A i \in Invitations : Sent(i) => ~(inv[i].from = {b} /\ inv[i].to = {a})
    BY <1>6 DEF SentBetween
  <2>4. NotMutual'
    BY <1>6 DEF NotMutual, Sent
  <2>5. \A v \in Workers : call'[v].at \notin {"resend", "reissue"}
    BY <2>1 DEF PairInv
  <2>6. \A v \in Workers : call'[v].at = "insert" =>
          \A i \in Invitations :
            inv'[i].status = "SENT" => ~(inv'[i].from = call'[v].peer /\ inv'[i].to = call'[v].user)
    BY <1>6, <2>1, <2>3 DEF PairInv, Inserting, Sent
  <2>7. \A v \in Workers \ {w} : Inserting(v)' => Inserting(v) /\ Between(v)' = Between(v)
    BY <2>1 DEF Inserting, Between
  <2>8. Between(w)' = {a, b}
    BY <2>1 DEF Between
  <2>9. \A u, v \in Workers :
          Inserting(u)' /\ Inserting(v)' /\ u # v => Between(u)' # Between(v)'
    BY <2>2, <2>7, <2>8 DEF PairInv
  <2>10. PairInv'
    BY <2>5, <2>6, <2>9 DEF PairInv, Inserting, Sent
  <2> QED
    BY <2>4, <2>10
<1> QED
  BY <1>3, <1>4, <1>5, <1>6 DEF Create

\* The insert, still under the lock.
LEMMA InsertForPairs ==
  ASSUME IInv, PairInv, NotMutual, NEW w \in Workers, Insert(w)
  PROVE  PairInv' /\ NotMutual'
<1>1. call \in [Workers -> CallType] /\ inv \in [Invitations -> InvType]
  BY DEF IInv, TypeOK, CallType, InvType
<1>2. call[w].at = "insert" /\ Done(w)
  BY DEF Insert
<1>3. PICK a \in Users, b \in Users : a # b /\ call[w].user = {a} /\ call[w].peer = {b}
  BY <1>2, CallIs DEF CallFits
<1>4. User(w) = a /\ Peer(w) = b
  BY <1>3, UserIs, PeerIs
<1>5. CASE UNCHANGED inv
  <2>1. SendsNothing
    BY <1>2, <1>5, CallsGoOn DEF SendsNothing
  <2> QED
    BY <2>1, QuietForPairs
<1>6. ASSUME NEW i \in Fresh,
             inv' = [inv EXCEPT ![i] = [from |-> {a}, to |-> {b}, status |-> "SENT",
                                        expired |-> FALSE]]
      PROVE  PairInv' /\ NotMutual'
  <2>1. /\ i \in Invitations /\ inv'[i].status = "SENT"
        /\ inv'[i].from = {a} /\ inv'[i].to = {b}
        /\ \A j \in Invitations \ {i} : inv'[j] = inv[j]
    BY <1>1, <1>6 DEF Fresh
  <2>2. \A j \in Invitations : Sent(j) => ~(inv[j].from = {b} /\ inv[j].to = {a})
    BY <1>2, <1>3 DEF PairInv, Inserting
  <2>3. NotMutual'
    <3> SUFFICES ASSUME NEW j \in Invitations, NEW k \in Invitations,
                        inv'[j].status = "SENT", inv'[k].status = "SENT",
                        inv'[j].from = inv'[k].to, inv'[j].to = inv'[k].from
                 PROVE  FALSE
      BY DEF NotMutual, Sent
    <3>1. CASE j = i /\ k = i
      BY <1>3, <2>1, <3>1
    <3>2. CASE j = i /\ k # i
      BY <2>1, <2>2, <3>2 DEF Sent
    <3>3. CASE j # i /\ k = i
      BY <2>1, <2>2, <3>3 DEF Sent
    <3>4. CASE j # i /\ k # i
      BY <2>1, <3>4 DEF NotMutual, Sent
    <3> QED
      BY <3>1, <3>2, <3>3, <3>4
  <2>4. /\ \A v \in Workers \ {w} : call'[v] = call[v]
        /\ call'[w].at = "idle"
    BY <1>1, <1>2 DEF Done, Idle
  <2>5. \A v \in Workers : call'[v].at \notin {"resend", "reissue"}
    BY <2>4 DEF PairInv
  <2>6. ASSUME NEW v \in Workers \ {w}, call[v].at = "insert", NEW j \in Invitations,
               inv'[j].status = "SENT"
        PROVE  ~(inv'[j].from = call[v].peer /\ inv'[j].to = call[v].user)
    <3>1. CASE j = i
      <4>1. Between(v) # Between(w)
        BY <1>2, <2>6 DEF PairInv, Inserting
      <4> QED
        BY <1>3, <2>1, <3>1, <4>1 DEF Between
    <3>2. CASE j # i
      BY <2>1, <2>6, <3>2 DEF PairInv, Inserting, Sent
    <3> QED
      BY <3>1, <3>2
  <2>7. \A u, v \in Workers :
          Inserting(u)' /\ Inserting(v)' /\ u # v => Between(u)' # Between(v)'
    BY <2>4 DEF PairInv, Inserting, Between
  <2>8. PairInv'
    BY <2>4, <2>5, <2>6, <2>7 DEF PairInv, Inserting, Sent
  <2> QED
    BY <2>3, <2>8
<1>7. CASE Fresh = {}
  BY <1>5, <1>7 DEF Insert
<1>8. CASE Fresh # {}
  BY <1>4, <1>5, <1>6, <1>8 DEF Insert
<1> QED
  BY <1>7, <1>8

LEMMA PairNext ==
  ASSUME ~Resends, IInv, PairInv, NotMutual, [Next]_vars
  PROVE  PairInv' /\ NotMutual'
<1>1. CASE \E w \in Workers :
             \/ Ask(w)
             \/ \E a, b \in Users : Invite(w, a, b)
             \/ \E i \in Invitations : Land(w, i)
  BY <1>1, CallsBegin, QuietForPairs
<1>2. ASSUME NEW w \in Workers, Work(w)
      PROVE  PairInv' /\ NotMutual'
  <2>1. CASE Create(w)
    BY <2>1, CreateForPairs
  <2>2. CASE Insert(w)
    BY <2>2, InsertForPairs
  <2>3. CASE Resend(w) \/ Reissue(w)
    BY <2>3 DEF Resend, Reissue, PairInv
  <2>4. CASE \/ Revoke(w) \/ Reject(w) \/ Cancel(w)
             \/ MarkExpired(w) \/ Validate(w) \/ Activate(w) \/ Join(w) \/ Sign(w)
             \/ BreakDeadlock(w) \/ LandExpired(w)
    BY <2>4, WorksQuietly, QuietForPairs
  <2> QED
    BY <1>2, <2>1, <2>2, <2>3, <2>4 DEF Work
<1>3. CASE \E i \in Invitations : Expire(i)
  <2>1. PICK i \in Invitations : Expire(i)
    BY <1>3
  <2>2. inv \in [Invitations -> InvType]
    BY DEF IInv, TypeOK, InvType
  <2>3. \A j \in Invitations :
          /\ inv'[j].status = inv[j].status
          /\ inv'[j].from = inv[j].from /\ inv'[j].to = inv[j].to
    BY <2>1, <2>2 DEF Expire, InvType
  <2>4. SendsNothing
    BY <2>1, <2>3 DEF Expire, SendsNothing
  <2> QED
    BY <2>4, QuietForPairs
<1>4. CASE \E i \in Invitations : \E u \in Users : EndPartnership(i, u)
  <2>1. SendsNothing
    BY <1>4 DEF EndPartnership, SendsNothing
  <2> QED
    BY <2>1, QuietForPairs
<1>5. CASE UNCHANGED vars
  <2>1. SendsNothing
    BY <1>5 DEF vars, SendsNothing
  <2> QED
    BY <2>1, QuietForPairs
<1> QED
  BY <1>1, <1>2, <1>3, <1>4, <1>5 DEF Next

\* Two people who do not resend never have invitations to each other that both
\* wait for an answer, though both may be created at the same moment
\* (create_invitation and its lock of the pair).
THEOREM NoCrossing ==
  ASSUME ~Resends
  PROVE  Spec => []NotMutual
<1>1. Init => PairInv /\ NotMutual
  BY DEF Init, PairInv, NotMutual, Inserting, Between, Sent, Idle, NoInvitation
<1>2. IInv /\ PairInv /\ NotMutual /\ [Next]_vars => PairInv' /\ NotMutual'
  BY PairNext
<1> QED
  BY <1>1, <1>2, Invariant, PTL DEF Spec
=============================================================================
