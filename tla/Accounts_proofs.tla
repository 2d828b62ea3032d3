---------------------------- MODULE Accounts_proofs ----------------------------
(***************************************************************************)
(* Proofs about Accounts: what it takes to be marked verified and to have  *)
(* a session, when a token goes away, and what a window of the limiter     *)
(* lets through, for any users, addresses, plans and requests at a time.   *)
(***************************************************************************)
EXTENDS Accounts, FiniteSetTheorems, TLAPS

-----------------------------------------------------------------------------
(***************************************************************************)
(* Types.  A request is loaded once it holds the row of a user.            *)
(***************************************************************************)
RequestRows ==
    [kind : Kinds \cup {"none"}, at : Places, bucket : Buckets \cup {<<"none", "none">>},
     user : Users \cup {0}, row : Rows, link : Links \cup {NoLink},
     email : Emails \cup {NoEmail}, record : TokenRows,
     session : Ids \cup {0}, listed : SUBSET Ids]

SessionRows == [user : Users, password : Ids]

LimiterPlaces == {"check", "add", "incr", "again", "block"}

TableTypes ==
    /\ account \in [Users -> Rows]
    /\ token \in [Users -> [Purposes -> TokenRows]]
    /\ mailed \subseteq Links
    /\ proven \subseteq Users \X Emails
    /\ DOMAIN session \subseteq Ids
    /\ \A k \in DOMAIN session : session[k] \in SessionRows

TypeInv == TableTypes /\ request \in [Requests -> RequestRows]

Whole(row) == row.email \in Emails /\ row.password \in Ids

Loaded(q) ==
    \/ q.kind \in Authed \cup {"reset", "verify"}
    \/ q.at \in {"forget", "issue", "clear", "open"}

(***************************************************************************)
(* What a request holds: the row it has loaded is a whole row of somebody  *)
(* registered, a form came with an address, a link came from a mailbox.    *)
(***************************************************************************)
HeldWhole(q) ==
    Loaded(q) => q.user \in Users /\ account[q.user] # Nobody /\ Whole(q.row)
HeldAddress(q) ==
    q.kind \in {"register", "resend", "login", "forgot", "address"} => q.email \in Emails
HeldLink(q) ==
    q.kind = "verify" => q.link \in mailed /\ q.link.user = q.user /\ q.link.purpose \in Purposes
HeldBucket(q) == q.at \in LimiterPlaces => q.bucket \in Buckets

RowsInv ==
    /\ \A u \in Users : account[u] = Nobody \/ Whole(account[u])
    /\ \A l \in mailed : account[l.user] # Nobody
    /\ \A l \in mailed : l.purpose \in Purposes => l.id \in Ids

-----------------------------------------------------------------------------
(***************************************************************************)
(* The addresses of a user that are anywhere in the system as the address  *)
(* of the account: in the row, in a copy of the row a request holds, and   *)
(* in the links that confirm it.  Until one of them is proven there is     *)
(* only one, and from then on they all are.                                *)
(***************************************************************************)
Holds(q, u, e) == Loaded(q) /\ q.user = u /\ q.row.email = e
Confirms(l, u, e) == l.purpose = "verify_email" /\ l.user = u /\ l.to = e

HasAddress(u, e) ==
    \/ account[u] # Nobody /\ account[u].email = e
    \/ \E r \in Requests : Holds(request[r], u, e)
    \/ \E l \in mailed : Confirms(l, u, e)

Proven(u) == \E e \in Emails : <<u, e>> \in proven

AllProven == \A u \in Users, e \in Emails : HasAddress(u, e) /\ Proven(u) => <<u, e>> \in proven
OneAddress ==
    \A u \in Users, e, f \in Emails : HasAddress(u, e) /\ HasAddress(u, f) /\ ~Proven(u) => e = f

(***************************************************************************)
(* Who has proven an address: whoever is marked verified, has a session,   *)
(* acts in one, is about to get one, or was sent a link to another address.*)
(***************************************************************************)
Trusts(q) ==
    /\ Loaded(q) /\ q.row.verified => Proven(q.user)
    /\ q.kind \in Authed => Proven(q.user)
    /\ q.at \in {"clear", "open"} => Proven(q.user)

TrustInv ==
    /\ \A u \in Users : Proven(u) => account[u] # Nobody
    /\ \A u \in Users : account[u].verified => Proven(u)
    /\ \A k \in DOMAIN session : Proven(session[k].user)
    /\ \A l \in mailed : l.purpose = "change_email" => Proven(l.user)

(***************************************************************************)
(* A link that changes the address names the address of its token, for as  *)
(* long as that token exists, and so does a request that has looked it up. *)
(***************************************************************************)
Names(l) ==
    l.purpose = "change_email" /\ token[l.user]["change_email"].id = l.id
      => token[l.user]["change_email"].to = l.to
Found(q) ==
    q.kind = "verify" /\ q.at = "apply" /\ q.link.purpose = "change_email"
      => q.record.to = q.link.to

LinkInv == \A l \in mailed : Names(l)

Meets(q) ==
    /\ HeldWhole(q)
    /\ HeldAddress(q)
    /\ HeldLink(q)
    /\ Trusts(q)
    /\ Found(q)
RequestsInv == \A r \in Requests : Meets(request[r])

AddressInv == AllProven /\ OneAddress

AccountsInv ==
    /\ TypeInv
    /\ RequestsInv
    /\ RowsInv
    /\ AddressInv
    /\ TrustInv
    /\ LinkInv

-----------------------------------------------------------------------------
(***************************************************************************)
(* The limiter.  Every admission is counted, except that of a request that *)
(* had lost its counter and adds again to the counter of the next window;  *)
(* while a counter exists no request loses it, and one of the requests was *)
(* the one that created it.                                                *)
(***************************************************************************)
Again(b) == {r \in Requests : request[r].at = "again" /\ request[r].bucket = b}
Counted(b) == IF count[b] < Limit THEN count[b] ELSE Limit

LimiterTypes ==
    /\ count \in [Buckets -> Nat]
    /\ blocked \in [Buckets -> BOOLEAN]
    /\ admitted \in [Buckets -> Nat]

BucketInv(b) ==
    IF count[b] = 0 THEN admitted[b] = 0
    ELSE admitted[b] + Cardinality(Again(b)) <= Counted(b) + Cardinality(Requests) - 1

LimiterInv ==
    /\ LimiterTypes
    /\ \A r \in Requests : HeldBucket(request[r])
    /\ \A b \in Buckets : BucketInv(b)

-----------------------------------------------------------------------------
(* Requests.                                                               *)

LEMMA Constants ==
  /\ NoEmail \notin Emails
  /\ Ids \subseteq Nat /\ 0 \notin Ids /\ 1 \in Ids
  /\ 0 \notin Users
BY AccountsAssumption

LEMMA EmptyRows ==
  /\ Nobody \in Rows
  /\ NoToken \in TokenRows
  /\ Idle \in RequestRows
<1>1. Nobody \in Rows
  BY DEF Nobody, Rows
<1>2. NoToken \in TokenRows
  BY DEF NoToken, TokenRows
<1>3. Idle \in RequestRows
  BY <1>1, <1>2 DEF Idle, RequestRows, Places
<1> QED
  BY <1>1, <1>2, <1>3

LEMMA WholeIsSomebody ==
  ASSUME NEW row, Whole(row)
  PROVE  row # Nobody
BY Constants DEF Whole, Nobody

(* Nothing a request relies on is ever withdrawn.                          *)
Grown ==
  /\ \A u \in Users : account[u] # Nobody => account'[u] # Nobody
  /\ mailed \subseteq mailed'
  /\ proven \subseteq proven'

LEMMA StillMeets ==
  ASSUME Grown, NEW q, Meets(q)
  PROVE  Meets(q)'
<1>1. HeldWhole(q)'
  BY DEF Meets, HeldWhole, Grown, Loaded, Whole
<1>2. HeldAddress(q)'
  BY DEF Meets, HeldAddress
<1>3. HeldLink(q)'
  BY DEF Meets, HeldLink, Grown
<1>4. \A u : Proven(u) => Proven(u)'
  BY DEF Grown, Proven
<1>5. Trusts(q)'
  BY <1>4 DEF Meets, Trusts, Loaded
<1>6. Found(q)'
  BY DEF Meets, Found
<1> QED
  BY <1>1, <1>2, <1>3, <1>5, <1>6 DEF Meets

LEMMA StillRequests ==
  ASSUME TypeInv, RequestsInv, Grown, request' = request
  PROVE  request' \in [Requests -> RequestRows] /\ RequestsInv'
<1>1. request' \in [Requests -> RequestRows]
  BY DEF TypeInv
<1>2. ASSUME NEW s \in Requests
      PROVE  Meets(request[s])'
  <2> PICK q : q = request[s]
    OBVIOUS
  <2>1. Meets(q)
    BY DEF RequestsInv
  <2>2. Meets(q)'
    BY <2>1, StillMeets
  <2>3. q = request'[s]
    OBVIOUS
  <2> QED
    BY ONLY <2>2, <2>3
<1> QED
  BY <1>1, <1>2 DEF RequestsInv

LEMMA OneRequest ==
  ASSUME TypeInv, RequestsInv, Grown, NEW r \in Requests, NEW q \in RequestRows, Meets(q)',
         request' = [request EXCEPT ![r] = q]
  PROVE  request' \in [Requests -> RequestRows] /\ RequestsInv'
<1>1. request' \in [Requests -> RequestRows]
  BY DEF TypeInv
<1>2. ASSUME NEW s \in Requests
      PROVE  Meets(request[s])'
  <2>1. CASE s = r
    <3>1. q = request'[s]
      BY <2>1 DEF TypeInv
    <3> QED
      BY ONLY <3>1, Meets(q)'
  <2>2. CASE s # r
    <3> PICK x : x = request[s]
      OBVIOUS
    <3>1. Meets(x)
      BY DEF RequestsInv
    <3>2. Meets(x)'
      BY <3>1, StillMeets
    <3>3. x = request'[s]
      BY <2>2 DEF TypeInv
    <3> QED
      BY ONLY <3>2, <3>3
  <2> QED
    BY <2>1, <2>2
<1> QED
  BY <1>1, <1>2 DEF RequestsInv

LEMMA IdleMeets == Meets(Idle) /\ Meets(Idle)' /\ ~Loaded(Idle)
BY DEF Meets, Idle, HeldWhole, HeldAddress, HeldLink, Trusts, Found, Loaded, Authed

LEMMA Ended ==
  ASSUME TypeInv, RequestsInv, Grown, NEW r \in Requests, Ends(r)
  PROVE  request' \in [Requests -> RequestRows] /\ RequestsInv'
BY OneRequest, IdleMeets, EmptyRows DEF Ends

-----------------------------------------------------------------------------
(* Addresses.                                                              *)

LEMMA AddressesKept ==
  ASSUME AddressInv, proven' = proven,
         \A u \in Users, e \in Emails :
           account'[u] # Nobody /\ account'[u].email = e => HasAddress(u, e),
         \A r \in Requests, u \in Users, e \in Emails :
           Holds(request'[r], u, e) => HasAddress(u, e),
         \A l \in mailed', u \in Users, e \in Emails : Confirms(l, u, e) => HasAddress(u, e)
  PROVE  AddressInv'
<1>1. ASSUME NEW u \in Users, NEW e \in Emails, HasAddress(u, e)'
      PROVE  HasAddress(u, e)
  BY <1>1 DEF HasAddress, Holds, Confirms, Loaded
<1>2. \A u \in Users : Proven(u)' <=> Proven(u)
  BY DEF Proven
<1> QED
  BY <1>1, <1>2 DEF AddressInv, AllProven, OneAddress

LEMMA OwnAddresses ==
  /\ \A u \in Users, e \in Emails :
       account[u] # Nobody /\ account[u].email = e => HasAddress(u, e)
  /\ \A r \in Requests, u \in Users, e \in Emails :
       Holds(request[r], u, e) => HasAddress(u, e)
  /\ \A l \in mailed, u \in Users, e \in Emails : Confirms(l, u, e) => HasAddress(u, e)
BY DEF HasAddress

LEMMA RequestAddresses ==
  ASSUME TypeInv, NEW r \in Requests, NEW q, request' = [request EXCEPT ![r] = q],
         \A u \in Users, e \in Emails : Holds(q, u, e) => HasAddress(u, e)
  PROVE  \A s \in Requests, u \in Users, e \in Emails :
           Holds(request'[s], u, e) => HasAddress(u, e)
<1> TAKE s \in Requests, u \in Users, e \in Emails
<1>1. request'[s] = IF s = r THEN q ELSE request[s]
  BY DEF TypeInv
<1>2. Holds(request[s], u, e) => HasAddress(u, e)
  BY OwnAddresses
<1>3. CASE s = r
  BY <1>1, <1>3
<1>4. CASE s # r
  BY <1>1, <1>2, <1>4
<1> QED
  BY <1>3, <1>4

(* A step of a request that touches no table.                              *)
LEMMA QuietStep ==
  ASSUME AccountsInv, NEW r \in Requests, NEW q \in RequestRows, Meets(q),
         request' = [request EXCEPT ![r] = q],
         \A u \in Users, e \in Emails : Holds(q, u, e) => HasAddress(u, e),
         UNCHANGED <<account, token, mailed, proven, session>>
  PROVE  AccountsInv'
<1>1. Grown
  BY DEF Grown
<1>2. Meets(q)'
  BY <1>1, StillMeets
<1>3. request' \in [Requests -> RequestRows] /\ RequestsInv'
  BY <1>1, <1>2, OneRequest DEF AccountsInv
<1>4. TypeInv'
  BY <1>3 DEF AccountsInv, TypeInv, TableTypes
<1>5. RowsInv'
  BY DEF AccountsInv, RowsInv
<1>6. AddressInv'
  BY AddressesKept, OwnAddresses, RequestAddresses DEF AccountsInv
<1>7. TrustInv'
  BY DEF AccountsInv, TrustInv, Proven
<1>8. LinkInv'
  BY DEF AccountsInv, LinkInv, Names
<1> QED
  BY <1>3, <1>4, <1>5, <1>6, <1>7, <1>8 DEF AccountsInv

LEMMA EndsQuietly ==
  ASSUME AccountsInv, NEW r \in Requests, Ends(r),
         UNCHANGED <<account, token, mailed, proven, session>>
  PROVE  AccountsInv'
<1>1. \A u, e : ~Holds(Idle, u, e)
  BY IdleMeets DEF Holds
<1> QED
  BY <1>1, QuietStep, EmptyRows, IdleMeets DEF Ends

(* A place that a request may go to with what it holds.                    *)
Open(q, place) ==
  /\ place \in Places \ {"apply"}
  /\ place \in {"clear", "open", "forget", "issue"} => Loaded(q)
  /\ place \in {"clear", "open"} => Proven(q.user)

LEMMA MovedOn ==
  ASSUME NEW x \in RequestRows, Meets(x), NEW place, Open(x, place),
         NEW q, q = [x EXCEPT !.at = place]
  PROVE  /\ q \in RequestRows
         /\ Meets(q)
         /\ \A u, e : Holds(q, u, e) => Holds(x, u, e)
<1>1. /\ q \in RequestRows
      /\ q.kind = x.kind /\ q.user = x.user /\ q.row = x.row /\ q.email = x.email
      /\ q.link = x.link /\ q.at = place
  BY DEF Open, RequestRows
<1>2. Loaded(q) => Loaded(x)
  BY <1>1 DEF Loaded, Open
<1>3. HeldWhole(q) /\ HeldAddress(q) /\ HeldLink(q)
  BY <1>1, <1>2 DEF Meets, HeldWhole, HeldAddress, HeldLink
<1>4. Trusts(q)
  BY <1>1, <1>2 DEF Meets, Trusts, Open
<1>5. Found(q)
  BY <1>1 DEF Found, Open
<1>6. \A u, e : Holds(q, u, e) => Holds(x, u, e)
  BY <1>1, <1>2 DEF Holds
<1> QED
  BY <1>1, <1>3, <1>4, <1>5, <1>6 DEF Meets

LEMMA GoesQuietly ==
  ASSUME AccountsInv, NEW r \in Requests, NEW place, Goes(r, place), Open(request[r], place),
         UNCHANGED <<account, token, mailed, proven, session>>
  PROVE  AccountsInv'
<1> PICK x : x = request[r]
  OBVIOUS
<1> PICK q : q = [x EXCEPT !.at = place]
  OBVIOUS
<1>1. x \in RequestRows /\ Meets(x)
  BY DEF AccountsInv, TypeInv, RequestsInv
<1>2. /\ q \in RequestRows
      /\ Meets(q)
      /\ \A u, e : Holds(q, u, e) => Holds(x, u, e)
  BY <1>1, MovedOn
<1>3. request' = [request EXCEPT ![r] = q]
  BY DEF Goes, AccountsInv, TypeInv
<1>4. \A u \in Users, e \in Emails : Holds(q, u, e) => HasAddress(u, e)
  BY <1>2, OwnAddresses
<1> QED
  BY <1>2, <1>3, <1>4, QuietStep

-----------------------------------------------------------------------------
(* The steps of a request that touch no table.                             *)

LEMMA PostStep ==
  ASSUME AccountsInv, NEW r \in Requests, NEW kind \in Kinds, Post(r, kind)
  PROVE  AccountsInv'
<1> PICK e \in Emails :
      Arrives(r, [Idle EXCEPT !.kind = kind, !.at = "check", !.email = e,
                    !.bucket = IF kind = "register" THEN <<kind, "client">> ELSE <<kind, e>>])
  BY DEF Post
<1> PICK b : b = IF kind = "register" THEN <<kind, "client">> ELSE <<kind, e>>
  OBVIOUS
<1> PICK q : q = [Idle EXCEPT !.kind = kind, !.at = "check", !.email = e, !.bucket = b]
  OBVIOUS
<1>1. kind \in {"register", "resend", "login", "forgot"}
  BY DEF Post
<1>2. b \in Buckets
  BY <1>1, AccountsAssumption DEF AllBuckets
<1>3. /\ q \in RequestRows
      /\ q.kind = kind /\ q.at = "check" /\ q.email = e
  BY <1>2, EmptyRows, ZenonT(30) DEF Idle, RequestRows, Places
<1>4. ~Loaded(q)
  BY <1>1, <1>3 DEF Loaded, Authed
<1>5. Meets(q)
  BY <1>1, <1>3, <1>4
     DEF Meets, HeldWhole, HeldAddress, HeldLink, Trusts, Found, Authed
<1>6. \A u, f : ~Holds(q, u, f)
  BY <1>4 DEF Holds
<1> QED
  BY <1>3, <1>5, <1>6, QuietStep DEF Arrives

(* A request that arrives with the row of somebody who is known.           *)
LEMMA Welcome ==
  ASSUME AccountsInv, NEW q \in RequestRows, NEW u \in Users, account[u] # Nobody,
         q.user = u, q.row = account[u], q.kind \in Authed \cup {"reset", "verify"},
         q.at \notin {"clear", "open", "apply"},
         q.kind \in Authed => Proven(u),
         q.kind = "address" => q.email \in Emails,
         q.kind = "verify" => q.link \in mailed /\ q.link.user = u /\ q.link.purpose \in Purposes
  PROVE  /\ Meets(q)
         /\ \A v \in Users, e \in Emails : Holds(q, v, e) => HasAddress(v, e)
<1>1. HeldWhole(q)
  BY DEF HeldWhole, AccountsInv, RowsInv
<1>2. HeldAddress(q)
  BY DEF HeldAddress, Authed
<1>3. HeldLink(q)
  BY DEF HeldLink
<1>4. Trusts(q)
  BY DEF Trusts, AccountsInv, TrustInv
<1>5. Found(q)
  BY DEF Found
<1>6. \A v \in Users, e \in Emails : Holds(q, v, e) => HasAddress(v, e)
  BY OwnAddresses DEF Holds
<1> QED
  BY <1>1, <1>2, <1>3, <1>4, <1>5, <1>6 DEF Meets

LEMMA OpenLinkStep ==
  ASSUME AccountsInv, NEW r \in Requests, OpenLink(r)
  PROVE  AccountsInv'
<1> PICK l \in mailed :
      /\ l.purpose \in Purposes
      /\ Arrives(r, [Idle EXCEPT !.kind = "verify", !.at = "lookup", !.user = l.user,
                                 !.row = account[l.user], !.link = l])
  BY DEF OpenLink
<1> PICK u : u = l.user
  OBVIOUS
<1> PICK row : row = account[u]
  OBVIOUS
<1> PICK q : q = [Idle EXCEPT !.kind = "verify", !.at = "lookup", !.user = u,
                              !.row = row, !.link = l]
  OBVIOUS
<1>1. l \in Links /\ u \in Users /\ account[u] # Nobody /\ row \in Rows
  BY DEF AccountsInv, TypeInv, TableTypes, RowsInv, Links
<1>2. /\ q \in RequestRows
      /\ q.kind = "verify" /\ q.at = "lookup" /\ q.user = u /\ q.row = row /\ q.link = l
  BY <1>1, EmptyRows, ZenonT(30) DEF Idle, RequestRows, Places, Kinds
<1>3. Meets(q) /\ \A v \in Users, e \in Emails : Holds(q, v, e) => HasAddress(v, e)
  <2>1. /\ q.kind \notin Authed
        /\ q.kind \in Authed \cup {"reset", "verify"}
        /\ q.kind # "address"
        /\ q.at \notin {"clear", "open", "apply"}
    BY <1>2 DEF Authed
  <2>2. q.link \in mailed /\ q.link.user = u /\ q.link.purpose \in Purposes
    BY <1>2
  <2>3. q \in RequestRows /\ account[u] # Nobody /\ q.user = u /\ q.row = account[u]
    BY <1>1, <1>2
  <2> QED
    BY ONLY AccountsInv, <1>1, <2>1, <2>2, <2>3, Welcome
<1> QED
  BY <1>2, <1>3, QuietStep DEF Arrives

LEMMA OpenResetLinkStep ==
  ASSUME AccountsInv, NEW r \in Requests, OpenResetLink(r)
  PROVE  AccountsInv'
<1> PICK l \in mailed :
      Arrives(r, [Idle EXCEPT !.kind = "reset", !.at = "check", !.user = l.user,
                              !.row = account[l.user], !.link = l,
                              !.bucket = <<"reset", l.user>>])
  BY DEF OpenResetLink
<1> PICK u : u = l.user
  OBVIOUS
<1> PICK row : row = account[u]
  OBVIOUS
<1> PICK b : b = <<"reset", u>>
  OBVIOUS
<1> PICK q : q = [Idle EXCEPT !.kind = "reset", !.at = "check", !.user = u,
                              !.row = row, !.link = l, !.bucket = b]
  OBVIOUS
<1>1. l \in Links /\ u \in Users /\ account[u] # Nobody /\ row \in Rows
  BY DEF AccountsInv, TypeInv, TableTypes, RowsInv, Links
<1>2. b \in Buckets
  BY <1>1, AccountsAssumption DEF AllBuckets
<1>3. /\ q \in RequestRows
      /\ q.kind = "reset" /\ q.at = "check" /\ q.user = u /\ q.row = row /\ q.link = l
  BY <1>1, <1>2, EmptyRows, ZenonT(30) DEF Idle, RequestRows, Places, Kinds, Limited
<1>4. Meets(q) /\ \A v \in Users, e \in Emails : Holds(q, v, e) => HasAddress(v, e)
  BY <1>1, <1>3, Welcome, ZenonT(30) DEF Authed
<1> QED
  BY <1>3, <1>4, QuietStep DEF Arrives

LEMMA SignedInStep ==
  ASSUME AccountsInv, NEW r \in Requests, NEW kind \in Kinds, SignedIn(r, kind)
  PROVE  AccountsInv'
<1> DEFINE place == CASE kind = "address" -> "form"
                      [] kind = "password" -> "save"
                      [] kind = "everywhere" -> "list"
<1>0. kind \in Authed
  BY DEF SignedIn
<1> PICK k \in DOMAIN session :
      \E e \in Emails :
        Arrives(r, [Idle EXCEPT !.kind = kind, !.at = place,
                      !.user = session[k].user, !.row = account[session[k].user],
                      !.session = k, !.email = IF kind = "address" THEN e ELSE NoEmail])
  BY DEF SignedIn
<1> PICK e \in Emails :
        Arrives(r, [Idle EXCEPT !.kind = kind, !.at = place,
                      !.user = session[k].user, !.row = account[session[k].user],
                      !.session = k, !.email = IF kind = "address" THEN e ELSE NoEmail])
  OBVIOUS
<1> PICK u : u = session[k].user
  OBVIOUS
<1> PICK row : row = account[u]
  OBVIOUS
<1> PICK f : f = IF kind = "address" THEN e ELSE NoEmail
  OBVIOUS
<1> PICK at : at = place
  OBVIOUS
<1> PICK q : q = [Idle EXCEPT !.kind = kind, !.at = at, !.user = u, !.row = row,
                              !.session = k, !.email = f]
  OBVIOUS
<1>1. k \in Ids /\ u \in Users /\ Proven(u) /\ account[u] # Nobody /\ row \in Rows
  BY DEF AccountsInv, TypeInv, TableTypes, TrustInv, SessionRows
<1>2. at \in {"form", "save", "list"}
  BY <1>0 DEF Authed
<1> HIDE DEF place
<1>3. /\ at \in Places
      /\ f \in Emails \cup {NoEmail}
      /\ kind = "address" => f \in Emails
  BY <1>2 DEF Places
<1>4. /\ q \in RequestRows
      /\ q.kind = kind /\ q.at = at /\ q.user = u /\ q.row = row /\ q.email = f
  <2>1. q = [kind |-> kind, at |-> at, bucket |-> <<"none", "none">>, user |-> u, row |-> row,
             link |-> NoLink, email |-> f, record |-> NoToken, session |-> k, listed |-> {}]
    BY DEF Idle
  <2>2. NoToken \in TokenRows
    BY EmptyRows
  <2>3. k \in Ids \cup {0} /\ {} \in SUBSET Ids /\ u \in Users \cup {0} /\ row \in Rows
    BY <1>1
  <2>4. kind \in Kinds \cup {"none"} /\ NoLink \in Links \cup {NoLink}
    OBVIOUS
  <2>5. <<"none", "none">> \in Buckets \cup {<<"none", "none">>}
    OBVIOUS
  <2>6. q \in RequestRows
    BY ONLY <1>3, <2>1, <2>2, <2>3, <2>4, <2>5 DEF RequestRows
  <2> QED
    BY ONLY <2>1, <2>6
<1>6. q.kind # "verify" /\ q.at \notin {"clear", "open", "apply"}
  BY <1>0, <1>2, <1>4 DEF Authed
<1>7. Meets(q) /\ \A v \in Users, g \in Emails : Holds(q, v, g) => HasAddress(v, g)
  BY <1>0, <1>1, <1>3, <1>4, <1>6, Welcome, ZenonT(30)
<1>5. request' = [request EXCEPT ![r] = q] /\ UNCHANGED <<account, token, mailed, proven, session>>
  BY DEF Arrives
<1> QED
  BY <1>4, <1>5, <1>7, QuietStep

LEMMA LimiterSteps ==
  ASSUME AccountsInv, NEW r \in Requests,
         GetBlock(r) \/ AddCount(r) \/ IncrCount(r) \/ AddAgain(r) \/ SetBlock(r)
  PROVE  AccountsInv'
<1>1. \A place \in {"add", "begin", "incr", "again", "block"} : Open(request[r], place)
  BY DEF Open, Places
<1>2. UNCHANGED <<account, token, mailed, proven, session>>
  BY DEF GetBlock, AddCount, IncrCount, AddAgain, SetBlock
<1>3. \/ Ends(r)
      \/ \E place \in {"add", "begin", "incr", "again", "block"} : Goes(r, place)
  BY DEF GetBlock, AddCount, IncrCount, AddAgain, SetBlock
<1> QED
  BY <1>1, <1>2, <1>3, EndsQuietly, GoesQuietly

LEMMA RegisterFormStep ==
  ASSUME AccountsInv, NEW r \in Requests, RegisterForm(r)
  PROVE  AccountsInv'
<1>1. Open(request[r], "insert")
  BY DEF Open, Places
<1>2. UNCHANGED <<account, token, mailed, proven, session>>
  BY DEF RegisterForm
<1>3. Ends(r) \/ Goes(r, "insert")
  BY DEF RegisterForm
<1> QED
  BY <1>1, <1>2, <1>3, EndsQuietly, GoesQuietly

LEMMA ClearBucketStep ==
  ASSUME AccountsInv, NEW r \in Requests, ClearBucket(r)
  PROVE  AccountsInv'
<1>1. request[r].at = "clear" /\ Meets(request[r])
  BY DEF ClearBucket, At, AccountsInv, RequestsInv
<1>2. Open(request[r], "open")
  BY <1>1 DEF Open, Places, Loaded, Meets, Trusts
<1>3. Goes(r, "open") /\ UNCHANGED <<account, token, mailed, proven, session>>
  BY DEF ClearBucket
<1> QED
  BY <1>2, <1>3, GoesQuietly

LEMMA AddressFormStep ==
  ASSUME AccountsInv, NEW r \in Requests, AddressForm(r)
  PROVE  AccountsInv'
<1>1. Open(request[r], "pending")
  BY DEF Open, Places
<1>2. UNCHANGED <<account, token, mailed, proven, session>>
  BY DEF AddressForm
<1>3. Ends(r) \/ Goes(r, "pending")
  BY DEF AddressForm
<1> QED
  BY <1>1, <1>2, <1>3, EndsQuietly, GoesQuietly

(* A request that reads the row of the address it was given.               *)
LEMMA Loads ==
  ASSUME AccountsInv, NEW r \in Requests, NEW u \in Registered, NEW place,
         NEW x, x = request[r], x.kind \in {"resend", "login"},
         place = "forget" \/ (place = "clear" /\ account[u].verified),
         NEW q, q = [x EXCEPT !.at = place, !.user = u, !.row = account[u]]
  PROVE  /\ q \in RequestRows
         /\ Meets(q)
         /\ \A v \in Users, e \in Emails : Holds(q, v, e) => HasAddress(v, e)
<1>1. x \in RequestRows /\ Meets(x)
  BY DEF AccountsInv, TypeInv, RequestsInv
<1>2. u \in Users /\ account[u] # Nobody /\ account[u] \in Rows
  BY DEF Registered, AccountsInv, TypeInv, TableTypes
<1> PICK row : row = account[u]
  OBVIOUS
<1>3. place \in Places
  BY DEF Places
<1>4. /\ q \in RequestRows
      /\ q.kind = x.kind /\ q.user = u /\ q.row = row /\ q.email = x.email /\ q.at = place
  BY <1>1, <1>2, <1>3 DEF RequestRows
<1>5. HeldWhole(q)
  BY <1>2, <1>4 DEF HeldWhole, AccountsInv, RowsInv
<1>6. HeldAddress(q)
  BY <1>1, <1>4 DEF HeldAddress, Meets
<1>7. HeldLink(q) /\ Found(q)
  BY <1>4 DEF HeldLink, Found
<1>8. Trusts(q)
  BY <1>2, <1>4 DEF Trusts, AccountsInv, TrustInv, Authed
<1>9. \A v \in Users, e \in Emails : Holds(q, v, e) => HasAddress(v, e)
  BY <1>2, <1>4, OwnAddresses DEF Holds
<1> QED
  BY <1>4, <1>5, <1>6, <1>7, <1>8, <1>9 DEF Meets

LEMMA ResendStep ==
  ASSUME AccountsInv, NEW r \in Requests, Resend(r)
  PROVE  AccountsInv'
<1>1. UNCHANGED <<account, token, mailed, proven, session>> /\ request[r].kind = "resend"
  BY DEF Resend, At
<1>2. CASE Ends(r)
  BY <1>1, <1>2, EndsQuietly
<1>3. ASSUME NEW u \in Registered,
             request' = [request EXCEPT ![r].at = "forget", ![r].user = u,
                                        ![r].row = account[u]]
      PROVE  AccountsInv'
  <2> PICK x : x = request[r]
    OBVIOUS
  <2> PICK row : row = account[u]
    OBVIOUS
  <2> PICK q : q = [x EXCEPT !.at = "forget", !.user = u, !.row = row]
    OBVIOUS
  <2>1. /\ q \in RequestRows
        /\ Meets(q)
        /\ \A v \in Users, e \in Emails : Holds(q, v, e) => HasAddress(v, e)
    BY <1>1, Loads
  <2>2. request' = [request EXCEPT ![r] = q]
    BY <1>3
  <2> QED
    BY <1>1, <2>1, <2>2, QuietStep
<1> QED
  BY <1>2, <1>3 DEF Resend

LEMMA AuthenticateStep ==
  ASSUME AccountsInv, NEW r \in Requests, Authenticate(r)
  PROVE  AccountsInv'
<1>1. UNCHANGED <<account, token, mailed, proven, session>> /\ request[r].kind = "login"
  BY DEF Authenticate, At
<1>2. CASE Ends(r)
  BY <1>1, <1>2, EndsQuietly
<1>3. ASSUME NEW u \in Registered,
             request' = [request EXCEPT
               ![r].at = IF MaySignIn(account[u]) THEN "clear" ELSE "forget",
               ![r].user = u, ![r].row = account[u]]
      PROVE  AccountsInv'
  <2> PICK x : x = request[r]
    OBVIOUS
  <2> PICK row : row = account[u]
    OBVIOUS
  <2> PICK place : place = IF MaySignIn(account[u]) THEN "clear" ELSE "forget"
    OBVIOUS
  <2> PICK q : q = [x EXCEPT !.at = place, !.user = u, !.row = row]
    OBVIOUS
  <2>1. place = "forget" \/ (place = "clear" /\ account[u].verified)
    BY DEF MaySignIn
  <2>2. /\ q \in RequestRows
        /\ Meets(q)
        /\ \A v \in Users, e \in Emails : Holds(q, v, e) => HasAddress(v, e)
    BY <1>1, <2>1, Loads
  <2>3. request' = [request EXCEPT ![r] = q]
    BY <1>3
  <2> QED
    BY <1>1, <2>2, <2>3, QuietStep
<1> QED
  BY <1>2, <1>3 DEF Authenticate

LEMMA LookupStep ==
  ASSUME AccountsInv, NEW r \in Requests, Lookup(r)
  PROVE  AccountsInv'
<1> PICK x : x = request[r]
  OBVIOUS
<1> PICK l : l = x.link
  OBVIOUS
<1> PICK found : found = token[l.user][l.purpose]
  OBVIOUS
<1> PICK q : q = [x EXCEPT !.at = "apply", !.record = found]
  OBVIOUS
<1>1. UNCHANGED <<account, token, mailed, proven, session>> /\ x.kind = "verify"
  BY DEF Lookup, At
<1>2. x \in RequestRows /\ Meets(x)
  BY DEF AccountsInv, TypeInv, RequestsInv
<1>3. l \in mailed /\ l \in Links /\ l.user \in Users /\ l.purpose \in Purposes
  BY <1>1, <1>2 DEF Meets, HeldLink, AccountsInv, TypeInv, TableTypes, Links
<1>4. found \in TokenRows
  BY <1>3 DEF AccountsInv, TypeInv, TableTypes
<1>5. CASE Ends(r)
  BY <1>1, <1>5, EndsQuietly
<1>6. CASE found.id = l.id /\ request' = [request EXCEPT ![r] = q]
  <2>1. /\ q \in RequestRows
        /\ q.kind = x.kind /\ q.user = x.user /\ q.row = x.row /\ q.email = x.email
        /\ q.link = l /\ q.at = "apply" /\ q.record = found
    <3>1. q \in RequestRows
      <4>1. "apply" \in Places
        BY DEF Places
      <4> QED
        BY ONLY <1>2, <1>4, <4>1, q = [x EXCEPT !.at = "apply", !.record = found], ZenonT(60)
           DEF RequestRows
    <3>2. /\ q.kind = x.kind /\ q.user = x.user /\ q.row = x.row /\ q.email = x.email
          /\ q.link = l /\ q.at = "apply" /\ q.record = found
      BY <1>2 DEF RequestRows
    <3> QED
      BY <3>1, <3>2
  <2>2. HeldWhole(q) /\ HeldAddress(q) /\ HeldLink(q)
    BY <1>1, <1>2, <2>1 DEF Meets, HeldWhole, HeldAddress, HeldLink, Loaded
  <2>3. Trusts(q)
    BY <1>1, <1>2, <2>1 DEF Meets, Trusts, Loaded
  <2>4. Found(q)
    <3>1. Names(l)
      BY <1>3 DEF AccountsInv, LinkInv
    <3> QED
      BY <1>6, <2>1, <3>1 DEF Found, Names
  <2>5. \A v, e : Holds(q, v, e) => Holds(x, v, e)
    BY <1>1, <2>1 DEF Holds, Loaded
  <2>6. \A v \in Users, e \in Emails : Holds(q, v, e) => HasAddress(v, e)
    BY <2>5, OwnAddresses
  <2>7. Meets(q)
    BY <2>2, <2>3, <2>4 DEF Meets
  <2> QED
    BY <1>1, <1>6, <2>1, <2>6, <2>7, QuietStep
<1>7. \/ Ends(r)
      \/ found.id = l.id /\ request' = [request EXCEPT ![r] = q]
  BY DEF Lookup
<1> QED
  BY <1>5, <1>6, <1>7

LEMMA ListSessionsStep ==
  ASSUME AccountsInv, NEW r \in Requests, ListSessions(r)
  PROVE  AccountsInv'
<1> PICK x : x = request[r]
  OBVIOUS
<1> PICK ks : ks = SessionsOf(x.user) \ {x.session}
  OBVIOUS
<1> PICK q : q = [x EXCEPT !.at = "sweep", !.listed = ks]
  OBVIOUS
<1>1. UNCHANGED <<account, token, mailed, proven, session>>
  BY DEF ListSessions
<1>2. x \in RequestRows /\ Meets(x)
  BY DEF AccountsInv, TypeInv, RequestsInv
<1>3. ks \in SUBSET Ids
  BY DEF SessionsOf, AccountsInv, TypeInv, TableTypes
<1>4. /\ q \in RequestRows
      /\ q.kind = x.kind /\ q.user = x.user /\ q.row = x.row /\ q.email = x.email
      /\ q.link = x.link /\ q.at = "sweep"
  BY <1>2, <1>3, ZenonT(30) DEF RequestRows, Places
<1>5. Loaded(q) => Loaded(x)
  BY <1>4 DEF Loaded
<1>6. Meets(q)
  BY <1>2, <1>4, <1>5 DEF Meets, HeldWhole, HeldAddress, HeldLink, Trusts, Found
<1>7. \A v, e : Holds(q, v, e) => Holds(x, v, e)
  BY <1>4, <1>5 DEF Holds
<1>8. \A v \in Users, e \in Emails : Holds(q, v, e) => HasAddress(v, e)
  BY <1>7, OwnAddresses
<1>9. request' = [request EXCEPT ![r] = q]
  BY DEF ListSessions
<1> QED
  BY <1>1, <1>4, <1>6, <1>8, <1>9, QuietStep

LEMMA KilledStep ==
  ASSUME AccountsInv, NEW r \in Requests, Killed(r)
  PROVE  AccountsInv'
BY EndsQuietly DEF Killed

-----------------------------------------------------------------------------
(* The steps that touch only tokens and sessions.                          *)

LEMMA LightStep ==
  ASSUME AccountsInv, UNCHANGED <<account, mailed, proven>>,
         request' \in [Requests -> RequestRows], RequestsInv',
         \A s \in Requests, u \in Users, e \in Emails :
           Holds(request'[s], u, e) => HasAddress(u, e),
         TableTypes', LinkInv',
         \A k \in DOMAIN session' : Proven(session'[k].user)
  PROVE  AccountsInv'
<1>1. TypeInv'
  BY DEF TypeInv
<1>2. RowsInv'
  BY DEF AccountsInv, RowsInv
<1>3. AddressInv'
  BY AddressesKept, OwnAddresses DEF AccountsInv
<1>4. TrustInv'
  BY DEF AccountsInv, TrustInv, Proven
<1> QED
  BY <1>1, <1>2, <1>3, <1>4 DEF AccountsInv

LEMMA EndedAddresses ==
  ASSUME TypeInv, NEW r \in Requests, Ends(r)
  PROVE  \A s \in Requests, u \in Users, e \in Emails :
           Holds(request'[s], u, e) => HasAddress(u, e)
<1>1. \A u, e : ~Holds(Idle, u, e)
  BY IdleMeets DEF Holds
<1> QED
  BY <1>1, RequestAddresses DEF Ends

LEMMA SameAddresses ==
  ASSUME request' = request
  PROVE  \A s \in Requests, u \in Users, e \in Emails :
           Holds(request'[s], u, e) => HasAddress(u, e)
BY OwnAddresses

(* A token that is gone answers to no link.                                *)
LEMMA TokenGone ==
  ASSUME TableTypes, RowsInv, LinkInv, mailed' = mailed, NEW u \in Users, NEW p \in Purposes,
         token' = [token EXCEPT ![u][p] = NoToken]
  PROVE  LinkInv' /\ token' \in [Users -> [Purposes -> TokenRows]]
<1>1. token' \in [Users -> [Purposes -> TokenRows]]
  BY EmptyRows DEF TableTypes
<1>2. ASSUME NEW l \in mailed, l.purpose = "change_email",
             token'[l.user]["change_email"].id = l.id
      PROVE  token'[l.user]["change_email"].to = l.to
  <2>1. l.user \in Users /\ l.id \in Ids /\ "change_email" \in Purposes
    BY <1>2 DEF TableTypes, Links, RowsInv, Purposes
  <2>2. Names(l)
    BY DEF LinkInv
  <2>3. CASE l.user = u /\ p = "change_email"
    <3>1. token'[l.user]["change_email"] = NoToken
      BY <2>1, <2>3 DEF TableTypes
    <3>2. l.id = 0
      BY <1>2, <3>1 DEF NoToken
    <3> QED
      BY <2>1, <3>2, Constants
  <2>4. CASE ~(l.user = u /\ p = "change_email")
    <3>1. token'[l.user]["change_email"] = token[l.user]["change_email"]
      BY <2>1, <2>4 DEF TableTypes
    <3> QED
      BY <1>2, <2>2, <3>1 DEF Names
  <2> QED
    BY <2>3, <2>4
<1> QED
  BY <1>1, <1>2 DEF LinkInv, Names

LEMMA ForgetStep ==
  ASSUME AccountsInv, NEW r \in Requests, Forget(r)
  PROVE  AccountsInv'
<1> PICK x : x = request[r]
  OBVIOUS
<1> PICK q : q = [x EXCEPT !.at = "issue"]
  OBVIOUS
<1>1. x \in RequestRows /\ Meets(x) /\ x.at = "forget"
  BY DEF AccountsInv, TypeInv, RequestsInv, Forget
<1>2. Loaded(x) /\ Open(x, "issue")
  BY <1>1 DEF Loaded, Open, Places
<1>3. q \in RequestRows /\ Meets(q) /\ \A u, e : Holds(q, u, e) => Holds(x, u, e)
  BY <1>1, <1>2, MovedOn
<1>4. UNCHANGED <<account, mailed, proven, session>> /\ Grown
  BY DEF Forget, Grown
<1>5. request' = [request EXCEPT ![r] = q]
  BY DEF Forget, Goes
<1>6. request' \in [Requests -> RequestRows] /\ RequestsInv'
  BY <1>3, <1>4, <1>5, StillMeets, OneRequest DEF AccountsInv
<1>7. \A u \in Users, e \in Emails : Holds(q, u, e) => HasAddress(u, e)
  BY <1>3, OwnAddresses
<1>8. \A s \in Requests, u \in Users, e \in Emails :
           Holds(request'[s], u, e) => HasAddress(u, e)
  BY <1>5, <1>7, RequestAddresses DEF AccountsInv
<1>9. x.user \in Users /\ PurposeOf(r) \in Purposes
  BY <1>1, <1>2 DEF Meets, HeldWhole, PurposeOf, Purposes
<1>10. token' = [token EXCEPT ![x.user][PurposeOf(r)] = NoToken]
  BY DEF Forget
<1>11. LinkInv' /\ token' \in [Users -> [Purposes -> TokenRows]]
  BY <1>4, <1>9, <1>10, TokenGone DEF AccountsInv, TypeInv
<1>12. TableTypes'
  BY <1>4, <1>11 DEF AccountsInv, TypeInv, TableTypes
<1>13. \A k \in DOMAIN session' : Proven(session'[k].user)
  BY <1>4 DEF AccountsInv, TrustInv
<1> QED
  BY <1>4, <1>6, <1>8, <1>11, <1>12, <1>13, LightStep

LEMMA RehashStep ==
  ASSUME AccountsInv, NEW r \in Requests, Rehash(r)
  PROVE  AccountsInv'
<1> PICK x : x = request[r]
  OBVIOUS
<1>1. x \in RequestRows /\ Meets(x) /\ x.kind = "password"
  BY DEF AccountsInv, TypeInv, RequestsInv, Rehash, At
<1>2. x.user \in Users /\ x.row.password \in Ids /\ Proven(x.user)
  BY <1>1 DEF Meets, HeldWhole, Whole, Trusts, Loaded, Authed
<1>3. UNCHANGED <<account, token, mailed, proven>> /\ Grown /\ Ends(r)
  BY DEF Rehash, Grown
<1> PICK id \in FreshIds :
      session' = [k \in (DOMAIN session \ {x.session}) \cup {id} |->
                    IF k = id THEN [user |-> x.user, password |-> x.row.password]
                    ELSE session[k]]
  BY DEF Rehash
<1>4. id \in Ids
  BY DEF FreshIds
<1>5. TableTypes'
  BY <1>2, <1>3, <1>4 DEF AccountsInv, TypeInv, TableTypes, SessionRows
<1>6. LinkInv'
  BY <1>3 DEF AccountsInv, LinkInv, Names
<1>7. \A k \in DOMAIN session' : Proven(session'[k].user)
  BY <1>2 DEF AccountsInv, TrustInv
<1>8. request' \in [Requests -> RequestRows] /\ RequestsInv'
  BY <1>3, Ended DEF AccountsInv
<1> QED
  BY <1>3, <1>5, <1>6, <1>7, <1>8, EndedAddresses, LightStep DEF AccountsInv

LEMMA SessionsRemain ==
  ASSUME AccountsInv, NEW keys, session' = Without(keys),
         UNCHANGED <<account, token, mailed, proven>>
  PROVE  /\ TableTypes'
         /\ LinkInv'
         /\ \A k \in DOMAIN session' : Proven(session'[k].user)
<1>1. TableTypes'
  BY DEF AccountsInv, TypeInv, TableTypes, Without
<1>2. LinkInv'
  BY DEF AccountsInv, LinkInv, Names
<1>3. \A k \in DOMAIN session' : Proven(session'[k].user)
  BY DEF AccountsInv, TrustInv, Without
<1> QED
  BY <1>1, <1>2, <1>3

LEMMA SweepStep ==
  ASSUME AccountsInv, NEW r \in Requests, Sweep(r)
  PROVE  AccountsInv'
<1>1. UNCHANGED <<account, token, mailed, proven>> /\ Grown
  BY DEF Sweep, Grown
<1>2. ASSUME NEW k \in request[r].listed, session' = Without({k}),
             request' = [request EXCEPT ![r].listed = @ \ {k}]
      PROVE  AccountsInv'
  <2> PICK x : x = request[r]
    OBVIOUS
  <2> PICK q : q = [x EXCEPT !.listed = x.listed \ {k}]
    OBVIOUS
  <2>1. x \in RequestRows /\ Meets(x)
    BY DEF AccountsInv, TypeInv, RequestsInv
  <2>2. /\ q \in RequestRows
        /\ q.kind = x.kind /\ q.user = x.user /\ q.row = x.row /\ q.email = x.email
        /\ q.link = x.link /\ q.at = x.at /\ q.record = x.record
    BY <2>1 DEF RequestRows
  <2>3. Meets(q)
    BY <2>1, <2>2 DEF Meets, HeldWhole, HeldAddress, HeldLink, Trusts, Found, Loaded
  <2>4. request' = [request EXCEPT ![r] = q]
    BY <1>2
  <2>5. request' \in [Requests -> RequestRows] /\ RequestsInv'
    BY <1>1, <2>2, <2>3, <2>4, StillMeets, OneRequest DEF AccountsInv
  <2>6. \A u \in Users, e \in Emails : Holds(q, u, e) => HasAddress(u, e)
    BY <2>2, OwnAddresses DEF Holds, Loaded
  <2>7. \A s \in Requests, u \in Users, e \in Emails :
           Holds(request'[s], u, e) => HasAddress(u, e)
    BY <2>4, <2>6, RequestAddresses DEF AccountsInv
  <2> QED
    BY <1>1, <1>2, <2>5, <2>7, SessionsRemain, LightStep
<1>3. CASE session' = Without({request[r].session}) /\ Ends(r)
  <2>1. request' \in [Requests -> RequestRows] /\ RequestsInv'
    BY <1>1, <1>3, Ended DEF AccountsInv
  <2> QED
    BY <1>1, <1>3, <2>1, EndedAddresses, SessionsRemain, LightStep DEF AccountsInv
<1> QED
  BY <1>2, <1>3 DEF Sweep

LEMMA SignOutStep ==
  ASSUME AccountsInv, NEW k \in DOMAIN session, SignOut(k)
  PROVE  AccountsInv'
<1>1. UNCHANGED <<account, token, mailed, proven, request>> /\ Grown
  BY DEF SignOut, Grown
<1>2. request' \in [Requests -> RequestRows] /\ RequestsInv'
  BY <1>1, StillRequests DEF AccountsInv
<1>3. session' = Without({k})
  BY DEF SignOut
<1> QED
  BY <1>1, <1>2, <1>3, SameAddresses, SessionsRemain, LightStep

LEMMA ExpireStep ==
  ASSUME AccountsInv, NEW u \in Users, NEW p \in Purposes, Expire(u, p)
  PROVE  AccountsInv'
<1>1. UNCHANGED <<account, mailed, proven, session, request>> /\ Grown
  BY DEF Expire, Grown
<1>2. request' \in [Requests -> RequestRows] /\ RequestsInv'
  BY <1>1, StillRequests DEF AccountsInv
<1>3. token \in [Users -> [Purposes -> TokenRows]]
  BY DEF AccountsInv, TypeInv, TableTypes
<1>4. token' = [token EXCEPT ![u][p].expired = TRUE]
  BY DEF Expire
<1>5. /\ token' \in [Users -> [Purposes -> TokenRows]]
      /\ \A v \in Users : /\ token'[v]["change_email"].id = token[v]["change_email"].id
                          /\ token'[v]["change_email"].to = token[v]["change_email"].to
  <2> PICK new : new = [token[u][p] EXCEPT !.expired = TRUE]
    OBVIOUS
  <2>1. token[u][p] \in TokenRows
    BY <1>3
  <2>2. new \in TokenRows /\ new.id = token[u][p].id /\ new.to = token[u][p].to
    BY <2>1 DEF TokenRows
  <2>3. token' = [token EXCEPT ![u][p] = new]
    BY <1>4
  <2> QED
    BY <1>3, <2>2, <2>3 DEF Purposes
<1>6. TableTypes'
  BY <1>1, <1>5 DEF AccountsInv, TypeInv, TableTypes
<1>7. LinkInv'
  BY <1>1, <1>5 DEF AccountsInv, TypeInv, TableTypes, LinkInv, Names, Links
<1>8. \A k \in DOMAIN session' : Proven(session'[k].user)
  BY <1>1 DEF AccountsInv, TrustInv
<1> QED
  BY <1>1, <1>2, <1>6, <1>7, <1>8, SameAddresses, LightStep

-----------------------------------------------------------------------------
(* The steps that write the row of an account.                             *)

LEMMA AccountWritten ==
  ASSUME AccountsInv, NEW u \in Users, NEW row \in Rows, Whole(row),
         account' = [account EXCEPT ![u] = row], mailed' = mailed, proven \subseteq proven'
  PROVE  Grown /\ RowsInv' /\ account' \in [Users -> Rows] /\ account'[u] # Nobody
<1>1. account \in [Users -> Rows] /\ row # Nobody
  BY WholeIsSomebody DEF AccountsInv, TypeInv, TableTypes
<1>2. Grown
  BY <1>1 DEF Grown
<1>3. RowsInv'
  <2>1. \A v \in Users : account'[v] = Nobody \/ Whole(account'[v])
    BY <1>1 DEF AccountsInv, RowsInv
  <2>2. \A l \in mailed : account'[l.user] # Nobody
    BY <1>1, <1>2 DEF Grown, AccountsInv, TypeInv, TableTypes, RowsInv, Links
  <2> QED
    BY <2>1, <2>2 DEF AccountsInv, RowsInv, Whole
<1> QED
  BY <1>1, <1>2, <1>3

(* A row with an address the user is known by.                             *)
LEMMA KnownRow ==
  ASSUME AccountsInv, NEW u \in Users, NEW row \in Rows, Whole(row),
         HasAddress(u, row.email), account[u] # Nobody, row.verified => Proven(u),
         account' = [account EXCEPT ![u] = row], UNCHANGED <<token, mailed, proven>>,
         request' \in [Requests -> RequestRows], RequestsInv',
         \A s \in Requests, v \in Users, e \in Emails :
           Holds(request'[s], v, e) => HasAddress(v, e),
         DOMAIN session' \subseteq Ids,
         \A k \in DOMAIN session' : session'[k] \in SessionRows /\ Proven(session'[k].user)
  PROVE  AccountsInv'
<1>1. RowsInv' /\ account' \in [Users -> Rows] /\ account'[u] # Nobody /\ Grown
  BY AccountWritten
<1>2. TypeInv'
  BY <1>1 DEF AccountsInv, TypeInv, TableTypes
<1>3. account \in [Users -> Rows]
  BY DEF AccountsInv, TypeInv, TableTypes
<1>4. \A v \in Users, e \in Emails :
        account'[v] # Nobody /\ account'[v].email = e => HasAddress(v, e)
  BY <1>3, OwnAddresses
<1>5. AddressInv'
  BY <1>4, AddressesKept, OwnAddresses DEF AccountsInv
<1>6. TrustInv'
  <2>1. \A v : Proven(v)' <=> Proven(v)
    BY DEF Proven
  <2>2. \A v \in Users : Proven(v) => account'[v] # Nobody
    BY <1>1, <1>3 DEF AccountsInv, TrustInv
  <2>3. \A v \in Users : account'[v].verified => Proven(v)
    BY <1>3 DEF AccountsInv, TrustInv
  <2>4. \A l \in mailed : l.purpose = "change_email" => Proven(l.user)
    BY DEF AccountsInv, TrustInv
  <2> QED
    BY <2>1, <2>2, <2>3, <2>4 DEF TrustInv
<1>7. LinkInv'
  BY DEF AccountsInv, LinkInv, Names
<1> QED
  BY <1>1, <1>2, <1>5, <1>6, <1>7 DEF AccountsInv

LEMMA OpenSessionStep ==
  ASSUME AccountsInv, NEW r \in Requests, OpenSession(r)
  PROVE  AccountsInv'
<1> PICK x : x = request[r]
  OBVIOUS
<1> PICK u : u = x.user
  OBVIOUS
<1>1. x \in RequestRows /\ Meets(x) /\ x.at = "open"
  BY DEF AccountsInv, TypeInv, RequestsInv, OpenSession, At
<1>2. /\ u \in Users /\ account[u] # Nobody /\ Proven(u)
      /\ x.row.password \in Ids
  BY <1>1 DEF Meets, HeldWhole, Loaded, Trusts, Whole
<1> PICK id \in FreshIds :
      /\ session' = Opened(id, u, x.row.password)
      /\ account' = [account EXCEPT ![u].login = id]
  BY DEF OpenSession
<1> PICK old : old = account[u]
  OBVIOUS
<1> PICK row : row = [old EXCEPT !.login = id]
  OBVIOUS
<1>3. old \in Rows /\ Whole(old)
  BY <1>2 DEF AccountsInv, TypeInv, TableTypes, RowsInv
<1>4. id \in Ids
  BY DEF FreshIds
<1>5. /\ row \in Rows
      /\ row.email = old.email /\ row.verified = old.verified /\ row.password = old.password
  BY <1>3, <1>4 DEF Rows
<1>6. Whole(row) /\ HasAddress(u, row.email)
  BY <1>2, <1>3, <1>5, OwnAddresses DEF Whole
<1>7. account' = [account EXCEPT ![u] = row]
  OBVIOUS
<1>8. UNCHANGED <<token, mailed, proven>> /\ Ends(r)
  BY DEF OpenSession
<1>9. Grown
  BY <1>5, <1>6, <1>7, <1>8, <1>2, AccountWritten
<1>10. request' \in [Requests -> RequestRows] /\ RequestsInv'
  BY <1>8, <1>9, Ended DEF AccountsInv
<1>11. /\ DOMAIN session' \subseteq Ids
       /\ \A k \in DOMAIN session' : session'[k] \in SessionRows /\ Proven(session'[k].user)
  BY <1>2, <1>4 DEF Opened, AccountsInv, TypeInv, TableTypes, TrustInv, SessionRows
<1>12. \A s \in Requests, v \in Users, e \in Emails :
           Holds(request'[s], v, e) => HasAddress(v, e)
  BY <1>8, EndedAddresses DEF AccountsInv
<1> QED
  BY <1>2, <1>5, <1>6, <1>7, <1>8, <1>10, <1>11, <1>12, KnownRow

LEMMA SessionsStay ==
  ASSUME AccountsInv, session' = session
  PROVE  /\ DOMAIN session' \subseteq Ids
         /\ \A k \in DOMAIN session' : session'[k] \in SessionRows /\ Proven(session'[k].user)
BY DEF AccountsInv, TypeInv, TableTypes, TrustInv

LEMMA SavePendingStep ==
  ASSUME AccountsInv, NEW r \in Requests, SavePending(r)
  PROVE  AccountsInv'
<1> PICK x : x = request[r]
  OBVIOUS
<1> PICK u : u = x.user
  OBVIOUS
<1> PICK old : old = account[u]
  OBVIOUS
<1> PICK row : row = [old EXCEPT !.pending = x.email]
  OBVIOUS
<1> PICK q : q = [x EXCEPT !.at = "forget"]
  OBVIOUS
<1>1. x \in RequestRows /\ Meets(x) /\ x.kind = "address"
  BY DEF AccountsInv, TypeInv, RequestsInv, SavePending, At
<1>2. u \in Users /\ account[u] # Nobody /\ x.email \in Emails /\ Loaded(x)
  BY <1>1 DEF Meets, HeldWhole, Loaded, HeldAddress, Authed
<1>3. old \in Rows /\ Whole(old)
  BY <1>2 DEF AccountsInv, TypeInv, TableTypes, RowsInv
<1>4. /\ row \in Rows
      /\ row.email = old.email /\ row.verified = old.verified /\ row.password = old.password
  BY <1>2, <1>3 DEF Rows
<1>5. Whole(row) /\ HasAddress(u, row.email)
  BY <1>2, <1>3, <1>4, OwnAddresses DEF Whole
<1>6. account' = [account EXCEPT ![u] = row]
  BY DEF SavePending
<1>7. row.verified => Proven(u)
  BY <1>2, <1>4 DEF AccountsInv, TrustInv
<1>8. UNCHANGED <<token, mailed, proven, session>>
  BY DEF SavePending
<1>9. Grown
  BY <1>2, <1>4, <1>5, <1>6, <1>8, AccountWritten
<1>10. request' = [request EXCEPT ![r] = q]
  BY DEF SavePending, Goes
<1>11. q \in RequestRows /\ Meets(q) /\ \A v, e : Holds(q, v, e) => Holds(x, v, e)
  BY <1>1, <1>2, MovedOn DEF Open, Places
<1>12. request' \in [Requests -> RequestRows] /\ RequestsInv'
  BY <1>9, <1>10, <1>11, StillMeets, OneRequest DEF AccountsInv
<1>13. \A v \in Users, e \in Emails : Holds(q, v, e) => HasAddress(v, e)
  BY <1>11, OwnAddresses
<1>14. \A s \in Requests, v \in Users, e \in Emails :
           Holds(request'[s], v, e) => HasAddress(v, e)
  BY <1>10, <1>13, RequestAddresses DEF AccountsInv
<1> QED
  BY <1>2, <1>4, <1>5, <1>6, <1>7, <1>8, <1>12, <1>14, SessionsStay, KnownRow

LEMMA SavePasswordStep ==
  ASSUME AccountsInv, NEW r \in Requests, SavePassword(r)
  PROVE  AccountsInv'
<1> PICK x : x = request[r]
  OBVIOUS
<1> PICK u : u = x.user
  OBVIOUS
<1>1. x \in RequestRows /\ Meets(x) /\ x.kind \in {"reset", "password"}
  BY DEF AccountsInv, TypeInv, RequestsInv, SavePassword, At
<1>2. u \in Users /\ account[u] # Nobody /\ Loaded(x) /\ Whole(x.row) /\ x.row \in Rows
  BY <1>1 DEF Meets, HeldWhole, Loaded, Authed, RequestRows
<1>3. UNCHANGED <<token, mailed, proven, session>>
  BY DEF SavePassword
<1>4. CASE Ends(r) /\ UNCHANGED account
  BY <1>3, <1>4, EndsQuietly
<1>5. ASSUME NEW id \in FreshIds,
             account' = [account EXCEPT ![u] = [x.row EXCEPT !.password = id]],
             request' = [request EXCEPT ![r].row.password = id,
                           ![r].at = IF request[r].kind = "reset" THEN "list" ELSE "rehash"]
      PROVE  AccountsInv'
  <2> PICK row : row = [x.row EXCEPT !.password = id]
    OBVIOUS
  <2> PICK place : place = IF x.kind = "reset" THEN "list" ELSE "rehash"
    OBVIOUS
  <2> PICK q : q = [x EXCEPT !.row = row, !.at = place]
    OBVIOUS
  <2>1. id \in Ids
    BY DEF FreshIds
  <2>2. row \in Rows /\ row.email = x.row.email /\ row.verified = x.row.verified /\ Whole(row)
    BY <1>2, <2>1 DEF Rows, Whole
  <2>3. place \in {"list", "rehash"}
    OBVIOUS
  <2>4. /\ q \in RequestRows
        /\ q.kind = x.kind /\ q.user = u /\ q.row = row /\ q.email = x.email
        /\ q.link = x.link /\ q.at = place
    <3>1. place \in Places /\ row \in Rows /\ x \in RequestRows
      BY <1>1, <2>2, <2>3 DEF Places
    <3> QED
      BY ONLY <3>1, u = x.user, q = [x EXCEPT !.row = row, !.at = place] DEF RequestRows
  <2>5. Meets(q)
    <3>1. HeldWhole(q)
      BY <1>2, <2>2, <2>4 DEF HeldWhole
    <3>2. HeldAddress(q) /\ HeldLink(q) /\ Found(q)
      BY <1>1, <2>4 DEF Meets, HeldAddress, HeldLink, Found
    <3>3. Trusts(q)
      BY <1>1, <1>2, <2>2, <2>3, <2>4 DEF Meets, Trusts
    <3> QED
      BY <3>1, <3>2, <3>3 DEF Meets
  <2>6. \A v, e : Holds(q, v, e) => Holds(x, v, e)
    BY <1>2, <2>2, <2>4 DEF Holds
  <2>7. \A v \in Users, e \in Emails : Holds(q, v, e) => HasAddress(v, e)
    BY <2>6, OwnAddresses
  <2>8. request' = [request EXCEPT ![r] = q]
    BY <1>5 DEF AccountsInv, TypeInv
  <2>9. account' = [account EXCEPT ![u] = row]
    BY <1>5
  <2>10. Grown
    BY <1>2, <1>3, <2>2, <2>9, AccountWritten
  <2>11. request' \in [Requests -> RequestRows] /\ RequestsInv'
    BY <2>4, <2>5, <2>8, <2>10, StillMeets, OneRequest DEF AccountsInv
  <2>12. \A s \in Requests, v \in Users, e \in Emails :
           Holds(request'[s], v, e) => HasAddress(v, e)
    BY <2>7, <2>8, RequestAddresses DEF AccountsInv
  <2>13. HasAddress(u, row.email)
    BY <1>2, <2>2, OwnAddresses DEF Holds, Whole
  <2>14. row.verified => Proven(u)
    BY <1>1, <1>2, <2>2 DEF Meets, Trusts
  <2> QED
    BY <1>2, <1>3, <2>2, <2>9, <2>11, <2>12, <2>13, <2>14, SessionsStay, KnownRow
<1> QED
  BY <1>4, <1>5 DEF SavePassword

(* Nothing is known of a user that is not registered.                      *)
LEMMA StrangerHasNothing ==
  ASSUME AccountsInv, NEW u \in Users, account[u] = Nobody
  PROVE  /\ \A e \in Emails : ~HasAddress(u, e)
         /\ ~Proven(u)
<1>1. \A s \in Requests, e \in Emails : ~Holds(request[s], u, e)
  BY DEF Holds, AccountsInv, RequestsInv, Meets, HeldWhole
<1>2. \A l \in mailed, e \in Emails : ~Confirms(l, u, e)
  BY DEF Confirms, AccountsInv, RowsInv
<1>3. ~Proven(u)
  BY DEF AccountsInv, TrustInv
<1> QED
  BY <1>1, <1>2, <1>3 DEF HasAddress

LEMMA RegisterInsertStep ==
  ASSUME AccountsInv, NEW r \in Requests, RegisterInsert(r)
  PROVE  AccountsInv'
<1> PICK x : x = request[r]
  OBVIOUS
<1>1. x \in RequestRows /\ Meets(x) /\ x.kind = "register"
  BY DEF AccountsInv, TypeInv, RequestsInv, RegisterInsert, At
<1>2. x.email \in Emails
  BY <1>1 DEF Meets, HeldAddress
<1>3. UNCHANGED <<token, mailed, proven, session>>
  BY DEF RegisterInsert
<1>4. CASE Ends(r) /\ UNCHANGED account
  BY <1>3, <1>4, EndsQuietly
<1>5. ASSUME NEW u \in Users \ Registered, NEW id \in FreshIds, NEW row,
             row = [Nobody EXCEPT !.email = x.email, !.password = id],
             account' = [account EXCEPT ![u] = row],
             request' = [request EXCEPT ![r].at = "forget", ![r].user = u, ![r].row = row]
      PROVE  AccountsInv'
  <2> PICK q : q = [x EXCEPT !.at = "forget", !.user = u, !.row = row]
    OBVIOUS
  <2>1. id \in Ids /\ account[u] = Nobody /\ account \in [Users -> Rows]
    BY DEF FreshIds, Registered, AccountsInv, TypeInv, TableTypes
  <2>2. row \in Rows /\ row.email = x.email /\ ~row.verified /\ Whole(row)
    BY <1>2, <1>5, <2>1, EmptyRows DEF Rows, Whole, Nobody
  <2>3. /\ q \in RequestRows
        /\ q.kind = "register" /\ q.user = u /\ q.row = row /\ q.email = x.email
        /\ q.at = "forget"
    BY <1>1, <2>2, ZenonT(30) DEF RequestRows, Places
  <2>4. RowsInv' /\ account' \in [Users -> Rows] /\ account'[u] # Nobody /\ Grown
    BY <1>3, <1>5, <2>2, AccountWritten
  <2>5. Meets(q)'
    <3>1. HeldWhole(q)'
      BY <2>2, <2>3, <2>4 DEF HeldWhole, Whole
    <3>2. HeldAddress(q)' /\ HeldLink(q)' /\ Found(q)'
      BY <1>2, <2>3 DEF HeldAddress, HeldLink, Found
    <3>3. Trusts(q)'
      BY <2>2, <2>3 DEF Trusts, Authed
    <3> QED
      BY <3>1, <3>2, <3>3 DEF Meets
  <2>6. request' = [request EXCEPT ![r] = q]
    BY <1>5
  <2>7. request' \in [Requests -> RequestRows] /\ RequestsInv'
    BY <2>3, <2>4, <2>5, <2>6, OneRequest DEF AccountsInv
  <2>8. TypeInv'
    BY <1>3, <2>4, <2>7 DEF AccountsInv, TypeInv, TableTypes
  <2>9. ASSUME NEW v \in Users, NEW e \in Emails, HasAddress(v, e)'
        PROVE  IF v = u THEN e = x.email ELSE HasAddress(v, e)
    <3>1. CASE account'[v] # Nobody /\ account'[v].email = e
      BY <2>1, <2>2, <3>1, <1>5, OwnAddresses
    <3>2. ASSUME NEW s \in Requests, Holds(request'[s], v, e)
          PROVE  IF v = u THEN e = x.email ELSE HasAddress(v, e)
      <4>1. CASE s = r
        BY <2>2, <2>3, <2>6, <3>2, <4>1 DEF Holds, AccountsInv, TypeInv
      <4>2. CASE s # r
        <5>1. request'[s] = request[s]
          BY <2>6, <4>2 DEF AccountsInv, TypeInv
        <5>2. HasAddress(v, e)
          BY <3>2, <5>1, OwnAddresses
        <5> QED
          BY <2>1, <5>2, StrangerHasNothing
      <4> QED
        BY <4>1, <4>2
    <3>3. ASSUME NEW l \in mailed, Confirms(l, v, e)
          PROVE  IF v = u THEN e = x.email ELSE HasAddress(v, e)
      BY <2>1, <3>3, OwnAddresses, StrangerHasNothing
    <3> QED
      BY <1>3, <2>9, <3>1, <3>2, <3>3 DEF HasAddress, Holds, Confirms, Loaded
  <2>10. ~Proven(u) /\ \A v \in Users : Proven(v)' <=> Proven(v)
    BY <1>3, <2>1, StrangerHasNothing DEF Proven
  <2>11. AddressInv'
    <3>1. AllProven'
      BY <1>3, <2>9, <2>10 DEF AccountsInv, AddressInv, AllProven
    <3>2. OneAddress'
      BY <2>9, <2>10 DEF AccountsInv, AddressInv, OneAddress
    <3> QED
      BY <3>1, <3>2 DEF AddressInv
  <2>12. TrustInv'
    <3>1. \A v \in Users : Proven(v) => account'[v] # Nobody
      BY <1>5, <2>1, <2>4 DEF AccountsInv, TrustInv
    <3>2. \A v \in Users : account'[v].verified => Proven(v)
      BY <1>5, <2>1, <2>2 DEF AccountsInv, TrustInv
    <3>3. \A v : Proven(v)' <=> Proven(v)
      BY <1>3 DEF Proven
    <3> QED
      BY <1>3, <3>1, <3>2, <3>3 DEF AccountsInv, TrustInv
  <2>13. LinkInv'
    BY <1>3 DEF AccountsInv, LinkInv, Names
  <2> QED
    BY <2>4, <2>7, <2>8, <2>11, <2>12, <2>13 DEF AccountsInv
<1> QED
  BY <1>4, <1>5 DEF RegisterInsert

-----------------------------------------------------------------------------
(* Links: what is mailed, and what is applied.                             *)

LEMMA FreshIsNew ==
  ASSUME NEW id \in FreshIds
  PROVE  id \in Ids /\ \A l \in mailed : l.id # id
<1>1. id \in Ids /\ id \notin Held
  BY DEF FreshIds
<1>2. \A l \in mailed : l.id \in Held
  BY DEF Held
<1> QED
  BY <1>1, <1>2

(* New links leave the accounts alone and confirm only what is known.      *)
LEMMA Mailed ==
  ASSUME AccountsInv, UNCHANGED <<account, proven, session>>, mailed \subseteq mailed',
         mailed' \subseteq Links, \A l \in mailed' : account[l.user] # Nobody,
         \A l \in mailed' : l.purpose \in Purposes => l.id \in Ids,
         \A l \in mailed' : l.purpose = "change_email" => Proven(l.user),
         \A l \in mailed', u \in Users, e \in Emails : Confirms(l, u, e) => HasAddress(u, e),
         token' \in [Users -> [Purposes -> TokenRows]], LinkInv',
         NEW r \in Requests, Ends(r)
  PROVE  AccountsInv'
<1>1. Grown
  BY DEF Grown
<1>2. request' \in [Requests -> RequestRows] /\ RequestsInv'
  BY <1>1, Ended DEF AccountsInv
<1>3. TypeInv'
  BY <1>2 DEF AccountsInv, TypeInv, TableTypes
<1>4. RowsInv'
  BY DEF AccountsInv, RowsInv
<1>5. AddressInv'
  BY AddressesKept, OwnAddresses, EndedAddresses DEF AccountsInv
<1>6. TrustInv'
  BY DEF AccountsInv, TrustInv, Proven
<1> QED
  BY <1>2, <1>3, <1>4, <1>5, <1>6 DEF AccountsInv

LEMMA MailResetStep ==
  ASSUME AccountsInv, NEW r \in Requests, MailReset(r)
  PROVE  AccountsInv'
<1> PICK sent \in SUBSET {u \in Registered : account[u].email = request[r].email} :
      mailed' = mailed \cup
        {[purpose |-> "reset", id |-> 0, user |-> u, to |-> account[u].email,
          row |-> Seal(account[u])] : u \in sent}
  BY DEF MailReset
<1> DEFINE new == {[purpose |-> "reset", id |-> 0, user |-> u, to |-> account[u].email,
                    row |-> Seal(account[u])] : u \in sent}
<1>1. UNCHANGED <<account, token, proven, session>> /\ Ends(r)
  BY DEF MailReset
<1>2. account \in [Users -> Rows] /\ mailed \subseteq Links
  BY DEF AccountsInv, TypeInv, TableTypes
<1>3. ASSUME NEW u \in sent
      PROVE  /\ u \in Users /\ account[u] # Nobody /\ account[u].email \in Emails
             /\ Seal(account[u]) \in Rows
  <2>1. u \in Users /\ account[u] # Nobody
    BY DEF Registered
  <2>2. Whole(account[u]) /\ account[u] \in Rows
    BY <1>2, <2>1 DEF AccountsInv, RowsInv
  <2> QED
    BY <2>1, <2>2, EmptyRows DEF Whole, Seal, Rows
<1>4. \A l \in new : /\ l \in Links /\ account[l.user] # Nobody
                     /\ l.purpose = "reset"
  BY <1>3 DEF Links
<1>5. mailed' = mailed \cup new
  OBVIOUS
<1> HIDE DEF new
<1>6. LinkInv'
  BY <1>1, <1>4, <1>5 DEF AccountsInv, LinkInv, Names
<1>7. /\ mailed' \subseteq Links
      /\ \A l \in mailed' : account[l.user] # Nobody
      /\ \A l \in mailed' : l.purpose \in Purposes => l.id \in Ids
  BY <1>2, <1>4, <1>5 DEF AccountsInv, RowsInv, Purposes
<1>8. \A l \in mailed' : l.purpose = "change_email" => Proven(l.user)
  BY <1>4, <1>5 DEF AccountsInv, TrustInv
<1>9. \A l \in mailed', u \in Users, e \in Emails : Confirms(l, u, e) => HasAddress(u, e)
  BY <1>4, <1>5, OwnAddresses DEF Confirms
<1>10. token' \in [Users -> [Purposes -> TokenRows]]
  BY <1>1 DEF AccountsInv, TypeInv, TableTypes
<1> QED
  BY <1>1, <1>5, <1>6, <1>7, <1>8, <1>9, <1>10, Mailed

LEMMA IssueStep ==
  ASSUME AccountsInv, NEW r \in Requests, Issue(r)
  PROVE  AccountsInv'
<1> PICK x : x = request[r]
  OBVIOUS
<1> PICK u : u = x.user
  OBVIOUS
<1> PICK p : p = PurposeOf(r)
  OBVIOUS
<1>1. x \in RequestRows /\ Meets(x) /\ x.at = "issue"
  BY DEF AccountsInv, TypeInv, RequestsInv, Issue
<1>2. u \in Users /\ account[u] # Nobody /\ Loaded(x) /\ x.row.email \in Emails
  BY <1>1 DEF Meets, HeldWhole, Loaded, Whole
<1>3. UNCHANGED <<account, proven, session>> /\ Ends(r)
  BY DEF Issue
<1>4. CASE UNCHANGED <<token, mailed>>
  BY <1>3, <1>4, EndsQuietly
<1>5. ASSUME NEW id \in FreshIds,
             token' = [token EXCEPT ![u][p] = TokenOf(r, id)],
             mailed' \in {mailed, mailed \cup {LinkOf(r, id)}}
      PROVE  AccountsInv'
  <2> PICK new : new = TokenOf(r, id)
    OBVIOUS
  <2> PICK link : link = LinkOf(r, id)
    OBVIOUS
  <2>1. id \in Ids /\ \A l \in mailed : l.id # id
    BY FreshIsNew
  <2>2. /\ p \in Purposes
        /\ x.kind = "address" <=> p = "change_email"
        /\ x.kind = "address" => x.email \in Emails /\ Proven(u)
    BY <1>1 DEF PurposeOf, Purposes, Meets, HeldAddress, Trusts, Authed
  <2>3. /\ new \in TokenRows /\ new.id = id
        /\ p = "change_email" => new.to = x.email
    BY <2>1, <2>2 DEF TokenOf, TokenRows
  <2>4. /\ link \in Links /\ link.purpose = p /\ link.id = id /\ link.user = u
        /\ link.to = IF p = "change_email" THEN x.email ELSE x.row.email
    BY <1>2, <2>1, <2>2, EmptyRows DEF LinkOf, AddressOf, Links
  <2>5. /\ mailed' \subseteq mailed \cup {link}
        /\ mailed \subseteq mailed'
        /\ mailed \subseteq Links
    BY <1>5 DEF AccountsInv, TypeInv, TableTypes
  <2>6. token \in [Users -> [Purposes -> TokenRows]]
    BY DEF AccountsInv, TypeInv, TableTypes
  <2>7. token' = [token EXCEPT ![u][p] = new]
    BY <1>5
  <2>8. token' \in [Users -> [Purposes -> TokenRows]]
    BY <1>2, <2>2, <2>3, <2>6, <2>7
  <2>9. LinkInv'
    <3> SUFFICES ASSUME NEW l \in mailed', l.purpose = "change_email",
                        token'[l.user]["change_email"].id = l.id
                 PROVE  token'[l.user]["change_email"].to = l.to
      BY DEF LinkInv, Names
    <3>1. l.user \in Users /\ "change_email" \in Purposes
      BY <2>4, <2>5 DEF Links, Purposes
    <3>2. CASE l = link
      <4>1. token'[u][p] = new /\ p = "change_email"
        BY <1>2, <2>2, <2>4, <2>6, <2>7, <3>2
      <4> QED
        BY <2>3, <2>4, <3>2, <4>1
    <3>3. CASE l \in mailed /\ l.user = u /\ p = "change_email"
      <4>1. token'[u][p] = new
        BY <1>2, <2>2, <2>6, <2>7
      <4> QED
        BY <2>1, <2>3, <3>3, <4>1
    <3>4. CASE l \in mailed /\ ~(l.user = u /\ p = "change_email")
      <4>1. token'[l.user]["change_email"] = token[l.user]["change_email"]
        BY <2>6, <2>7, <3>1, <3>4
      <4>2. Names(l)
        BY <3>4 DEF AccountsInv, LinkInv
      <4> QED
        BY <4>1, <4>2 DEF Names
    <3> QED
      BY <2>5, <3>2, <3>3, <3>4
  <2>10. /\ mailed' \subseteq Links
         /\ \A l \in mailed' : account[l.user] # Nobody
    BY <1>2, <2>4, <2>5 DEF AccountsInv, RowsInv
  <2>11. \A l \in mailed' : l.purpose \in Purposes => l.id \in Ids
    BY <2>1, <2>4, <2>5 DEF AccountsInv, RowsInv
  <2>12. \A l \in mailed' : l.purpose = "change_email" => Proven(l.user)
    BY <2>2, <2>4, <2>5 DEF AccountsInv, TrustInv
  <2>13. \A v \in Users, e \in Emails : Confirms(link, v, e) => HasAddress(v, e)
    <3>1. HasAddress(u, x.row.email)
      BY <1>2, OwnAddresses DEF Holds
    <3> QED
      BY <2>4, <3>1 DEF Confirms
  <2>14. \A l \in mailed', v \in Users, e \in Emails : Confirms(l, v, e) => HasAddress(v, e)
    BY <2>5, <2>13, OwnAddresses
  <2> QED
    BY <1>3, <2>5, <2>8, <2>9, <2>10, <2>11, <2>12, <2>14, Mailed
<1>6. \/ UNCHANGED <<token, mailed>>
      \/ \E id \in FreshIds : /\ token' = [token EXCEPT ![u][p] = TokenOf(r, id)]
                              /\ mailed' \in {mailed, mailed \cup {LinkOf(r, id)}}
  BY DEF Issue
<1> QED
  BY <1>4, <1>5, <1>6

LEMMA ApplyStep ==
  ASSUME AccountsInv, NEW r \in Requests, Apply(r)
  PROVE  AccountsInv'
<1> PICK x : x = request[r]
  OBVIOUS
<1> PICK l : l = x.link
  OBVIOUS
<1> PICK u : u = l.user
  OBVIOUS
<1> DEFINE change == l.purpose = "change_email"
<1>1. x \in RequestRows /\ Meets(x) /\ x.kind = "verify" /\ x.at = "apply"
  BY DEF AccountsInv, TypeInv, RequestsInv, Apply, At
<1>2. /\ l \in mailed /\ l \in Links /\ u \in Users /\ l.purpose \in Purposes
      /\ l.to \in Emails /\ u = x.user /\ account[u] # Nobody
  BY <1>1 DEF Meets, HeldLink, AccountsInv, TypeInv, TableTypes, Links, RowsInv
<1>3. change => x.record.to = l.to
  BY <1>1 DEF Meets, Found
<1>4. UNCHANGED <<mailed, session>> /\ Ends(r)
  BY DEF Apply
<1>5. CASE UNCHANGED <<account, token, proven>>
  BY <1>4, <1>5, EndsQuietly
<1>6. ASSUME NEW row,
             row = IF change THEN ConfirmedRow(u, x.record)
                   ELSE [account[u] EXCEPT !.verified = TRUE],
             account' = [account EXCEPT ![u] = row],
             token' = Consumed(u, l.purpose, l.id),
             proven' = proven \cup {<<u, l.to>>}
      PROVE  AccountsInv'
  <2>1. account[u] \in Rows /\ Whole(account[u]) /\ account \in [Users -> Rows]
    BY <1>2 DEF AccountsInv, TypeInv, TableTypes, RowsInv
  <2>2. /\ row \in Rows /\ Whole(row) /\ row.verified
        /\ row.email = IF change THEN l.to ELSE account[u].email
    <3>1. CASE change
      BY <1>2, <1>3, <1>6, <2>1, <3>1 DEF ConfirmedRow, Rows, Whole
    <3>2. CASE ~change
      BY <1>6, <2>1, <3>2 DEF Rows, Whole
    <3> QED
      BY <3>1, <3>2
  <2>3. RowsInv' /\ account' \in [Users -> Rows] /\ Grown
    BY <1>2, <1>4, <1>6, <2>2, AccountWritten
  <2>4. request' \in [Requests -> RequestRows] /\ RequestsInv'
    BY <1>4, <2>3, Ended DEF AccountsInv
  <2>5. LinkInv' /\ token' \in [Users -> [Purposes -> TokenRows]]
    <3>1. CASE token' = token
      BY <1>4, <3>1 DEF AccountsInv, TypeInv, TableTypes, LinkInv, Names
    <3>2. CASE token' = [token EXCEPT ![u][l.purpose] = NoToken]
      BY <1>2, <1>4, <3>2, TokenGone DEF AccountsInv, TypeInv
    <3> QED
      BY <1>6, <3>1, <3>2 DEF Consumed
  <2>6. TypeInv'
    BY <1>2, <1>4, <1>6, <2>3, <2>4, <2>5 DEF AccountsInv, TypeInv, TableTypes
  <2>7. \A s \in Requests, v \in Users, e \in Emails :
          Holds(request'[s], v, e) => HasAddress(v, e)
    BY <1>4, EndedAddresses DEF AccountsInv
  <2>8. ASSUME NEW v \in Users, NEW e \in Emails, HasAddress(v, e)'
        PROVE  HasAddress(v, e) \/ (v = u /\ change /\ e = l.to)
    <3>1. CASE account'[v] # Nobody /\ account'[v].email = e
      BY <1>2, <1>6, <2>1, <2>2, <3>1, OwnAddresses
    <3>2. CASE \E s \in Requests : Holds(request'[s], v, e)
      BY <2>7, <3>2
    <3>3. CASE \E k \in mailed : Confirms(k, v, e)
      BY <3>3, OwnAddresses
    <3> QED
      BY <1>4, <2>8, <3>1, <3>2, <3>3 DEF HasAddress, Holds, Confirms, Loaded
  <2>9. \A v \in Users : Proven(v)' <=> Proven(v) \/ v = u
    BY <1>2, <1>6 DEF Proven
  <2>10. \A e \in Emails : HasAddress(u, e)' => <<u, e>> \in proven'
    <3>1. CASE Proven(u)
      BY <1>2, <1>6, <2>8, <3>1 DEF AccountsInv, AddressInv, AllProven
    <3>2. CASE ~Proven(u)
      <4>1. ~change
        BY <1>2, <3>2 DEF AccountsInv, TrustInv
      <4>2. HasAddress(u, l.to)
        BY <1>2, <4>1, OwnAddresses DEF Confirms, Purposes
      <4>3. \A e \in Emails : HasAddress(u, e) => e = l.to
        BY <1>2, <3>2, <4>2 DEF AccountsInv, AddressInv, OneAddress
      <4> QED
        BY <1>2, <1>6, <2>8, <4>1, <4>3
    <3> QED
      BY <3>1, <3>2
  <2>11. AddressInv'
    <3>1. \A v \in Users \ {u}, e \in Emails :
            HasAddress(v, e)' => HasAddress(v, e) /\ (<<v, e>> \in proven => <<v, e>> \in proven')
      BY <1>6, <2>8
    <3>2. AllProven'
      BY <2>9, <2>10, <3>1 DEF AccountsInv, AddressInv, AllProven
    <3>3. OneAddress'
      BY <2>9, <3>1 DEF AccountsInv, AddressInv, OneAddress
    <3> QED
      BY <3>2, <3>3 DEF AddressInv
  <2>12. TrustInv'
    <3>1. \A v : Proven(v) => Proven(v)'
      BY <1>6 DEF Proven
    <3>2. \A v \in Users : Proven(v)' => account'[v] # Nobody
      BY <1>2, <2>3, <2>9 DEF AccountsInv, TrustInv, Grown
    <3>3. \A v \in Users : account'[v].verified => Proven(v)'
      BY <1>6, <2>1, <2>9, <3>1 DEF AccountsInv, TrustInv
    <3>4. (\A k \in DOMAIN session : Proven(session[k].user))'
      BY <1>4, <1>6 DEF AccountsInv, TrustInv, Proven
    <3>5. (\A k \in mailed : k.purpose = "change_email" => Proven(k.user))'
      BY <1>4, <1>6 DEF AccountsInv, TrustInv, Proven
    <3> QED
      BY <3>2, <3>3, <3>4, <3>5 DEF TrustInv
  <2> QED
    BY <2>3, <2>4, <2>5, <2>6, <2>11, <2>12 DEF AccountsInv
<1>7. \/ UNCHANGED <<account, token, proven>>
      \/ /\ account' = [account EXCEPT ![u] =
              IF change THEN ConfirmedRow(u, x.record) ELSE [@ EXCEPT !.verified = TRUE]]
         /\ token' = Consumed(u, l.purpose, l.id)
         /\ proven' = proven \cup {<<u, l.to>>}
  BY DEF Apply, RolledBack
<1>8. account \in [Users -> Rows]
  BY DEF AccountsInv, TypeInv, TableTypes
<1> QED
  BY <1>2, <1>5, <1>6, <1>7, <1>8

-----------------------------------------------------------------------------
(* The invariant, and what it says of the accounts.                        *)

LEMMA AccountsInitially == Init => AccountsInv
<1> SUFFICES ASSUME Init
             PROVE  AccountsInv
  OBVIOUS
<1>1. \A u \in Users :
        account[u] = IF u \in DOMAIN Home
                     THEN [Nobody EXCEPT !.email = Home[u], !.verified = TRUE,
                                         !.password = 1, !.login = 1]
                     ELSE Nobody
  BY DEF Init
<1>2. \A u \in DOMAIN Home : Home[u] \in Emails
  BY AccountsAssumption
<1>3. ASSUME NEW u \in DOMAIN Home
      PROVE  /\ account[u] \in Rows /\ Whole(account[u]) /\ account[u] # Nobody
             /\ account[u].email = Home[u]
  <2>1. u \in Users /\ Home[u] \in Emails
    BY AccountsAssumption
  <2>2. account[u] = [email |-> Home[u], pending |-> NoEmail, verified |-> TRUE,
                      password |-> 1, login |-> 1]
    BY <1>1, <2>1 DEF Nobody
  <2>3. account[u] \in Rows /\ Whole(account[u]) /\ account[u].email = Home[u]
    BY <2>1, <2>2, Constants DEF Rows, Whole
  <2> QED
    BY <2>3, WholeIsSomebody
<1>4. ASSUME NEW u \in Users, account[u] # Nobody
      PROVE  u \in DOMAIN Home
  BY <1>1, <1>4
<1>5. request \in [Requests -> RequestRows] /\ \A r \in Requests : request[r] = Idle
  BY EmptyRows DEF Init
<1>6. TypeInv
  <2>1. account \in [Users -> Rows]
    BY <1>3, <1>4, EmptyRows DEF Init
  <2>2. token \in [Users -> [Purposes -> TokenRows]]
    BY EmptyRows DEF Init
  <2>3. proven \subseteq Users \X Emails
    <3>1. proven = {<<u, Home[u]>> : u \in DOMAIN Home}
      BY DEF Init
    <3>2. DOMAIN Home \subseteq Users
      BY AccountsAssumption
    <3> QED
      BY ONLY <1>2, <3>1, <3>2
  <2>4. mailed = {} /\ DOMAIN session = {}
    BY DEF Init
  <2> QED
    BY <1>5, <2>1, <2>2, <2>3, <2>4 DEF TypeInv, TableTypes
<1>7. RequestsInv
  BY <1>5, IdleMeets DEF RequestsInv
<1>8. RowsInv
  BY <1>3, <1>4 DEF RowsInv, Init
<1>9. \A u \in Users, e \in Emails : HasAddress(u, e) => u \in DOMAIN Home /\ e = Home[u]
  BY <1>3, <1>4, <1>5, IdleMeets DEF HasAddress, Holds, Init
<1>10. \A u \in DOMAIN Home : <<u, Home[u]>> \in proven
  BY DEF Init
<1>11. AddressInv
  BY <1>9, <1>10 DEF AddressInv, AllProven, OneAddress
<1>12. TrustInv
  <2>1. \A u \in DOMAIN Home : Proven(u)
    BY <1>2, <1>10 DEF Proven
  <2>2. \A u \in Users : Proven(u) => u \in DOMAIN Home
    BY DEF Proven, Init
  <2>3. \A u \in Users : account[u].verified => u \in DOMAIN Home
    <3>1. ~Nobody.verified
      BY DEF Nobody
    <3> QED
      BY <1>4, <3>1
  <2> QED
    BY <1>3, <2>1, <2>2, <2>3 DEF TrustInv, Init
<1>13. LinkInv
  BY DEF LinkInv, Init
<1> QED
  BY <1>6, <1>7, <1>8, <1>11, <1>12, <1>13 DEF AccountsInv

LEMMA AccountsStutter ==
  ASSUME AccountsInv, UNCHANGED accountVars
  PROVE  AccountsInv'
<1>1. Grown
  BY DEF Grown, accountVars
<1>2. request' \in [Requests -> RequestRows] /\ RequestsInv'
  BY <1>1, StillRequests DEF AccountsInv, accountVars
<1>3. TableTypes' /\ LinkInv' /\ \A k \in DOMAIN session' : Proven(session'[k].user)
  BY DEF accountVars, AccountsInv, TypeInv, TableTypes, LinkInv, Names, TrustInv
<1> QED
  BY <1>2, <1>3, SameAddresses, LightStep DEF accountVars

LEMMA AccountsNext ==
  ASSUME AccountsInv, [Next]_vars
  PROVE  AccountsInv'
<1>1. ASSUME NEW r \in Requests, Step(r)
      PROVE  AccountsInv'
  <2>1. CASE \E kind \in Kinds : Post(r, kind) \/ SignedIn(r, kind)
    BY <2>1, PostStep, SignedInStep
  <2>2. CASE OpenLink(r) \/ OpenResetLink(r)
    BY <2>2, OpenLinkStep, OpenResetLinkStep
  <2>3. CASE GetBlock(r) \/ AddCount(r) \/ IncrCount(r) \/ AddAgain(r) \/ SetBlock(r)
    BY <2>3, LimiterSteps
  <2>4. CASE RegisterForm(r) \/ RegisterInsert(r) \/ Resend(r)
    BY <2>4, RegisterFormStep, RegisterInsertStep, ResendStep
  <2>5. CASE Forget(r) \/ Issue(r) \/ Lookup(r) \/ Apply(r)
    BY <2>5, ForgetStep, IssueStep, LookupStep, ApplyStep
  <2>6. CASE Authenticate(r) \/ ClearBucket(r) \/ OpenSession(r)
    BY <2>6, AuthenticateStep, ClearBucketStep, OpenSessionStep
  <2>7. CASE AddressForm(r) \/ SavePending(r)
    BY <2>7, AddressFormStep, SavePendingStep
  <2>8. CASE MailReset(r) \/ SavePassword(r) \/ Rehash(r)
    BY <2>8, MailResetStep, SavePasswordStep, RehashStep
  <2>9. CASE ListSessions(r) \/ Sweep(r) \/ Killed(r)
    BY <2>9, ListSessionsStep, SweepStep, KilledStep
  <2> QED
    BY <1>1, <2>1, <2>2, <2>3, <2>4, <2>5, <2>6, <2>7, <2>8, <2>9 DEF Step
<1>2. CASE \E k \in DOMAIN session : SignOut(k)
  BY <1>2, SignOutStep
<1>3. CASE \E u \in Users, p \in Purposes : Expire(u, p)
  BY <1>3, ExpireStep
<1>4. CASE \E b \in Buckets : KeyTimesOut(b)
  BY <1>4, AccountsStutter DEF KeyTimesOut
<1>5. CASE UNCHANGED vars
  BY <1>5, AccountsStutter DEF vars, accountVars
<1> QED
  BY <1>1, <1>2, <1>3, <1>4, <1>5 DEF Next

LEMMA AccountsInvariant == Spec => []AccountsInv
BY AccountsInitially, AccountsNext, PTL DEF Spec

\* An address is marked verified only if a link sent to that very address has
\* been opened, for any number of requests in flight that hold copies of rows
\* and tokens (verify_email, views.py:180-190).
THEOREM VerifiedWasProven == Spec => []VerifiedMeansProven
<1>1. AccountsInv => VerifiedMeansProven
  <2> SUFFICES ASSUME AccountsInv, NEW u \in Registered, account[u].verified
               PROVE  <<u, account[u].email>> \in proven
    BY DEF VerifiedMeansProven
  <2>1. u \in Users /\ account[u] # Nobody /\ account[u].email \in Emails
    BY DEF Registered, AccountsInv, RowsInv, Whole
  <2>2. HasAddress(u, account[u].email) /\ Proven(u)
    BY <2>1, OwnAddresses DEF AccountsInv, TrustInv
  <2> QED
    BY <2>1, <2>2 DEF AccountsInv, AddressInv, AllProven
<1> QED
  BY <1>1, AccountsInvariant, PTL

\* Nobody has a session who never proved an address
\* (LoginView.form_valid, views.py:226-238).
THEOREM SessionsAreOfProven == Spec => []SignedInWasProven
<1>1. AccountsInv => SignedInWasProven
  BY DEF AccountsInv, TrustInv, Proven, SignedInWasProven
<1> QED
  BY <1>1, AccountsInvariant, PTL

-----------------------------------------------------------------------------
(* The tokens.                                                             *)

LEMMA SpentStep ==
  ASSUME AccountsInv, [Next]_vars, NEW u \in Users, NEW p \in Purposes, Spent(u, p)
  PROVE  Reissuing(u, p) \/ Done(u, p)
<1>1. token \in [Users -> [Purposes -> TokenRows]] /\ token' # token
  BY DEF AccountsInv, TypeInv, TableTypes, Spent
<1>2. ASSUME NEW r \in Requests, Forget(r)
      PROVE  Reissuing(u, p)
  <2>1. /\ request[r].at = "forget"
        /\ token' = [token EXCEPT ![request[r].user][PurposeOf(r)] = NoToken]
    BY <1>2 DEF Forget
  <2>2. request[r].user = u /\ PurposeOf(r) = p
    BY <1>1, <2>1 DEF Spent
  <2> QED
    BY <2>1, <2>2 DEF Reissuing
<1>3. ASSUME NEW r \in Requests, Issue(r)
      PROVE  FALSE
  <2> PICK v : v = request[r].user
    OBVIOUS
  <2> PICK q : q = PurposeOf(r)
    OBVIOUS
  <2> PICK id \in FreshIds : token[v][q] = NoToken /\ token' = [token EXCEPT ![v][q] = TokenOf(r, id)]
    BY <1>1, <1>3 DEF Issue
  <2>1. v # u \/ q # p
    BY DEF Spent
  <2>2. token'[u][p] = token[u][p]
    BY <1>1, <2>1
  <2> QED
    BY <2>2 DEF Spent
<1>4. ASSUME NEW r \in Requests, Apply(r)
      PROVE  Done(u, p)
  <2> PICK l : l = request[r].link
    OBVIOUS
  <2>1. Meets(request[r]) /\ request[r].kind = "verify" /\ request[r].at = "apply"
    BY <1>4 DEF AccountsInv, RequestsInv, Apply, At
  <2>2. l \in mailed /\ l.user \in Users
    BY <2>1 DEF Meets, HeldLink, AccountsInv, TypeInv, TableTypes, Links
  <2>3. /\ token' = Consumed(l.user, l.purpose, l.id)
        /\ account' = [account EXCEPT ![l.user] =
             IF l.purpose = "change_email" THEN ConfirmedRow(l.user, request[r].record)
             ELSE [@ EXCEPT !.verified = TRUE]]
    BY <1>1, <1>4 DEF Apply, RolledBack
  <2>4. /\ token[l.user][l.purpose].id = l.id
        /\ token' = [token EXCEPT ![l.user][l.purpose] = NoToken]
    BY <1>1, <2>3 DEF Consumed
  <2>5. l.user = u /\ l.purpose = p
    BY <1>1, <2>2, <2>4 DEF Spent
  <2>6. account[u] \in Rows /\ account \in [Users -> Rows]
    BY DEF AccountsInv, TypeInv, TableTypes
  <2>7. CASE p = "change_email"
    <3>1. account'[u] = ConfirmedRow(u, request[r].record)
      BY <2>3, <2>5, <2>6, <2>7
    <3>2. account'[u].verified /\ account'[u].email = request[r].record.to
      BY <2>6, <3>1 DEF ConfirmedRow, Rows
    <3>3. request[r].record.to = l.to
      BY <2>1, <2>5, <2>7 DEF Meets, Found
    <3>4. token[u][p].to = l.to
      BY <2>2, <2>4, <2>5, <2>7 DEF AccountsInv, LinkInv, Names
    <3> QED
      BY <3>2, <3>3, <3>4 DEF Done
  <2>8. CASE p # "change_email"
    <3>1. account'[u] = [account[u] EXCEPT !.verified = TRUE]
      BY <2>3, <2>5, <2>6, <2>8
    <3>2. account'[u].verified
      BY <2>6, <3>1 DEF Rows
    <3> QED
      BY <2>8, <3>2 DEF Done
  <2> QED
    BY <2>7, <2>8
<1>5. ASSUME NEW v \in Users, NEW q \in Purposes, Expire(v, q)
      PROVE  FALSE
  <2>1. token' = [token EXCEPT ![v][q].expired = TRUE]
    BY <1>5 DEF Expire
  <2>2. token[v][q] \in TokenRows
    BY <1>1
  <2>3. CASE v = u /\ q = p
    <3>1. token'[u][p] = [token[u][p] EXCEPT !.expired = TRUE]
      BY <1>1, <2>1, <2>3
    <3>2. token'[u][p].expired
      BY <2>2, <2>3, <3>1 DEF TokenRows
    <3> QED
      BY <3>2 DEF Spent, NoToken
  <2>4. CASE ~(v = u /\ q = p)
    <3>1. token'[u][p] = token[u][p]
      BY <1>1, <2>1, <2>4
    <3> QED
      BY <3>1 DEF Spent
  <2> QED
    BY <2>3, <2>4
<1>6. ASSUME NEW r \in Requests, Step(r)
      PROVE  Forget(r) \/ Issue(r) \/ Apply(r)
  BY <1>1, <1>6, ZenonT(30)
     DEF Step, Post, SignedIn, OpenLink, OpenResetLink, Arrives, GetBlock, AddCount, IncrCount,
         AddAgain, SetBlock, RegisterForm, RegisterInsert, Resend, Lookup, Authenticate,
         ClearBucket, OpenSession, AddressForm, SavePending, MailReset, SavePassword, Rehash,
         ListSessions, Sweep, Killed
<1>7. CASE \E r \in Requests : Step(r)
  BY <1>2, <1>3, <1>4, <1>6, <1>7
<1>8. CASE \E k \in DOMAIN session : SignOut(k)
  BY <1>1, <1>8 DEF SignOut
<1>9. CASE \E b \in Buckets : KeyTimesOut(b)
  BY <1>1, <1>9 DEF KeyTimesOut, accountVars
<1>10. CASE UNCHANGED vars
  BY <1>1, <1>10 DEF vars, accountVars
<1> QED
  BY <1>5, <1>7, <1>8, <1>9, <1>10 DEF Next

\* A token goes away only because another one is being issued in its place or
\* because what it was for has been done: an application that fails does not
\* burn the link (views.py:169-173).
THEOREM LinksAreNotBurnt == Spec => SpentOnlyWhenDone
<1>1. AccountsInv /\ [Next]_vars =>
        [\A u \in Users, p \in Purposes : Spent(u, p) => Reissuing(u, p) \/ Done(u, p)]_vars
  BY SpentStep
<1> QED
  BY <1>1, AccountsInvariant, PTL DEF Spec, SpentOnlyWhenDone

-----------------------------------------------------------------------------
(* The limiter.                                                            *)

LEMMA RequestSets ==
  /\ Cardinality(Requests) \in Nat /\ Cardinality(Requests) >= 1
  /\ \A S \in SUBSET Requests : Cardinality(S) \in Nat
  /\ \A T \in SUBSET Requests : \A S \in SUBSET T : Cardinality(S) <= Cardinality(T)
  /\ \A S \in SUBSET Requests : \A r \in S : Cardinality(S \ {r}) = Cardinality(S) - 1
<1>1. IsFiniteSet(Requests) /\ Requests # {}
  BY AccountsAssumption
<1>2. \A S \in SUBSET Requests : IsFiniteSet(S)
  BY <1>1, FS_Subset
<1>3. \A S \in SUBSET Requests : Cardinality(S) \in Nat
  BY <1>2, FS_CardinalityType
<1>4. \A T \in SUBSET Requests : \A S \in SUBSET T : Cardinality(S) <= Cardinality(T)
  BY <1>2, FS_Subset
<1>5. \A S \in SUBSET Requests : \A r \in S : Cardinality(S \ {r}) = Cardinality(S) - 1
  BY <1>2, FS_RemoveElement
<1>6. Cardinality(Requests) # 0
  BY <1>1, FS_EmptySet
<1> QED
  BY <1>3, <1>4, <1>5, <1>6

(* Whoever was not in a set of requests leaves room for one more.          *)
LEMMA RoomForOne ==
  ASSUME NEW S \in SUBSET Requests, NEW r \in Requests, r \notin S
  PROVE  Cardinality(S) <= Cardinality(Requests) - 1
<1>1. S \in SUBSET (Requests \ {r}) /\ Requests \ {r} \in SUBSET Requests
  OBVIOUS
<1>2. Cardinality(S) <= Cardinality(Requests \ {r})
  BY <1>1, RequestSets
<1>3. Cardinality(Requests \ {r}) = Cardinality(Requests) - 1
  BY RequestSets
<1> QED
  BY <1>2, <1>3

LEMMA BucketKept ==
  ASSUME LimiterInv, NEW b \in Buckets, count'[b] = count[b], admitted'[b] = admitted[b],
         count[b] # 0 => Again(b)' \subseteq Again(b)
  PROVE  BucketInv(b)'
<1> PICK N : N = Cardinality(Requests)
  OBVIOUS
<1> PICK S : S = Again(b)'
  OBVIOUS
<1> PICK T : T = Again(b)
  OBVIOUS
<1>1. BucketInv(b) /\ count[b] \in Nat /\ admitted[b] \in Nat
  BY DEF LimiterInv, LimiterTypes
<1>2. CASE count[b] = 0
  BY <1>1, <1>2 DEF BucketInv
<1>3. CASE count[b] # 0
  <2>1. S \in SUBSET T /\ T \in SUBSET Requests
    BY <1>3 DEF Again
  <2>2. Cardinality(S) <= Cardinality(T) /\ Cardinality(S) \in Nat /\ Cardinality(T) \in Nat
    BY <2>1, RequestSets
  <2>3. N \in Nat /\ Limit \in Nat
    BY RequestSets, LimitAssumption
  <2>4. admitted[b] + Cardinality(T) <= Counted(b) + N - 1
    BY <1>1, <1>3 DEF BucketInv
  <2>5. Counted(b)' = Counted(b) /\ Counted(b) \in Nat
    BY <1>1, <2>3 DEF Counted
  <2>6. admitted'[b] + Cardinality(S) <= Counted(b)' + N - 1
    BY <1>1, <2>2, <2>3, <2>4, <2>5
  <2> QED
    BY <1>3, <2>6 DEF BucketInv
<1> QED
  BY <1>2, <1>3

(* One more admission: counted, or by a request that had lost its counter. *)
LEMMA BucketAdmits ==
  ASSUME LimiterInv, NEW b \in Buckets, NEW r \in Requests,
         admitted'[b] = admitted[b] + 1, count'[b] \in Nat \ {0},
         Again(b)' \subseteq Again(b), r \notin Again(b)',
         \/ count[b] = 0
         \/ count[b] < Limit /\ count'[b] = count[b] + 1
         \/ r \in Again(b) /\ count'[b] = count[b]
  PROVE  BucketInv(b)'
<1> PICK N : N = Cardinality(Requests)
  OBVIOUS
<1> PICK S : S = Again(b)'
  OBVIOUS
<1> PICK T : T = Again(b)
  OBVIOUS
<1> PICK s : s = Cardinality(S)
  OBVIOUS
<1> PICK t : t = Cardinality(T)
  OBVIOUS
<1>1. BucketInv(b) /\ count[b] \in Nat /\ admitted[b] \in Nat
  BY DEF LimiterInv, LimiterTypes
<1>2. S \in SUBSET T /\ T \in SUBSET Requests /\ S \in SUBSET Requests /\ r \notin S
  BY DEF Again
<1>3. s <= t /\ s \in Nat /\ t \in Nat /\ N \in Nat /\ s <= N - 1
  BY <1>2, RequestSets, RoomForOne
<1>4. Limit \in Nat /\ Limit >= 1
  BY LimitAssumption
<1>5. admitted'[b] + s <= Counted(b)' + N - 1
  <2>1. CASE count[b] = 0
    <3>1. admitted[b] = 0
      BY <1>1, <2>1 DEF BucketInv
    <3>2. Counted(b)' \in Nat /\ Counted(b)' >= 1
      BY <1>4 DEF Counted
    <3> QED
      BY <1>3, <3>1, <3>2
  <2>2. CASE count[b] # 0
    <3>1. admitted[b] + t <= Counted(b) + N - 1
      BY <1>1, <2>2 DEF BucketInv
    <3>2. CASE count[b] < Limit /\ count'[b] = count[b] + 1
      <4>1. Counted(b)' = Counted(b) + 1 /\ Counted(b) \in Nat
        BY <1>1, <1>4, <3>2 DEF Counted
      <4> QED
        BY <1>1, <1>3, <3>1, <4>1
    <3>3. CASE r \in Again(b) /\ count'[b] = count[b]
      <4>1. Counted(b)' = Counted(b) /\ Counted(b) \in Nat
        BY <1>1, <1>4, <3>3 DEF Counted
      <4>2. S \in SUBSET (T \ {r}) /\ T \ {r} \in SUBSET Requests /\ r \in T
        BY <1>2, <3>3
      <4>3. s <= t - 1
        BY <1>2, <4>2, RequestSets, ZenonT(30)
      <4> QED
        BY <1>1, <1>3, <3>1, <4>1, <4>3
    <3> QED
      BY <2>2, <3>2, <3>3
  <2> QED
    BY <2>1, <2>2
<1> QED
  BY <1>5 DEF BucketInv

LEMMA BucketCleared ==
  ASSUME NEW b, count'[b] = 0, admitted'[b] = 0
  PROVE  BucketInv(b)'
BY DEF BucketInv

(* A step of one request, or of none, as the limiter sees it.              *)
Moves(r, q) == request' = [request EXCEPT ![r] = q]

LEMMA BucketsHeld ==
  ASSUME LimiterInv, NEW r \in Requests, NEW q, Moves(r, q), request \in [Requests -> RequestRows],
         HeldBucket(q)
  PROVE  \A s \in Requests : HeldBucket(request'[s])
<1>1. \A s \in Requests : request'[s] = IF s = r THEN q ELSE request[s]
  BY DEF Moves
<1> QED
  BY <1>1 DEF LimiterInv

LEMMA NobodyLoses ==
  ASSUME NEW r \in Requests, NEW q, Moves(r, q), request \in [Requests -> RequestRows],
         q.at # "again"
  PROVE  \A b : Again(b)' \subseteq Again(b) /\ r \notin Again(b)'
BY DEF Moves, Again

LEMMA SameLimiter ==
  ASSUME LimiterInv, UNCHANGED limiterVars, \A s \in Requests : HeldBucket(request'[s]),
         \A b : Again(b)' \subseteq Again(b)
  PROVE  LimiterInv'
<1>1. LimiterTypes'
  BY DEF LimiterInv, LimiterTypes, limiterVars
<1>2. ASSUME NEW b \in Buckets
      PROVE  BucketInv(b)'
  BY BucketKept DEF limiterVars
<1>3. (\A s \in Requests : HeldBucket(request[s]))'
  BY DEF HeldBucket
<1> QED
  BY <1>1, <1>2, <1>3 DEF LimiterInv

(* Most steps take a request to a place the limiter has no part in.        *)
LEMMA Elsewhere ==
  ASSUME LimiterInv, UNCHANGED limiterVars, NEW r \in Requests, NEW q, Moves(r, q),
         request \in [Requests -> RequestRows], q.at # "again", HeldBucket(q)
  PROVE  LimiterInv'
BY BucketsHeld, NobodyLoses, SameLimiter

LEMMA LimiterStays ==
  ASSUME LimiterInv, UNCHANGED limiterVars, request' = request
  PROVE  LimiterInv'
<1>1. \A s \in Requests : HeldBucket(request'[s])
  BY DEF LimiterInv
<1>2. \A b : Again(b)' \subseteq Again(b)
  BY DEF Again
<1> QED
  BY <1>1, <1>2, SameLimiter

LEMMA Outside ==
  ASSUME LimiterInv, TypeInv, UNCHANGED limiterVars, NEW r \in Requests,
         \A s \in Requests \ {r} : request'[s] = request[s],
         request'[r].at \notin LimiterPlaces
  PROVE  LimiterInv'
<1>1. \A s \in Requests : HeldBucket(request'[s])
  BY DEF LimiterInv, HeldBucket
<1>2. \A b : Again(b)' \subseteq Again(b)
  BY DEF Again, LimiterPlaces
<1> QED
  BY <1>1, <1>2, SameLimiter

LEMMA EndsOutside ==
  ASSUME TypeInv, NEW r \in Requests, Ends(r)
  PROVE  /\ \A s \in Requests \ {r} : request'[s] = request[s]
         /\ request'[r].at \notin LimiterPlaces
BY DEF Ends, Idle, LimiterPlaces, TypeInv

LEMMA GoesOutside ==
  ASSUME TypeInv, NEW r \in Requests, NEW place, Goes(r, place), place \notin LimiterPlaces
  PROVE  /\ \A s \in Requests \ {r} : request'[s] = request[s]
         /\ request'[r].at \notin LimiterPlaces
<1>1. request[r] \in RequestRows
  BY DEF TypeInv
<1> QED
  BY <1>1 DEF Goes, TypeInv, RequestRows

LEMMA ArrivesSomewhere ==
  ASSUME LimiterInv, TypeInv, NEW r \in Requests, NEW q, Arrives(r, q),
         q.at # "again", HeldBucket(q)
  PROVE  LimiterInv'
BY Elsewhere DEF Arrives, Moves, TypeInv

LEMMA ArrivalsLimited ==
  ASSUME LimiterInv, AccountsInv, NEW r \in Requests,
         \/ \E kind \in Kinds : Post(r, kind) \/ SignedIn(r, kind)
         \/ OpenLink(r) \/ OpenResetLink(r)
  PROVE  LimiterInv'
<1>1. TypeInv
  BY DEF AccountsInv
<1>2. ASSUME NEW kind \in Kinds, Post(r, kind)
      PROVE  LimiterInv'
  <2> PICK e \in Emails :
        Arrives(r, [Idle EXCEPT !.kind = kind, !.at = "check", !.email = e,
                      !.bucket = IF kind = "register" THEN <<kind, "client">> ELSE <<kind, e>>])
    BY <1>2 DEF Post
  <2> PICK b : b = IF kind = "register" THEN <<kind, "client">> ELSE <<kind, e>>
    OBVIOUS
  <2> PICK q : q = [Idle EXCEPT !.kind = kind, !.at = "check", !.email = e, !.bucket = b]
    OBVIOUS
  <2>1. b \in Buckets
    BY <1>2, AccountsAssumption DEF AllBuckets, Post
  <2>2. q.at = "check" /\ q.bucket = b
    BY DEF Idle
  <2> QED
    BY <1>1, <2>1, <2>2, ArrivesSomewhere DEF HeldBucket
<1>3. ASSUME NEW kind \in Kinds, SignedIn(r, kind)
      PROVE  LimiterInv'
  <2> DEFINE place == CASE kind = "address" -> "form"
                        [] kind = "password" -> "save"
                        [] kind = "everywhere" -> "list"
  <2> PICK k \in DOMAIN session, e \in Emails :
        Arrives(r, [Idle EXCEPT !.kind = kind, !.at = place,
                      !.user = session[k].user, !.row = account[session[k].user],
                      !.session = k, !.email = IF kind = "address" THEN e ELSE NoEmail])
    BY <1>3 DEF SignedIn
  <2>1. place \in {"form", "save", "list"}
    BY <1>3 DEF SignedIn, Authed
  <2> HIDE DEF place
  <2> PICK q : q = [Idle EXCEPT !.kind = kind, !.at = place,
                      !.user = session[k].user, !.row = account[session[k].user],
                      !.session = k, !.email = IF kind = "address" THEN e ELSE NoEmail]
    OBVIOUS
  <2>2. q.at = place
    BY DEF Idle
  <2> QED
    BY <1>1, <2>1, <2>2, ArrivesSomewhere DEF HeldBucket, LimiterPlaces
<1>4. CASE OpenLink(r)
  <2> PICK l \in mailed :
        Arrives(r, [Idle EXCEPT !.kind = "verify", !.at = "lookup", !.user = l.user,
                                !.row = account[l.user], !.link = l])
    BY <1>4 DEF OpenLink
  <2> PICK q : q = [Idle EXCEPT !.kind = "verify", !.at = "lookup", !.user = l.user,
                                !.row = account[l.user], !.link = l]
    OBVIOUS
  <2>1. q.at = "lookup"
    BY DEF Idle
  <2> QED
    BY <1>1, <2>1, ArrivesSomewhere DEF HeldBucket, LimiterPlaces
<1>5. CASE OpenResetLink(r)
  <2> PICK l \in mailed :
        Arrives(r, [Idle EXCEPT !.kind = "reset", !.at = "check", !.user = l.user,
                                !.row = account[l.user], !.link = l,
                                !.bucket = <<"reset", l.user>>])
    BY <1>5 DEF OpenResetLink
  <2> PICK q : q = [Idle EXCEPT !.kind = "reset", !.at = "check", !.user = l.user,
                                !.row = account[l.user], !.link = l,
                                !.bucket = <<"reset", l.user>>]
    OBVIOUS
  <2>1. q.at = "check" /\ q.bucket = <<"reset", l.user>>
    BY DEF Idle
  <2>2. l.user \in Users
    BY DEF AccountsInv, TypeInv, TableTypes, Links
  <2>3. <<"reset", l.user>> \in Buckets
    BY <2>2, AccountsAssumption DEF AllBuckets
  <2> QED
    BY <1>1, <2>1, <2>3, ArrivesSomewhere DEF HeldBucket
<1> QED
  BY <1>2, <1>3, <1>4, <1>5

(* The views, once the limiter has let the request through.                *)
LEMMA ViewsLimited ==
  ASSUME LimiterInv, AccountsInv, NEW r \in Requests,
         \/ RegisterForm(r) \/ RegisterInsert(r) \/ Resend(r)
         \/ Forget(r) \/ Issue(r) \/ Lookup(r) \/ Apply(r)
         \/ Authenticate(r) \/ OpenSession(r) \/ AddressForm(r) \/ SavePending(r)
         \/ MailReset(r) \/ SavePassword(r) \/ Rehash(r)
         \/ ListSessions(r) \/ Sweep(r) \/ Killed(r)
  PROVE  LimiterInv'
<1> DEFINE Out == /\ \A s \in Requests \ {r} : request'[s] = request[s]
                  /\ request'[r].at \notin LimiterPlaces
<1>1. TypeInv /\ request[r] \in RequestRows /\ request \in [Requests -> RequestRows]
  BY DEF AccountsInv, TypeInv
<1>2. UNCHANGED limiterVars
  BY DEF RegisterForm, RegisterInsert, Resend, Forget, Issue, Lookup, Apply, Authenticate,
         OpenSession, AddressForm, SavePending, MailReset, SavePassword, Rehash,
         ListSessions, Sweep, Killed
<1>3. ASSUME Ends(r)
      PROVE  Out
  BY <1>1, <1>3, EndsOutside
<1>4. ASSUME \E place \in {"insert", "issue", "pending", "forget"} : Goes(r, place)
      PROVE  Out
  BY <1>1, <1>4, GoesOutside DEF LimiterPlaces
<1>5. ASSUME NEW u, NEW row, NEW place \in {"forget", "clear"},
             request' = [request EXCEPT ![r].at = place, ![r].user = u, ![r].row = row]
      PROVE  Out
  BY <1>1, <1>5 DEF LimiterPlaces, RequestRows
<1>6. ASSUME NEW found,
             request' = [request EXCEPT ![r].at = "apply", ![r].record = found]
      PROVE  Out
  BY <1>1, <1>6 DEF LimiterPlaces, RequestRows
<1>7. ASSUME NEW id, NEW place \in {"list", "rehash"},
             request' = [request EXCEPT ![r].row.password = id, ![r].at = place]
      PROVE  Out
  BY <1>1, <1>7 DEF LimiterPlaces, RequestRows
<1>8. ASSUME NEW ks, request' = [request EXCEPT ![r].at = "sweep", ![r].listed = ks]
      PROVE  Out
  BY <1>1, <1>8 DEF LimiterPlaces, RequestRows
<1>9. ASSUME NEW ks, request[r].at = "sweep", request' = [request EXCEPT ![r].listed = ks]
      PROVE  Out
  BY <1>1, <1>9 DEF LimiterPlaces, RequestRows
<1> HIDE DEF Out
<1>10. ASSUME RegisterForm(r) \/ Forget(r) \/ Issue(r) \/ Apply(r) \/ OpenSession(r) \/ AddressForm(r)
              \/ SavePending(r) \/ MailReset(r) \/ Rehash(r) \/ Killed(r)
       PROVE  Out
  <2>1. Ends(r) \/ \E place \in {"insert", "issue", "pending", "forget"} : Goes(r, place)
    BY <1>10 DEF RegisterForm, Forget, Issue, Apply, OpenSession, AddressForm, SavePending,
                 MailReset, Rehash, Killed
  <2> QED
    BY <1>3, <1>4, <2>1
<1>11. ASSUME RegisterInsert(r)
       PROVE  Out
  BY <1>3, <1>5, <1>11 DEF RegisterInsert
<1>12. ASSUME Resend(r)
       PROVE  Out
  BY <1>3, <1>5, <1>12 DEF Resend
<1>13. ASSUME Authenticate(r)
       PROVE  Out
  BY <1>3, <1>5, <1>13 DEF Authenticate
<1>14. ASSUME Lookup(r)
       PROVE  Out
  BY <1>3, <1>6, <1>14 DEF Lookup
<1>15. ASSUME SavePassword(r)
       PROVE  Out
  BY <1>3, <1>7, <1>15 DEF SavePassword
<1>16. ASSUME ListSessions(r)
       PROVE  Out
  BY <1>8, <1>16 DEF ListSessions
<1>17. ASSUME Sweep(r)
       PROVE  Out
  BY <1>3, <1>9, <1>17 DEF Sweep
<1>18. Out
  BY <1>10, <1>11, <1>12, <1>13, <1>14, <1>15, <1>16, <1>17
<1> QED
  BY <1>1, <1>2, <1>18, Outside DEF Out

-----------------------------------------------------------------------------
(* The steps of the limiter itself.                                        *)

LEMMA LimiterMoves ==
  ASSUME LimiterInv, TypeInv, NEW r \in Requests, request[r].at \in LimiterPlaces,
         \/ Ends(r)
         \/ \E place \in {"add", "begin", "incr", "block"} : Goes(r, place)
  PROVE  /\ (\A s \in Requests : HeldBucket(request[s]))'
         /\ \A b : Again(b)' \subseteq Again(b) /\ r \notin Again(b)'
<1>1. request[r] \in RequestRows /\ request \in [Requests -> RequestRows]
  BY DEF TypeInv
<1>2. CASE Ends(r)
  <2>1. Idle.at = "idle"
    BY DEF Idle
  <2>2. \A s \in Requests : request'[s] = IF s = r THEN Idle ELSE request[s]
    BY <1>1, <1>2 DEF Ends
  <2> QED
    BY <1>1, <2>1, <2>2 DEF LimiterInv, HeldBucket, LimiterPlaces, Again
<1>3. ASSUME NEW place \in {"add", "begin", "incr", "block"}, Goes(r, place)
      PROVE  /\ (\A s \in Requests : HeldBucket(request[s]))'
             /\ \A b : Again(b)' \subseteq Again(b) /\ r \notin Again(b)'
  <2>1. /\ \A s \in Requests \ {r} : request'[s] = request[s]
        /\ request'[r].at = place /\ request'[r].bucket = request[r].bucket
    BY <1>1, <1>3 DEF Goes, RequestRows
  <2> QED
    BY <1>1, <2>1 DEF LimiterInv, HeldBucket, Again
<1> QED
  BY <1>2, <1>3

LEMMA GetBlockLimited ==
  ASSUME LimiterInv, TypeInv, NEW r \in Requests, GetBlock(r) \/ SetBlock(r)
  PROVE  LimiterInv'
<1>1. /\ (\A s \in Requests : HeldBucket(request[s]))'
      /\ \A b : Again(b)' \subseteq Again(b)
  BY LimiterMoves DEF GetBlock, SetBlock, LimiterPlaces
<1>2. count' = count /\ admitted' = admitted
  BY DEF GetBlock, SetBlock, SeesBlock, SeesNoBlock, SetsBlock, limiterVars
<1>3. blocked' \in [Buckets -> BOOLEAN]
  BY DEF GetBlock, SetBlock, SeesBlock, SeesNoBlock, SetsBlock, limiterVars, LimiterInv, LimiterTypes
<1>4. LimiterTypes'
  BY <1>2, <1>3 DEF LimiterInv, LimiterTypes
<1>5. \A b \in Buckets : BucketInv(b)'
  BY <1>1, <1>2, BucketKept
<1> QED
  BY <1>1, <1>4, <1>5 DEF LimiterInv

LEMMA AddCountLimited ==
  ASSUME LimiterInv, TypeInv, NEW r \in Requests, AddCount(r)
  PROVE  LimiterInv'
<1> PICK c : c = request[r].bucket
  OBVIOUS
<1>1. request[r].at = "add" /\ c \in Buckets
  BY DEF AddCount, LimiterInv, HeldBucket, LimiterPlaces
<1>2. /\ (\A s \in Requests : HeldBucket(request[s]))'
      /\ \A b : Again(b)' \subseteq Again(b) /\ r \notin Again(b)'
  BY <1>1, LimiterMoves DEF AddCount, LimiterPlaces
<1>3. /\ count \in [Buckets -> Nat] /\ blocked \in [Buckets -> BOOLEAN]
      /\ admitted \in [Buckets -> Nat]
  BY DEF LimiterInv, LimiterTypes
<1>4. CASE FindsWindow(c)
  <2>1. UNCHANGED limiterVars
    BY <1>4 DEF FindsWindow
  <2> QED
    BY <1>2, <2>1, SameLimiter DEF HeldBucket
<1>5. CASE OpensWindow(c)
  <2>1. /\ count[c] = 0 /\ count' = [count EXCEPT ![c] = 1]
        /\ admitted' = [admitted EXCEPT ![c] = @ + 1] /\ blocked' = blocked
    BY <1>5 DEF OpensWindow, LetThrough
  <2>2. LimiterTypes'
    BY <1>1, <1>3, <2>1 DEF LimiterTypes
  <2>3. BucketInv(c)'
    <3>1. count'[c] = 1 /\ admitted'[c] = admitted[c] + 1
      BY <1>1, <1>3, <2>1
    <3> QED
      BY <1>1, <1>2, <2>1, <3>1, BucketAdmits
  <2>4. ASSUME NEW b \in Buckets, b # c
        PROVE  BucketInv(b)'
    <3>1. count'[b] = count[b] /\ admitted'[b] = admitted[b]
      BY <1>3, <2>1, <2>4
    <3> QED
      BY <1>2, <3>1, BucketKept
  <2> QED
    BY <1>2, <2>2, <2>3, <2>4 DEF LimiterInv
<1> QED
  BY <1>4, <1>5 DEF AddCount, Bucket

LEMMA IncrCountLimited ==
  ASSUME LimiterInv, TypeInv, NEW r \in Requests, IncrCount(r)
  PROVE  LimiterInv'
<1> PICK c : c = request[r].bucket
  OBVIOUS
<1>1. request[r].at = "incr" /\ c \in Buckets
  BY DEF IncrCount, LimiterInv, HeldBucket, LimiterPlaces
<1>2. /\ count \in [Buckets -> Nat] /\ blocked \in [Buckets -> BOOLEAN]
      /\ admitted \in [Buckets -> Nat]
  BY DEF LimiterInv, LimiterTypes
<1>3. CASE CountsWithin(c) /\ Goes(r, "begin")
  <2>1. /\ (\A s \in Requests : HeldBucket(request[s]))'
        /\ \A b : Again(b)' \subseteq Again(b) /\ r \notin Again(b)'
    BY <1>1, <1>3, LimiterMoves DEF LimiterPlaces
  <2>2. /\ count[c] \in 1 .. Limit - 1 /\ count' = [count EXCEPT ![c] = @ + 1]
        /\ admitted' = [admitted EXCEPT ![c] = @ + 1] /\ blocked' = blocked
    BY <1>3 DEF CountsWithin, LetThrough
  <2>3. LimiterTypes'
    BY <1>1, <1>2, <2>2 DEF LimiterTypes
  <2>4. BucketInv(c)'
    <3>1. count'[c] = count[c] + 1 /\ admitted'[c] = admitted[c] + 1
      BY <1>1, <1>2, <2>2
    <3>2. count[c] < Limit /\ count'[c] \in Nat \ {0}
      BY <2>2, <3>1, LimitAssumption
    <3> QED
      BY <1>1, <2>1, <3>1, <3>2, BucketAdmits
  <2>5. ASSUME NEW b \in Buckets, b # c
        PROVE  BucketInv(b)'
    <3>1. count'[b] = count[b] /\ admitted'[b] = admitted[b]
      BY <1>2, <2>2, <2>5
    <3> QED
      BY <2>1, <3>1, BucketKept
  <2> QED
    BY <2>1, <2>3, <2>4, <2>5 DEF LimiterInv
<1>4. CASE CountsOver(c) /\ Goes(r, "block")
  <2>1. /\ (\A s \in Requests : HeldBucket(request[s]))'
        /\ \A b : Again(b)' \subseteq Again(b) /\ r \notin Again(b)'
    BY <1>1, <1>4, LimiterMoves DEF LimiterPlaces
  <2>2. /\ count[c] >= Limit /\ count' = [count EXCEPT ![c] = @ + 1]
        /\ UNCHANGED <<blocked, admitted>>
    BY <1>4 DEF CountsOver
  <2>3. LimiterTypes'
    BY <1>1, <1>2, <2>2 DEF LimiterTypes
  <2>4. BucketInv(c)'
    <3> PICK N : N = Cardinality(Requests)
      OBVIOUS
    <3> PICK s : s = Cardinality(Again(c)')
      OBVIOUS
    <3> PICK t : t = Cardinality(Again(c))
      OBVIOUS
    <3>1. s <= t /\ s \in Nat /\ t \in Nat /\ N \in Nat
      <4> PICK S : S = Again(c)'
        OBVIOUS
      <4> PICK T : T = Again(c)
        OBVIOUS
      <4>1. S \in SUBSET T /\ T \in SUBSET Requests /\ S \in SUBSET Requests
        BY <2>1 DEF Again
      <4> QED
        BY <4>1, RequestSets
    <3>2. count'[c] = count[c] + 1 /\ count[c] \in Nat /\ admitted[c] \in Nat
      BY <1>1, <1>2, <2>2
    <3>3. Limit \in Nat /\ Limit >= 1
      BY LimitAssumption
    <3>4. admitted[c] + t <= Limit + N - 1
      BY <1>1, <2>2, <3>2, <3>3 DEF LimiterInv, BucketInv, Counted
    <3>5. Counted(c)' = Limit /\ count'[c] # 0
      BY <2>2, <3>2, <3>3 DEF Counted
    <3>6. admitted'[c] + s <= Counted(c)' + N - 1
      BY <2>2, <3>1, <3>2, <3>3, <3>4, <3>5
    <3> QED
      BY <3>5, <3>6 DEF BucketInv
  <2>5. ASSUME NEW b \in Buckets, b # c
        PROVE  BucketInv(b)'
    <3>1. count'[b] = count[b] /\ admitted'[b] = admitted[b]
      BY <1>2, <2>2, <2>5
    <3> QED
      BY <2>1, <3>1, BucketKept
  <2> QED
    BY <2>1, <2>3, <2>4, <2>5 DEF LimiterInv
<1>5. CASE LostCounter(c) /\ Goes(r, "again")
  <2>1. request[r] \in RequestRows /\ request \in [Requests -> RequestRows]
    BY DEF TypeInv
  <2>2. /\ \A s \in Requests \ {r} : request'[s] = request[s]
        /\ request'[r].at = "again" /\ request'[r].bucket = c
    BY <1>5, <2>1 DEF Goes, RequestRows
  <2>3. (\A s \in Requests : HeldBucket(request[s]))'
    BY <1>1, <2>2 DEF LimiterInv, HeldBucket
  <2>4. count[c] = 0 /\ count' = count /\ admitted' = admitted /\ blocked' = blocked
    BY <1>5 DEF LostCounter, limiterVars
  <2>5. ASSUME NEW b \in Buckets
        PROVE  BucketInv(b)'
    <3>1. count[b] # 0 => Again(b)' \subseteq Again(b)
      BY <2>2, <2>4 DEF Again
    <3> QED
      BY <2>4, <3>1, BucketKept
  <2>6. LimiterTypes'
    BY <1>2, <2>4 DEF LimiterTypes
  <2> QED
    BY <2>3, <2>5, <2>6 DEF LimiterInv
<1> QED
  BY <1>3, <1>4, <1>5 DEF IncrCount, Bucket

LEMMA AddAgainLimited ==
  ASSUME LimiterInv, TypeInv, NEW r \in Requests, AddAgain(r)
  PROVE  LimiterInv'
<1> PICK c : c = request[r].bucket
  OBVIOUS
<1>1. request[r].at = "again" /\ c \in Buckets /\ r \in Again(c)
  BY DEF AddAgain, LimiterInv, HeldBucket, LimiterPlaces, Again
<1>2. /\ (\A s \in Requests : HeldBucket(request[s]))'
      /\ \A b : Again(b)' \subseteq Again(b) /\ r \notin Again(b)'
  BY <1>1, LimiterMoves DEF AddAgain, LimiterPlaces
<1>3. /\ count \in [Buckets -> Nat] /\ blocked \in [Buckets -> BOOLEAN]
      /\ admitted \in [Buckets -> Nat]
  BY DEF LimiterInv, LimiterTypes
<1>4. /\ count' = [count EXCEPT ![c] = IF @ = 0 THEN 1 ELSE @]
      /\ admitted' = [admitted EXCEPT ![c] = @ + 1] /\ blocked' = blocked
  BY DEF AddAgain, StartsOver, LetThrough, Bucket
<1>5. LimiterTypes'
  BY <1>1, <1>3, <1>4 DEF LimiterTypes
<1>6. BucketInv(c)'
  <2>1. /\ count'[c] = IF count[c] = 0 THEN 1 ELSE count[c]
        /\ admitted'[c] = admitted[c] + 1 /\ count[c] \in Nat
    BY <1>1, <1>3, <1>4
  <2>2. count'[c] \in Nat \ {0} /\ (count[c] = 0 \/ count'[c] = count[c])
    BY <2>1
  <2> QED
    BY <1>1, <1>2, <2>1, <2>2, BucketAdmits
<1>7. ASSUME NEW b \in Buckets, b # c
      PROVE  BucketInv(b)'
  <2>1. count'[b] = count[b] /\ admitted'[b] = admitted[b]
    BY <1>3, <1>4, <1>7
  <2> QED
    BY <1>2, <2>1, BucketKept
<1> QED
  BY <1>2, <1>5, <1>6, <1>7 DEF LimiterInv

(* A bucket that is emptied, by a successful sign-in or by its timeout.    *)
LEMMA Emptied ==
  ASSUME LimiterInv, NEW c, count' = [count EXCEPT ![c] = 0],
         admitted' = [admitted EXCEPT ![c] = 0], \A b : Again(b)' \subseteq Again(b)
  PROVE  \A b \in Buckets : BucketInv(b)'
<1> TAKE b \in Buckets
<1>1. count \in [Buckets -> Nat] /\ admitted \in [Buckets -> Nat]
  BY DEF LimiterInv, LimiterTypes
<1>2. CASE b = c
  <2>1. count'[b] = 0 /\ admitted'[b] = 0
    BY <1>1, <1>2
  <2> QED
    BY <2>1, BucketCleared
<1>3. CASE b # c
  <2>1. count'[b] = count[b] /\ admitted'[b] = admitted[b]
    BY <1>1, <1>3
  <2> QED
    BY <2>1, BucketKept
<1> QED
  BY <1>2, <1>3

LEMMA ClearBucketLimited ==
  ASSUME LimiterInv, TypeInv, NEW r \in Requests, ClearBucket(r)
  PROVE  LimiterInv'
<1> PICK c : c = request[r].bucket
  OBVIOUS
<1>1. /\ \A s \in Requests \ {r} : request'[s] = request[s]
      /\ request'[r].at \notin LimiterPlaces
  BY GoesOutside DEF ClearBucket, LimiterPlaces
<1>2. (\A s \in Requests : HeldBucket(request[s]))' /\ \A b : Again(b)' \subseteq Again(b)
  BY <1>1 DEF LimiterInv, HeldBucket, Again, LimiterPlaces
<1>3. /\ count' = [count EXCEPT ![c] = 0] /\ blocked' = [blocked EXCEPT ![c] = FALSE]
      /\ admitted' = [admitted EXCEPT ![c] = 0]
  BY DEF ClearBucket, Clears, Bucket
<1>4. LimiterTypes'
  BY <1>3 DEF LimiterInv, LimiterTypes
<1>5. \A b \in Buckets : BucketInv(b)'
  BY <1>2, <1>3, Emptied
<1> QED
  BY <1>2, <1>4, <1>5 DEF LimiterInv

LEMMA TimeoutLimited ==
  ASSUME LimiterInv, NEW c \in Buckets, KeyTimesOut(c)
  PROVE  LimiterInv'
<1>1. request' = request
  BY DEF KeyTimesOut, accountVars
<1>2. (\A s \in Requests : HeldBucket(request[s]))' /\ \A b : Again(b)' \subseteq Again(b)
  BY <1>1 DEF LimiterInv, HeldBucket, Again
<1>3. CASE WindowEnds(c)
  <2>1. /\ count' = [count EXCEPT ![c] = 0] /\ blocked' = blocked
        /\ admitted' = [admitted EXCEPT ![c] = 0]
    BY <1>3 DEF WindowEnds
  <2>2. LimiterTypes'
    BY <2>1 DEF LimiterInv, LimiterTypes
  <2>3. \A b \in Buckets : BucketInv(b)'
    BY <1>2, <2>1, Emptied
  <2> QED
    BY <1>2, <2>2, <2>3 DEF LimiterInv
<1>4. CASE CooldownEnds(c)
  <2>1. count' = count /\ admitted' = admitted /\ blocked' = [blocked EXCEPT ![c] = FALSE]
    BY <1>4 DEF CooldownEnds
  <2>2. LimiterTypes'
    BY <2>1 DEF LimiterInv, LimiterTypes
  <2>3. \A b \in Buckets : BucketInv(b)'
    BY <1>2, <2>1, BucketKept
  <2> QED
    BY <1>2, <2>2, <2>3 DEF LimiterInv
<1> QED
  BY <1>3, <1>4 DEF KeyTimesOut

LEMMA LimiterInitially == Init => LimiterInv
<1> SUFFICES ASSUME Init
             PROVE  LimiterInv
  OBVIOUS
<1>1. LimiterTypes
  BY DEF Init, LimiterInit, LimiterTypes
<1>2. \A r \in Requests : HeldBucket(request[r])
  BY DEF Init, Idle, HeldBucket, LimiterPlaces
<1>3. \A b \in Buckets : BucketInv(b)
  BY DEF Init, LimiterInit, BucketInv
<1> QED
  BY <1>1, <1>2, <1>3 DEF LimiterInv

LEMMA LimiterNext ==
  ASSUME LimiterInv, AccountsInv, [Next]_vars
  PROVE  LimiterInv'
<1>0. TypeInv
  BY DEF AccountsInv
<1>1. ASSUME NEW r \in Requests, Step(r)
      PROVE  LimiterInv'
  <2>1. CASE \/ \E kind \in Kinds : Post(r, kind) \/ SignedIn(r, kind)
             \/ OpenLink(r) \/ OpenResetLink(r)
    BY <2>1, ArrivalsLimited
  <2>2. CASE GetBlock(r) \/ AddCount(r) \/ IncrCount(r) \/ AddAgain(r) \/ SetBlock(r)
    BY <1>0, <2>2, GetBlockLimited, AddCountLimited, IncrCountLimited, AddAgainLimited
  <2>3. CASE ClearBucket(r)
    BY <1>0, <2>3, ClearBucketLimited
  <2>4. CASE \/ RegisterForm(r) \/ RegisterInsert(r) \/ Resend(r)
             \/ Forget(r) \/ Issue(r) \/ Lookup(r) \/ Apply(r)
             \/ Authenticate(r) \/ OpenSession(r) \/ AddressForm(r) \/ SavePending(r)
             \/ MailReset(r) \/ SavePassword(r) \/ Rehash(r)
             \/ ListSessions(r) \/ Sweep(r) \/ Killed(r)
    BY <2>4, ViewsLimited
  <2> QED
    BY <1>1, <2>1, <2>2, <2>3, <2>4 DEF Step
<1>2. CASE \E k \in DOMAIN session : SignOut(k)
  BY <1>2, LimiterStays DEF SignOut
<1>3. CASE \E u \in Users, p \in Purposes : Expire(u, p)
  BY <1>3, LimiterStays DEF Expire
<1>4. CASE \E b \in Buckets : KeyTimesOut(b)
  BY <1>4, TimeoutLimited
<1>5. CASE UNCHANGED vars
  BY <1>5, LimiterStays DEF vars, accountVars
<1> QED
  BY <1>1, <1>2, <1>3, <1>4, <1>5 DEF Next

LEMMA LimiterInvariant == Spec => []LimiterInv
BY LimiterInitially, LimiterNext, AccountsInvariant, PTL DEF Spec

\* A window lets through its limit, and at most one more for every other
\* request that was between its add and its increment when the counter expired,
\* for any limit and any number of requests at a time (check,
\* ratelimit.py:64-84).
THEOREM WindowsAreBounded == Spec => []AdmissionsBounded
<1>1. LimiterInv => AdmissionsBounded
  <2> SUFFICES ASSUME LimiterInv, NEW b \in Buckets
               PROVE  admitted[b] <= Limit + Cardinality(Requests) - 1
    BY DEF AdmissionsBounded
  <2> PICK N : N = Cardinality(Requests)
    OBVIOUS
  <2> PICK t : t = Cardinality(Again(b))
    OBVIOUS
  <2>1. N \in Nat /\ N >= 1 /\ t \in Nat
    BY RequestSets DEF Again
  <2>2. BucketInv(b) /\ admitted[b] \in Nat /\ count[b] \in Nat
    BY DEF LimiterInv, LimiterTypes
  <2>3. Limit \in Nat /\ Counted(b) <= Limit /\ Counted(b) \in Nat
    BY <2>2, LimitAssumption DEF Counted
  <2>4. CASE count[b] = 0
    BY <2>1, <2>2, <2>3, <2>4 DEF BucketInv
  <2>5. CASE count[b] # 0
    <3>1. admitted[b] + t <= Counted(b) + N - 1
      BY <2>2, <2>5 DEF BucketInv
    <3> QED
      BY <2>1, <2>2, <2>3, <3>1
  <2> QED
    BY <2>4, <2>5
<1> QED
  BY <1>1, LimiterInvariant, PTL

\* Every table, every request and every cache key keeps its shape.
THEOREM TypeCorrect == Spec => []TypeOK
<1>1. AccountsInv /\ LimiterInv => TypeOK
  BY DEF AccountsInv, TypeInv, TableTypes, LimiterInv, LimiterTypes, TypeOK, RequestRows, SessionRows
<1> QED
  BY <1>1, AccountsInvariant, LimiterInvariant, PTL
=============================================================================
