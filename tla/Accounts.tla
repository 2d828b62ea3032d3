------------------------------- MODULE Accounts -------------------------------
(***************************************************************************)
(* Accounts: registration, the links that prove an address, signing in,    *)
(* changing the address or the password, resetting it, signing out         *)
(* everywhere (src/apps/accounts/views.py, models.py, services.py,         *)
(* forms.py), with the limiter in front of the views that have one.        *)
(*                                                                         *)
(* A view runs without a transaction of its own (ATOMIC_REQUESTS is off),  *)
(* so a request is a process that takes one step for each statement whose  *)
(* order matters: it reads the row of a user once, `row' below, and goes   *)
(* on with that copy while other requests write the table.                 *)
(*                                                                         *)
(* Fresh identifiers stand for what is random: a token, a session key, and *)
(* `password', the salted hash that a session and a reset link carry.      *)
(***************************************************************************)
EXTENDS RateLimiter, FiniteSets

CONSTANTS
    Users,          \* primary keys that a registration may be given
    Emails,         \* normalised addresses
    NoEmail,        \* the empty string of email_pending
    Home,           \* the address of each user that already has an account
    Requests,       \* the requests that run at the same time
    Plans,          \* how many requests of each kind a run may make
    Ids             \* the identifiers of tokens, passwords and sessions

Limited == {"register", "resend", "login", "forgot", "reset"}
Authed == {"address", "password", "everywhere"}
Kinds == Limited \cup Authed \cup {"verify"}
Purposes == {"verify_email", "change_email"}

(***************************************************************************)
(* The bucket of a request: its scope with the address it names, or with   *)
(* the user in the link; registration counts the client alone.  There is   *)
(* one client address.                                                     *)
(***************************************************************************)
AllBuckets ==
    ({"resend", "login", "forgot"} \X Emails) \cup ({"reset"} \X Users)
        \cup {<<"register", "client">>}

ASSUME AccountsAssumption ==
    /\ NoEmail \notin Emails
    /\ Ids \subseteq Nat \ {0} /\ 1 \in Ids
    /\ 0 \notin Users
    /\ IsFiniteSet(Requests) /\ Requests # {}
    /\ DOMAIN Home \subseteq Users
    /\ \A u \in DOMAIN Home : Home[u] \in Emails
    /\ \A u, v \in DOMAIN Home : Home[u] = Home[v] => u = v
    /\ Plans \subseteq [Kinds -> Nat]
    /\ Buckets = AllBuckets

VARIABLES
    account,        \* the rows of User
    token,          \* EmailVerificationToken: one row per user and purpose
    mailed,         \* the links that reached a mailbox
    proven,         \* <<user, address>>: a link sent there has been applied
    session,        \* the rows of Session that belong to a user
    request,        \* the requests that are running
    plan            \* the requests that may still come

accountVars == <<account, token, mailed, proven, session, request, plan>>
vars == <<limiterVars, accountVars>>

Nobody == [email |-> NoEmail, pending |-> NoEmail, verified |-> FALSE,
           password |-> 0, login |-> 0]
NoToken == [id |-> 0, to |-> NoEmail, expired |-> FALSE]
NoLink == [purpose |-> "none", id |-> 0, user |-> 0, to |-> NoEmail, row |-> Nobody]
Idle == [kind |-> "none", at |-> "idle", bucket |-> <<"none", "none">>,
         user |-> 0, row |-> Nobody, link |-> NoLink, email |-> NoEmail,
         record |-> NoToken, session |-> 0, listed |-> {}]

Registered == {u \in Users : account[u] # Nobody}
Taken(e) == \E u \in Registered : account[u].email = e
TakenFrom(u, e) == \E v \in Registered \ {u} : account[v].email = e
SessionsOf(u) == {k \in DOMAIN session : session[k].user = u}

(***************************************************************************)
(* The middleware accepts a session whose hash is that of the password.    *)
(***************************************************************************)
Accepted(k) == session[k].password = account[session[k].user].password

(***************************************************************************)
(* Identifiers are random; the model takes the least that nothing holds,   *)
(* and creates nothing more once every one of Ids is held: Ids is a bound. *)
(***************************************************************************)
Held ==
    {account[u].password : u \in Users} \cup {account[u].login : u \in Users}
        \cup {token[u][p].id : u \in Users, p \in Purposes}
        \cup {l.id : l \in mailed}
        \cup {l.row.password : l \in mailed} \cup {l.row.login : l \in mailed}
        \cup DOMAIN session \cup {session[k].password : k \in DOMAIN session}
        \cup UNION {{request[r].row.password, request[r].row.login,
                     request[r].record.id, request[r].link.id,
                     request[r].session} \cup request[r].listed
                       : r \in Requests}
FreshIds == {i \in Ids \ Held : \A j \in Ids \ Held : i <= j}

Init ==
    /\ LimiterInit
    /\ plan \in Plans
    /\ account = [u \in Users |->
         IF u \in DOMAIN Home
         THEN [Nobody EXCEPT !.email = Home[u], !.verified = TRUE,
                             !.password = 1, !.login = 1]
         ELSE Nobody]
    /\ token = [u \in Users |-> [p \in Purposes |-> NoToken]]
    /\ mailed = {}
    /\ proven = {<<u, Home[u]>> : u \in DOMAIN Home}
    /\ session = [k \in {} |-> Nobody]
    /\ request = [r \in Requests |-> Idle]

(***************************************************************************)
(* What a request does to its own record.                                  *)
(***************************************************************************)
At(r, kind, place) == request[r].kind = kind /\ request[r].at = place
Goes(r, place) == request' = [request EXCEPT ![r].at = place]
Ends(r) == request' = [request EXCEPT ![r] = Idle]

Arrives(r, new) ==
    /\ request[r] = Idle
    /\ plan[new.kind] > 0
    /\ plan' = [plan EXCEPT ![new.kind] = @ - 1]
    /\ request' = [request EXCEPT ![r] = new]
    /\ UNCHANGED <<limiterVars, account, token, mailed, proven, session>>

(***************************************************************************)
(* The requests a person can send.  A link is opened from the mailbox it   *)
(* reached; a signed-in view starts with a session that is accepted, and   *)
(* with the row its middleware loads.                                      *)
(***************************************************************************)
Post(r, kind) ==
    /\ kind \in {"register", "resend", "login", "forgot"}
    /\ \E e \in Emails :
         Arrives(r, [Idle EXCEPT !.kind = kind, !.at = "check", !.email = e,
                       !.bucket = IF kind = "register" THEN <<kind, "client">>
                                  ELSE <<kind, e>>])

OpenLink(r) ==
    \E l \in mailed :
        /\ l.purpose \in Purposes
        /\ Arrives(r, [Idle EXCEPT !.kind = "verify", !.at = "lookup", !.user = l.user,
                                   !.row = account[l.user], !.link = l])

(***************************************************************************)
(* The token of a reset link is a digest of the password, the last login   *)
(* and the address: the link is good while they are what they were.        *)
(***************************************************************************)
Seal(row) == [Nobody EXCEPT !.email = row.email, !.password = row.password,
                            !.login = row.login]

OpenResetLink(r) ==
    \E l \in mailed :
        /\ l.purpose = "reset"
        /\ l.row = Seal(account[l.user])
        /\ Arrives(r, [Idle EXCEPT !.kind = "reset", !.at = "check", !.user = l.user,
                                   !.row = account[l.user], !.link = l,
                                   !.bucket = <<"reset", l.user>>])

SignedIn(r, kind) ==
    /\ kind \in Authed
    /\ \E k \in DOMAIN session, e \in Emails :
        /\ Accepted(k)
        /\ Arrives(r, [Idle EXCEPT !.kind = kind,
                     !.at = CASE kind = "address" -> "form"
                              [] kind = "password" -> "save"
                              [] kind = "everywhere" -> "list",
                     !.user = session[k].user, !.row = account[session[k].user],
                     !.session = k,
                     !.email = IF kind = "address" THEN e ELSE NoEmail])

(***************************************************************************)
(* ratelimit.check, cache call by cache call.                              *)
(***************************************************************************)
Bucket(r) == request[r].bucket

GetBlock(r) ==
    /\ request[r].at = "check"
    /\ \/ SeesBlock(Bucket(r)) /\ Ends(r)
       \/ SeesNoBlock(Bucket(r)) /\ Goes(r, "add")
    /\ UNCHANGED <<account, token, mailed, proven, session, plan>>

AddCount(r) ==
    /\ request[r].at = "add"
    /\ \/ OpensWindow(Bucket(r)) /\ Goes(r, "begin")
       \/ FindsWindow(Bucket(r)) /\ Goes(r, "incr")
    /\ UNCHANGED <<account, token, mailed, proven, session, plan>>

IncrCount(r) ==
    /\ request[r].at = "incr"
    /\ \/ CountsWithin(Bucket(r)) /\ Goes(r, "begin")
       \/ CountsOver(Bucket(r)) /\ Goes(r, "block")
       \/ LostCounter(Bucket(r)) /\ Goes(r, "again")
    /\ UNCHANGED <<account, token, mailed, proven, session, plan>>

AddAgain(r) ==
    /\ request[r].at = "again"
    /\ StartsOver(Bucket(r))
    /\ Goes(r, "begin")
    /\ UNCHANGED <<account, token, mailed, proven, session, plan>>

SetBlock(r) ==
    /\ request[r].at = "block"
    /\ SetsBlock(Bucket(r))
    /\ Ends(r)
    /\ UNCHANGED <<account, token, mailed, proven, session, plan>>

(***************************************************************************)
(* Registration: a visit of the page, or a form that is not valid, ends    *)
(* here; the form reads whether the address is taken, and the insert is    *)
(* refused by the unique index if it is by then.                           *)
(***************************************************************************)
RegisterForm(r) ==
    /\ At(r, "register", "begin")
    /\ Ends(r) \/ (~Taken(request[r].email) /\ Goes(r, "insert"))
    /\ UNCHANGED <<limiterVars, account, token, mailed, proven, session, plan>>

RegisterInsert(r) ==
    /\ At(r, "register", "insert")
    /\ IF Taken(request[r].email)
       THEN Ends(r) /\ UNCHANGED account
       ELSE \E u \in Users \ Registered, id \in FreshIds :
              LET row == [Nobody EXCEPT !.email = request[r].email, !.password = id]
              IN  /\ account' = [account EXCEPT ![u] = row]
                  /\ request' = [request EXCEPT ![r].at = "forget", ![r].user = u,
                                                ![r].row = row]
    /\ UNCHANGED <<limiterVars, token, mailed, proven, session, plan>>

Resend(r) ==
    /\ At(r, "resend", "begin")
    /\ \/ \E u \in Registered :
            /\ account[u].email = request[r].email
            /\ ~account[u].verified
            /\ request' = [request EXCEPT ![r].at = "forget", ![r].user = u,
                                          ![r].row = account[u]]
       \/ /\ \A u \in Registered : account[u].email = request[r].email => account[u].verified
          /\ Ends(r)
    /\ UNCHANGED <<limiterVars, account, token, mailed, proven, session, plan>>

(***************************************************************************)
(* issue_verification_token: the unused tokens of the purpose go, then the *)
(* new one is created, which the unique constraint refuses if another      *)
(* request has created its own between the two; then the mail is sent from *)
(* a thread and may be lost.                                               *)
(***************************************************************************)
PurposeOf(r) == IF request[r].kind = "address" THEN "change_email" ELSE "verify_email"

Forget(r) ==
    /\ request[r].at = "forget"
    /\ token' = [token EXCEPT ![request[r].user][PurposeOf(r)] = NoToken]
    /\ Goes(r, "issue")
    /\ UNCHANGED <<limiterVars, account, mailed, proven, session, plan>>

AddressOf(r) ==
    IF request[r].kind = "address" THEN request[r].email ELSE request[r].row.email
TokenOf(r, id) ==
    [id |-> id, expired |-> FALSE,
     to |-> IF request[r].kind = "address" THEN request[r].email ELSE NoEmail]
LinkOf(r, id) ==
    [purpose |-> PurposeOf(r), id |-> id, user |-> request[r].user,
     to |-> AddressOf(r), row |-> Nobody]

Issue(r) ==
    LET u == request[r].user
        p == PurposeOf(r)
    IN  /\ request[r].at = "issue"
        /\ IF token[u][p] = NoToken
           THEN \E id \in FreshIds :
                  /\ token' = [token EXCEPT ![u][p] = TokenOf(r, id)]
                  /\ mailed' \in {mailed, mailed \cup {LinkOf(r, id)}}
           ELSE UNCHANGED <<token, mailed>>
        /\ Ends(r)
        /\ UNCHANGED <<limiterVars, account, proven, session, plan>>

(***************************************************************************)
(* verify_email: the token is looked up, then deleted, the user updated    *)
(* and the transaction committed.  The lookup takes no lock, so two        *)
(* requests may both find the token; the delete of the second finds no row *)
(* and it goes on.  An address taken meanwhile rolls everything back.      *)
(***************************************************************************)
Lookup(r) ==
    LET l == request[r].link
        found == token[l.user][l.purpose]
    IN  /\ At(r, "verify", "lookup")
        /\ IF found.id = l.id /\ ~found.expired
           THEN request' = [request EXCEPT ![r].at = "apply", ![r].record = found]
           ELSE Ends(r)
        /\ UNCHANGED <<limiterVars, account, token, mailed, proven, session, plan>>

Consumed(u, p, id) ==
    IF token[u][p].id = id THEN [token EXCEPT ![u][p] = NoToken] ELSE token
\* Mutant: the token is deleted before the transaction that applies it.
RolledBackTooLate(u, p, id) == Consumed(u, p, id)
RolledBack(u, p, id) == token

\* Mutant: the address that is pending now is confirmed, not the one of the link.
ConfirmedPending(u, record) ==
    [account[u] EXCEPT !.email = account[u].pending,
                       !.pending = NoEmail, !.verified = TRUE]
ConfirmedRow(u, record) ==
    [account[u] EXCEPT !.email = record.to, !.pending = NoEmail, !.verified = TRUE]

Apply(r) ==
    LET l == request[r].link
        u == l.user
        change == l.purpose = "change_email"
    IN  /\ At(r, "verify", "apply")
        /\ IF change /\ TakenFrom(u, request[r].record.to)
           THEN /\ token' = RolledBack(u, l.purpose, l.id)
                /\ UNCHANGED <<account, proven>>
           ELSE /\ account' = [account EXCEPT ![u] =
                     IF change THEN ConfirmedRow(u, request[r].record)
                     ELSE [@ EXCEPT !.verified = TRUE]]
                /\ token' = Consumed(u, l.purpose, l.id)
                /\ proven' = proven \cup {<<u, l.to>>}
        /\ Ends(r)
        /\ UNCHANGED <<limiterVars, mailed, session, plan>>

(***************************************************************************)
(* Signing in: the password is checked against the row, a row that is not  *)
(* verified gets a new link instead of a session, any other clears its     *)
(* bucket and opens a session with the hash it was checked against.        *)
(***************************************************************************)
\* Mutant: the gate for accounts that are not verified is missing.
MaySignInAnyway(row) == row # Nobody
MaySignIn(row) == row.verified

Authenticate(r) ==
    /\ At(r, "login", "begin")
    /\ \/ \E u \in Registered :
            /\ account[u].email = request[r].email
            /\ request' = [request EXCEPT
                 ![r].at = IF MaySignIn(account[u]) THEN "clear" ELSE "forget",
                 ![r].user = u, ![r].row = account[u]]
       \/ Ends(r)
    /\ UNCHANGED <<limiterVars, account, token, mailed, proven, session, plan>>

ClearBucket(r) ==
    /\ At(r, "login", "clear")
    /\ Clears(Bucket(r))
    /\ Goes(r, "open")
    /\ UNCHANGED <<account, token, mailed, proven, session, plan>>

Opened(k, u, password) ==
    [j \in DOMAIN session \cup {k} |->
       IF j = k THEN [user |-> u, password |-> password] ELSE session[j]]
Without(keys) == [k \in DOMAIN session \ keys |-> session[k]]

OpenSession(r) ==
    LET u == request[r].user
    IN  /\ At(r, "login", "open")
        /\ \E id \in FreshIds :
             /\ session' = Opened(id, u, request[r].row.password)
             /\ account' = [account EXCEPT ![u].login = id]
        /\ Ends(r)
        /\ UNCHANGED <<limiterVars, token, mailed, proven, plan>>

(***************************************************************************)
(* A request to change the address: the form reads whether the new one is  *)
(* taken, the row remembers it as pending, and a link is sent to it.       *)
(***************************************************************************)
AddressForm(r) ==
    /\ At(r, "address", "form")
    /\ IF request[r].email = request[r].row.email \/ Taken(request[r].email)
       THEN Ends(r)
       ELSE Goes(r, "pending")
    /\ UNCHANGED <<limiterVars, account, token, mailed, proven, session, plan>>

SavePending(r) ==
    /\ At(r, "address", "pending")
    /\ account' = [account EXCEPT ![request[r].user].pending = request[r].email]
    /\ Goes(r, "forget")
    /\ UNCHANGED <<limiterVars, token, mailed, proven, session, plan>>

(***************************************************************************)
(* A password reset mails its link, and a form that sets a password saves  *)
(* the whole row as the request read it, with the new password.            *)
(***************************************************************************)
MailReset(r) ==
    /\ At(r, "forgot", "begin")
    /\ \E sent \in SUBSET {u \in Registered : account[u].email = request[r].email} :
         mailed' = mailed \cup
            {[purpose |-> "reset", id |-> 0, user |-> u, to |-> account[u].email,
              row |-> Seal(account[u])] : u \in sent}
    /\ Ends(r)
    /\ UNCHANGED <<limiterVars, account, token, proven, session, plan>>

SavePassword(r) ==
    LET u == request[r].user
    IN  /\ At(r, "reset", "begin") \/ At(r, "password", "save")
        /\ IF TakenFrom(u, request[r].row.email)
           THEN Ends(r) /\ UNCHANGED account
           ELSE \E id \in FreshIds :
                  /\ account' = [account EXCEPT
                       ![u] = [request[r].row EXCEPT !.password = id]]
                  /\ request' = [request EXCEPT ![r].row.password = id,
                       ![r].at = IF request[r].kind = "reset" THEN "list" ELSE "rehash"]
        /\ UNCHANGED <<limiterVars, token, mailed, proven, session, plan>>

(***************************************************************************)
(* update_session_auth_hash: a new key, the new hash, the old key deleted. *)
(***************************************************************************)
Rehash(r) ==
    /\ At(r, "password", "rehash")
    /\ \E id \in FreshIds :
         session' = [k \in (DOMAIN session \ {request[r].session}) \cup {id} |->
                       IF k = id THEN [user |-> request[r].user,
                                       password |-> request[r].row.password]
                       ELSE session[k]]
    /\ Ends(r)
    /\ UNCHANGED <<limiterVars, account, token, mailed, proven, plan>>

(***************************************************************************)
(* Signing out everywhere, and the end of a reset: the sessions are listed *)
(* once and deleted one by one, the request's own last.                    *)
(***************************************************************************)
ListSessions(r) ==
    /\ request[r].kind \in {"everywhere", "reset"} /\ request[r].at = "list"
    /\ request' = [request EXCEPT ![r].at = "sweep",
         ![r].listed = SessionsOf(request[r].user) \ {request[r].session}]
    /\ UNCHANGED <<limiterVars, account, token, mailed, proven, session, plan>>

Sweep(r) ==
    /\ request[r].at = "sweep"
    /\ \/ \E k \in request[r].listed :
            /\ session' = Without({k})
            /\ request' = [request EXCEPT ![r].listed = @ \ {k}]
       \/ /\ request[r].listed = {}
          /\ session' = Without({request[r].session})
          /\ Ends(r)
    /\ UNCHANGED <<limiterVars, account, token, mailed, proven, plan>>

(***************************************************************************)
(* What happens by itself: a session ends, by its owner or its age, a      *)
(* token expires, a worker is stopped in the middle of a request, a cache  *)
(* key reaches its timeout.                                                *)
(***************************************************************************)
SignOut(k) ==
    /\ session' = Without({k})
    /\ UNCHANGED <<limiterVars, account, token, mailed, proven, request, plan>>

Expire(u, p) ==
    /\ token[u][p] # NoToken
    /\ ~token[u][p].expired
    /\ token' = [token EXCEPT ![u][p].expired = TRUE]
    /\ UNCHANGED <<limiterVars, account, mailed, proven, session, request, plan>>

Killed(r) ==
    /\ request[r] # Idle
    /\ Ends(r)
    /\ UNCHANGED <<limiterVars, account, token, mailed, proven, session, plan>>

KeyTimesOut(b) ==
    /\ WindowEnds(b) \/ CooldownEnds(b)
    /\ UNCHANGED accountVars

Step(r) ==
    \/ \E kind \in Kinds : Post(r, kind) \/ SignedIn(r, kind)
    \/ OpenLink(r) \/ OpenResetLink(r)
    \/ GetBlock(r) \/ AddCount(r) \/ IncrCount(r) \/ AddAgain(r) \/ SetBlock(r)
    \/ RegisterForm(r) \/ RegisterInsert(r) \/ Resend(r)
    \/ Forget(r) \/ Issue(r) \/ Lookup(r) \/ Apply(r)
    \/ Authenticate(r) \/ ClearBucket(r) \/ OpenSession(r)
    \/ AddressForm(r) \/ SavePending(r)
    \/ MailReset(r) \/ SavePassword(r) \/ Rehash(r)
    \/ ListSessions(r) \/ Sweep(r) \/ Killed(r)

Next ==
    \/ \E r \in Requests : Step(r)
    \/ \E k \in DOMAIN session : SignOut(k)
    \/ \E u \in Users, p \in Purposes : Expire(u, p)
    \/ \E b \in Buckets : KeyTimesOut(b)

Spec == Init /\ [][Next]_vars

-----------------------------------------------------------------------------
Rows == [email : Emails \cup {NoEmail}, pending : Emails \cup {NoEmail},
         verified : BOOLEAN, password : Ids \cup {0}, login : Ids \cup {0}]
TokenRows == [id : Ids \cup {0}, to : Emails \cup {NoEmail}, expired : BOOLEAN]
Links == [purpose : Purposes \cup {"reset"}, id : Ids \cup {0}, user : Users,
          to : Emails, row : Rows]
Places == {"idle", "check", "add", "incr", "again", "block", "begin", "insert",
           "forget", "issue", "lookup", "apply", "clear", "open", "form",
           "pending", "save", "rehash", "list", "sweep"}

(***************************************************************************)
(* The shapes of the tables and of the requests.                           *)
(***************************************************************************)
TypeOK ==
    /\ count \in [Buckets -> Nat]
    /\ blocked \in [Buckets -> BOOLEAN]
    /\ admitted \in [Buckets -> Nat]
    /\ account \in [Users -> Rows]
    /\ token \in [Users -> [Purposes -> TokenRows]]
    /\ mailed \subseteq Links
    /\ proven \subseteq Users \X Emails
    /\ DOMAIN session \subseteq Ids
    /\ \A k \in DOMAIN session : session[k] \in [user : Users, password : Ids]
    /\ \A r \in Requests :
         /\ request[r].kind \in Kinds \cup {"none"}
         /\ request[r].at \in Places
         /\ request[r].user \in Users \cup {0}
         /\ request[r].row \in Rows
         /\ request[r].link \in Links \cup {NoLink}
         /\ request[r].email \in Emails \cup {NoEmail}
         /\ request[r].record \in TokenRows
         /\ request[r].session \in Ids \cup {0}
         /\ request[r].listed \subseteq Ids

(***************************************************************************)
(* An address is marked verified only if a link sent to that very address  *)
(* has been opened, whatever rows and tokens the requests in between held: *)
(* several changes of address under way, a link that has been superseded,  *)
(* a form that saves a whole row it read long before                       *)
(* (verify_email, views.py:180-190).                                       *)
(***************************************************************************)
VerifiedMeansProven ==
    \A u \in Registered : account[u].verified => <<u, account[u].email>> \in proven

(***************************************************************************)
(* Nobody has a session who never proved an address                        *)
(* (LoginView.form_valid, views.py:226-238).                               *)
(***************************************************************************)
SignedInWasProven ==
    \A k \in DOMAIN session : \E e \in Emails : <<session[k].user, e>> \in proven

(***************************************************************************)
(* A window lets through its limit, and at most one more for every other   *)
(* request that was between its add and its increment when the counter     *)
(* expired (check, ratelimit.py:64-84).                                    *)
(***************************************************************************)
AdmissionsBounded ==
    \A b \in Buckets : admitted[b] <= Limit + Cardinality(Requests) - 1

(***************************************************************************)
(* A token goes away only because a new one is being issued in its place,  *)
(* or because what it was for has been done: a failed application does not *)
(* burn the link (views.py:169-173).                                       *)
(***************************************************************************)
Reissuing(u, p) ==
    \E r \in Requests : /\ request[r].at = "forget"
                        /\ request[r].user = u
                        /\ PurposeOf(r) = p
Done(u, p) ==
    /\ account'[u].verified
    /\ p = "change_email" => account'[u].email = token[u][p].to
Spent(u, p) == token[u][p] # NoToken /\ token'[u][p] = NoToken
SpentOnlyWhenDone ==
    [][\A u \in Users, p \in Purposes :
         Spent(u, p) => Reissuing(u, p) \/ Done(u, p)]_vars
=============================================================================
