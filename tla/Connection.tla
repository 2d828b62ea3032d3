------------------------------ MODULE Connection ------------------------------
(***************************************************************************)
(* The life of a socket: the transport of a page, which opens it, beats on *)
(* it and opens another when it closes (frontend realtime/transport.ts),   *)
(* and the consumer at its other end, which authorizes it, counts it       *)
(* against the cap of its user, joins it to the group of the board and     *)
(* closes it when the membership has ended (apps/whiteboard/consumers.py,  *)
(* realtime_signals.py).  What travels on an open socket, operations and   *)
(* their answers, is in module Realtime.                                   *)
(*                                                                         *)
(* A consumer handles one event at a time and awaits in the middle of      *)
(* connect, so each of its steps up to the next await is an action; events *)
(* that arrive meanwhile wait in `inbox'.  An exception in a step ends the *)
(* consumer without its disconnect.                                        *)
(***************************************************************************)
EXTENDS Integers, Sequences, FiniteSets

CONSTANTS
    Pages,          \* the open pages of the board
    OwnerOf,        \* whose each page is
    Conns,          \* the sockets that may exist at the same time
    NoConn,
    MaxConnections, \* MAX_CONNECTIONS_PER_USER
    MaxAttempts,    \* reconnectMaxAttempts
    Scenes          \* what the behaviours are about, see below

ASSUME ConnectionAssumption ==
    /\ IsFiniteSet(Conns)
    /\ NoConn \notin Conns
    /\ MaxConnections \in Nat \ {0}
    /\ MaxAttempts \in Nat
    /\ Scenes \subseteq [pages : SUBSET Pages, faults : Nat,
                          ends : BOOLEAN, archives : BOOLEAN]

(***************************************************************************)
(* A behaviour has one scene: the pages that connect, how many steps raise *)
(* or restarts happen, and whether the partnership may end and the board   *)
(* be archived meanwhile.                                                  *)
(***************************************************************************)

Owners == {OwnerOf[p] : p \in Pages}

VARIABLES
    client,         \* the transport of each page
    conn,           \* each socket, with the consumer at its other end
    count,          \* _user_connection_counts of the worker
    ended,          \* the membership has ended, and that is committed
    notify,         \* the broadcast that follows the commit is still to come
    archived,       \* the board is archived
    leaked,         \* slots held by consumers that an exception has ended
    refunded,       \* users whose refused connections have released a slot
    faults,
    scene

vars == <<client, conn, count, ended, notify, archived, leaked, refunded, faults, scene>>
board == <<ended, notify, archived, scene>>
slots == <<count, leaked, refunded>>

Free == [page |-> "none", at |-> "free", up |-> FALSE, holds |-> FALSE,
         inbox |-> {}, outbox |-> <<>>]
NewClient == [state |-> "connecting", attempt |-> 0, timer |-> FALSE,
              manual |-> FALSE, beating |-> FALSE, waiting |-> FALSE,
              sock |-> "none", conn |-> NoConn]

Init ==
    /\ scene \in Scenes
    /\ client = [p \in Pages |-> [NewClient EXCEPT !.timer = p \in scene.pages,
                                                  !.manual = p \notin scene.pages]]
    /\ conn = [c \in Conns |-> Free]
    /\ count = [u \in Owners |-> 0]
    /\ leaked = [u \in Owners |-> 0]
    /\ ended = FALSE
    /\ notify = FALSE
    /\ archived = FALSE
    /\ refunded = {}
    /\ faults = 0

UserOf(c) == OwnerOf[conn[c].page]
InGroup(c) == conn[c].at = "serving"

-----------------------------------------------------------------------------
(***************************************************************************)
(* The transport of a page.  `timer' is its reconnect timer; a page that   *)
(* has not called connect yet has it set as well.                          *)
(***************************************************************************)
Exhausted(t) == t.attempt >= MaxAttempts

Scheduled(t) ==
    IF t.manual THEN t
    ELSE IF Exhausted(t) THEN [t EXCEPT !.state = "closed"]
    ELSE [t EXCEPT !.attempt = @ + 1, !.state = "reconnecting", !.timer = TRUE]

\* Mutant: the beat of the closed socket goes on.
StopWaiting(t) == [t EXCEPT !.waiting = FALSE]
StopHeartbeat(t) == [t EXCEPT !.beating = FALSE, !.waiting = FALSE]
NoSocket(t) == [t EXCEPT !.sock = "none", !.conn = NoConn]

(***************************************************************************)
(* Sockets are alike: a new one is any that is free.                       *)
(***************************************************************************)
FreeConns == {c \in Conns : conn[c] = Free}
AnyFree == CHOOSE c \in FreeConns : TRUE

(***************************************************************************)
(* _openSocket: a new socket, or an exception of its constructor.          *)
(***************************************************************************)
OpenSocket(p) ==
    LET t == [client[p] EXCEPT
                !.timer = FALSE,
                !.state = IF @ = "connecting" THEN @ ELSE "reconnecting"]
    IN  /\ client[p].timer
        /\ \/ /\ FreeConns # {}
              /\ client' = [client EXCEPT ![p] =
                               [t EXCEPT !.sock = "connecting", !.conn = AnyFree]]
              /\ conn' = [conn EXCEPT ![AnyFree] =
                               [Free EXCEPT !.page = p, !.at = "opening", !.up = TRUE]]
           \/ client' = [client EXCEPT ![p] = Scheduled(t)] /\ UNCHANGED conn
        /\ UNCHANGED <<slots, board, faults>>

(***************************************************************************)
(* The server has accepted: onopen.                                        *)
(***************************************************************************)
OnOpen(p) ==
    LET c == client[p].conn
    IN  /\ client[p].sock = "connecting"
        /\ conn[c].up
        /\ conn[c].at \notin {"free", "opening"}
        /\ client' = [client EXCEPT ![p].sock = "open", ![p].attempt = 0,
                                    ![p].state = "open", ![p].beating = TRUE,
                                    ![p].waiting = FALSE]
        /\ UNCHANGED <<conn, slots, board, faults>>

(***************************************************************************)
(* The socket has closed, by the server, by the page or by the network.    *)
(***************************************************************************)
OnClose(p) ==
    LET c == client[p].conn
    IN  /\ client[p].sock # "none"
        /\ ~conn[c].up
        /\ client' = [client EXCEPT ![p] = Scheduled(NoSocket(StopHeartbeat(client[p])))]
        /\ UNCHANGED <<conn, slots, board, faults>>

(***************************************************************************)
(* WebSocketTransport.close: the page is done with the socket; the handler *)
(* of its close finds manuallyClosed.                                      *)
(***************************************************************************)
Closed(t) ==
    [NoSocket(StopHeartbeat(t)) EXCEPT !.manual = TRUE, !.timer = FALSE,
                                       !.state = "closed"]

Hung(c) == [conn[c] EXCEPT !.up = FALSE, !.outbox = <<>>]

(***************************************************************************)
(* A frame arrives: the answer to a ping and the greeting show the server  *)
(* is alive, an error that ends access closes for good, any other error    *)
(* is only shown, and the close of the server closes the socket.           *)
(***************************************************************************)
Fatal == {"AUTH_REQUIRED", "FORBIDDEN", "WHITEBOARD_NOT_FOUND"}

OnMessage(p) ==
    LET c == client[p].conn
        frame == Head(conn[c].outbox)
    IN  /\ client[p].sock = "open"
        /\ conn[c].outbox # <<>>
        /\ IF frame \in Fatal
           THEN /\ client' = [client EXCEPT ![p] = Closed(@)]
                /\ conn' = [conn EXCEPT ![c] = Hung(c)]
           ELSE IF frame = "close"
           THEN /\ conn' = [conn EXCEPT ![c] = Hung(c)]
                /\ client' = [client EXCEPT ![p].sock = "closing"]
           ELSE /\ client' = [client EXCEPT ![p].waiting = FALSE]
                /\ conn' = [conn EXCEPT ![c].outbox = Tail(@)]
        /\ UNCHANGED <<slots, board, faults>>

(***************************************************************************)
(* A beat: a ping; or, when nothing has come for the pong timeout, the     *)
(* socket is closed and its close handler is left to reconnect.  A ping    *)
(* that is sent before the last one is answered asks nothing new.          *)
(***************************************************************************)
Ping(p) ==
    LET c == client[p].conn
    IN  /\ client[p].beating
        /\ ~client[p].waiting
        /\ client[p].sock = "open"
        /\ client' = [client EXCEPT ![p].waiting = TRUE]
        /\ conn' = [conn EXCEPT ![c].inbox = IF conn[c].up THEN @ \cup {"ping"} ELSE @]
        /\ UNCHANGED <<slots, board, faults>>

\* Mutant: the timeout schedules a reconnect although the close will.
AbandonedTwice(t) == [Scheduled(t) EXCEPT !.sock = "closing"]
Abandoned(t) == [t EXCEPT !.sock = "closing"]

PongTimeout(p) ==
    LET c == client[p].conn
    IN  /\ client[p].beating
        /\ client[p].waiting
        /\ client[p].sock = "open"
        /\ client' = [client EXCEPT ![p] = Abandoned(@)]
        /\ conn' = [conn EXCEPT ![c] = Hung(c)]
        /\ UNCHANGED <<slots, board, faults>>

(***************************************************************************)
(* The page is left: teardown closes the transport.                        *)
(***************************************************************************)
Leave(p) ==
    LET c == client[p].conn
    IN  /\ ~client[p].manual
        /\ client' = [client EXCEPT ![p] = Closed(@)]
        /\ conn' = IF c = NoConn THEN conn ELSE [conn EXCEPT ![c] = Hung(c)]
        /\ UNCHANGED <<slots, board, faults>>

(***************************************************************************)
(* The network, or a server that refuses the handshake, breaks the socket; *)
(* each end finds out in its own time.                                     *)
(***************************************************************************)
Break(c) ==
    /\ conn[c].up
    /\ conn' = [conn EXCEPT ![c] = Hung(c)]
    /\ UNCHANGED <<client, slots, board, faults>>

-----------------------------------------------------------------------------
(***************************************************************************)
(* The consumer.  What it sends is lost when the socket is broken.         *)
(***************************************************************************)
Sends(k, frames) == [k EXCEPT !.outbox = IF k.up THEN @ \o frames ELSE @]
Refuses(k, code) == [Sends(k, <<code, "close">>) EXCEPT !.at = "closing"]
Serves(c, k) == conn' = [conn EXCEPT ![c] = k]

Accept(c) ==
    /\ conn[c].at = "opening"
    /\ Serves(c, [conn[c] EXCEPT !.at = "accepted"])
    /\ UNCHANGED <<client, slots, board, faults>>

(***************************************************************************)
(* A handshake that reaches no server, or that it refuses before accepting *)
(* (an origin that is not allowed, a host without websockets).             *)
(***************************************************************************)
Reject(c) ==
    /\ conn[c].at = "opening"
    /\ Serves(c, [Hung(c) EXCEPT !.at = "gone"])
    /\ UNCHANGED <<client, slots, board, faults>>

(***************************************************************************)
(* _authorize: the membership is read first.                               *)
(***************************************************************************)
Authorize(c) ==
    /\ conn[c].at = "accepted"
    /\ Serves(c, IF ended THEN Refuses(conn[c], "FORBIDDEN")
                 ELSE [conn[c] EXCEPT !.at = "authorized"])
    /\ UNCHANGED <<client, slots, board, faults>>

(***************************************************************************)
(* Then whether the board is archived; with that answer self.user is set   *)
(* and a slot is asked for, without another await.                         *)
(***************************************************************************)
\* Mutant: the cap is compared one too late.
RoomForOneMore(n) == n <= MaxConnections
Room(n) == n < MaxConnections

Reserve(c) ==
    LET u == UserOf(c)
    IN  /\ conn[c].at = "authorized"
        /\ IF archived
           THEN Serves(c, Refuses(conn[c], "WHITEBOARD_ARCHIVED")) /\ UNCHANGED count
           ELSE IF Room(count[u])
           THEN /\ count' = [count EXCEPT ![u] = @ + 1]
                /\ Serves(c, [conn[c] EXCEPT !.at = "reserved", !.holds = TRUE])
           ELSE /\ Serves(c, [Refuses(conn[c], "RATE_LIMITED") EXCEPT !.at = "refused"])
                /\ UNCHANGED count
        /\ UNCHANGED <<client, leaked, refunded, board, faults>>

(***************************************************************************)
(* group_add, and the greeting: what is awaited in between changes nothing *)
(* that is modelled here.                                                  *)
(***************************************************************************)
Join(c) ==
    /\ conn[c].at = "reserved"
    /\ Serves(c, [Sends(conn[c], <<"connection.ready">>) EXCEPT !.at = "serving"])
    /\ UNCHANGED <<client, slots, board, faults>>

(***************************************************************************)
(* A message of the page or of the group: the membership is read again,    *)
(* the copy of the board is the one that was loaded when connecting.       *)
(***************************************************************************)
\* Mutant: only the broadcast makes a connection look again.
AuthorizedUntilTold(message) == ended => message # "reauthorize"
StillAuthorized(message) == ~ended

Handle(c) ==
    /\ conn[c].at = "serving"
    /\ \E message \in conn[c].inbox :
         LET k == [conn[c] EXCEPT !.inbox = @ \ {message}]
         IN  Serves(c, IF ~StillAuthorized(message) THEN Refuses(k, "FORBIDDEN")
                       ELSE IF message = "ping" THEN Sends(k, <<"pong">>)
                       ELSE k)
    /\ UNCHANGED <<client, slots, board, faults>>

(***************************************************************************)
(* disconnect: whoever has a user gives a slot back.                       *)
(***************************************************************************)
HasUser(k) == k.holds \/ k.at = "refused"

\* Mutant: only a connection that was being served gives its slot back.
ReleasedIfServed(u, c) ==
    IF count[u] = 0 \/ conn[c].at # "serving" THEN count ELSE [count EXCEPT ![u] = @ - 1]
Released(u, c) ==
    IF count[u] = 0 THEN count ELSE [count EXCEPT ![u] = @ - 1]

Disconnect(c) ==
    /\ \/ conn[c].at = "serving" /\ ~conn[c].up
       \/ conn[c].at \in {"closing", "refused"}
    /\ IF HasUser(conn[c])
       THEN /\ count' = Released(UserOf(c), c)
            /\ refunded' = IF conn[c].holds THEN refunded ELSE refunded \cup {UserOf(c)}
       ELSE UNCHANGED <<count, refunded>>
    /\ Serves(c, [conn[c] EXCEPT !.at = "gone", !.holds = FALSE, !.inbox = {},
                                 !.up = @ /\ conn[c].outbox # <<>>])
    /\ UNCHANGED <<client, leaked, board, faults>>

(***************************************************************************)
(* A step raises: the layer or the database is away.  The consumer is      *)
(* gone, its disconnect is not called, its slot is not given back.         *)
(***************************************************************************)
Raise(c) ==
    /\ faults < scene.faults
    /\ faults' = faults + 1
    /\ conn[c].at \in {"accepted", "authorized", "reserved", "serving"}
    /\ leaked' = IF conn[c].holds THEN [leaked EXCEPT ![UserOf(c)] = @ + 1] ELSE leaked
    /\ Serves(c, [Hung(c) EXCEPT !.at = "gone", !.holds = FALSE, !.inbox = {}])
    /\ UNCHANGED <<client, count, refunded, board>>

(***************************************************************************)
(* The worker restarts: its counts and its consumers are gone.             *)
(***************************************************************************)
Restart ==
    /\ faults < scene.faults
    /\ faults' = faults + 1
    /\ count' = [u \in Owners |-> 0]
    /\ leaked' = [u \in Owners |-> 0]
    /\ refunded' = {}
    /\ notify' = FALSE
    /\ conn' = [c \in Conns |->
         IF conn[c].at = "free" THEN conn[c]
         ELSE [Hung(c) EXCEPT !.at = "gone", !.holds = FALSE, !.inbox = {}]]
    /\ UNCHANGED <<client, ended, archived, scene>>

(***************************************************************************)
(* Both ends have forgotten the socket.                                    *)
(***************************************************************************)
Forget(c) ==
    /\ conn[c].at = "gone"
    /\ \A p \in Pages : client[p].conn # c
    /\ conn' = [conn EXCEPT ![c] = Free]
    /\ UNCHANGED <<client, slots, board, faults>>

-----------------------------------------------------------------------------
(***************************************************************************)
(* The partnership ends: the commit, and after it a message to everyone    *)
(* who is in the group by then, which the layer may lose.                  *)
(***************************************************************************)
End ==
    /\ scene.ends
    /\ ~ended
    /\ ended' = TRUE
    /\ notify' = TRUE
    /\ UNCHANGED <<client, conn, slots, archived, faults, scene>>

RequestReauthorization ==
    /\ notify
    /\ notify' = FALSE
    /\ \E reached \in SUBSET {c \in Conns : InGroup(c)} :
         conn' = [c \in Conns |->
            IF c \in reached THEN [conn[c] EXCEPT !.inbox = @ \cup {"reauthorize"}]
            ELSE conn[c]]
    /\ UNCHANGED <<client, slots, ended, archived, faults, scene>>

(***************************************************************************)
(* A member archives the board or takes it back; no message follows.       *)
(***************************************************************************)
Archive ==
    /\ scene.archives
    /\ archived' = ~archived
    /\ UNCHANGED <<client, conn, slots, ended, notify, faults, scene>>

ClientStep(p) ==
    \/ OpenSocket(p) \/ OnOpen(p) \/ OnClose(p) \/ OnMessage(p)
    \/ Ping(p) \/ PongTimeout(p)

ServerStep(c) ==
    \/ Accept(c) \/ Authorize(c) \/ Reserve(c) \/ Join(c)
    \/ Handle(c) \/ Disconnect(c)

Next ==
    \/ \E p \in Pages : ClientStep(p) \/ Leave(p)
    \/ \E c \in Conns : ServerStep(c) \/ Reject(c) \/ Break(c) \/ Raise(c) \/ Forget(c)
    \/ Restart \/ End \/ RequestReauthorization \/ Archive

(***************************************************************************)
(* The event loop of the server goes on with every consumer, the browser   *)
(* with its timers and events; nothing obliges a page to leave, the        *)
(* network to break or a broadcast to arrive.                              *)
(***************************************************************************)
Fairness ==
    /\ \A p \in Pages : /\ WF_vars(OnOpen(p)) /\ WF_vars(OnClose(p))
                        /\ WF_vars(OnMessage(p)) /\ WF_vars(Ping(p))
    /\ \A c \in Conns : WF_vars(ServerStep(c))

Spec == Init /\ [][Next]_vars
FairSpec == Spec /\ Fairness

-----------------------------------------------------------------------------
Frames == Fatal \cup {"WHITEBOARD_ARCHIVED", "RATE_LIMITED", "close",
                      "connection.ready", "pong"}
Served == {"accepted", "authorized", "reserved", "serving",
           "closing", "refused"}

(***************************************************************************)
(* The shapes of transports and sockets.                                   *)
(***************************************************************************)
TypeOK ==
    /\ \A p \in Pages :
         /\ client[p].state \in {"connecting", "reconnecting", "open", "closed"}
         /\ client[p].attempt \in 0 .. MaxAttempts
         /\ client[p].sock \in {"none", "connecting", "open", "closing"}
         /\ client[p].conn \in Conns \cup {NoConn}
         /\ (client[p].sock = "none") = (client[p].conn = NoConn)
    /\ \A c \in Conns :
         /\ conn[c].at \in Served \cup {"free", "opening", "gone"}
         /\ conn[c].inbox \subseteq {"ping", "reauthorize"}
         /\ conn[c].outbox \in Seq(Frames)
         /\ conn[c].holds => conn[c].at \in Served
    /\ count \in [Owners -> Nat]
    /\ leaked \in [Owners -> 0 .. scene.faults]

Holders(u) == {c \in Conns : conn[c].holds /\ UserOf(c) = u}

(***************************************************************************)
(* The count never says more than there are connections, so nobody is kept *)
(* out by connections that are gone, but for those an exception has ended  *)
(* (connect and disconnect, consumers.py:138-187).                         *)
(***************************************************************************)
NobodyLockedOut ==
    \A u \in Owners : count[u] <= Cardinality(Holders(u)) + leaked[u]

(***************************************************************************)
(* Nobody has more connections than the cap, as long as no connection that *)
(* was refused a slot has given one back (consumers.py:182, 496-501).      *)
(***************************************************************************)
CapUnlessRefunded ==
    \A u \in Owners : u \in refunded \/ Cardinality(Holders(u)) <= MaxConnections

(***************************************************************************)
(* A page has one way to be connected again, and never two: a socket whose *)
(* close handler is still to run, or a timer, or it has given up after its *)
(* last attempt, or it was told to close (transport.ts:116-204).           *)
(***************************************************************************)
GaveUp(t) == t.state = "closed" /\ t.attempt = MaxAttempts
OneWayBack ==
    \A p \in Pages :
        LET t == client[p]
        IN  IF t.manual THEN ~t.timer /\ t.sock = "none"
            ELSE IF t.timer THEN t.sock = "none"
            ELSE t.sock # "none" \/ GaveUp(t)

(***************************************************************************)
(* The state a page shows as open belongs to a socket that did open, and   *)
(* only then does it beat: a close cannot leave the beat of an old socket  *)
(* behind (transport.ts:127-139, 163-181).                                 *)
(***************************************************************************)
BeatsWhileOpen ==
    \A p \in Pages :
        LET t == client[p]
        IN  /\ t.beating = (t.state = "open")
            /\ t.beating => t.sock \in {"open", "closing"}

(***************************************************************************)
(* Once the membership has ended, everyone leaves the group for good, even *)
(* a connection that joined after the broadcast, or one it did not reach   *)
(* (whiteboard_reauthorize and receive, consumers.py:238-261).             *)
(***************************************************************************)
RevokedLeaves == ended ~> [](\A c \in Conns : ~InGroup(c))
=============================================================================
