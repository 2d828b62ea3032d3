-------------------------- MODULE Connection_proofs --------------------------
(***************************************************************************)
(* Proofs about Connection, for any pages, owners, sockets, caps, attempts *)
(* and scenes.                                                             *)
(***************************************************************************)
EXTENDS Connection, FiniteSetTheorems, TLAPS

ClientType ==
    [state : {"connecting", "reconnecting", "open", "closed"},
     attempt : 0 .. MaxAttempts, timer : BOOLEAN, manual : BOOLEAN,
     beating : BOOLEAN, waiting : BOOLEAN,
     sock : {"none", "connecting", "open", "closing"},
     conn : Conns \cup {NoConn}]

ConnType ==
    [page : Pages \cup {"none"}, at : Served \cup {"free", "opening", "gone"},
     up : BOOLEAN, holds : BOOLEAN, inbox : SUBSET {"ping", "reauthorize"},
     outbox : Seq(Frames)]

\* What holds of a page's transport: it has a socket exactly while it knows
\* one, one way to be connected again, and beats while it is open.
WayBack(t) ==
    IF t.manual THEN ~t.timer /\ t.sock = "none"
    ELSE IF t.timer THEN t.sock = "none"
    ELSE t.sock # "none" \/ GaveUp(t)

Beats(t) ==
    /\ t.beating = (t.state = "open")
    /\ t.beating => t.sock \in {"open", "closing"}

SoundClient(t) ==
    /\ t \in ClientType
    /\ (t.sock = "none") = (t.conn = NoConn)
    /\ WayBack(t)
    /\ Beats(t)
    /\ t.sock = "open" => t.beating

\* What holds of a socket: one that is not free is some page's, and a slot is
\* held by a consumer between its reservation and its disconnect.
Holding == {"reserved", "serving", "closing"}

SoundConn(k) ==
    /\ k \in ConnType
    /\ k.at # "free" => k.page \in Pages
    /\ k.holds => k.at \in Holding

TypeInv ==
    /\ client \in [Pages -> ClientType]
    /\ \A p \in Pages : SoundClient(client[p])
    /\ conn \in [Conns -> ConnType]
    /\ \A c \in Conns : SoundConn(conn[c])
    /\ count \in [Owners -> Nat]
    /\ leaked \in [Owners -> Nat]
    /\ \A u \in Owners : leaked[u] <= faults
    /\ scene \in Scenes
    /\ faults \in Nat /\ faults <= scene.faults

\* The scene's number of faults is a number.
LEMMA SceneFaults == ASSUME scene \in Scenes PROVE scene.faults \in Nat
BY ConnectionAssumption

\* A transport that is left without a socket and is to be connected again
\* has its timer set or has given up.
LEMMA ScheduledSound ==
    ASSUME NEW t \in ClientType, ~t.manual, t.sock = "none", t.conn = NoConn,
           ~t.beating
    PROVE SoundClient(Scheduled(t))
<1>1. CASE Exhausted(t)
  <2>1. t.attempt = MaxAttempts
    BY <1>1, ConnectionAssumption DEF ClientType, Exhausted
  <2> QED
    BY <1>1, <2>1 DEF Scheduled, ClientType, SoundClient, WayBack, Beats, GaveUp
<1>2. CASE ~Exhausted(t)
  <2>1. t.attempt + 1 \in 0 .. MaxAttempts
    BY <1>2, ConnectionAssumption DEF ClientType, Exhausted
  <2> QED
    BY <1>2, <2>1 DEF Scheduled, ClientType, SoundClient, WayBack, Beats
<1> QED
  BY <1>1, <1>2

\* A transport that was told to close is sound.
LEMMA ClosedSound ==
    ASSUME NEW t \in ClientType
    PROVE SoundClient(Closed(t))
BY DEF Closed, NoSocket, StopHeartbeat, ClientType, SoundClient, WayBack, Beats

\* A broken socket keeps its page, its consumer and its slot.
LEMMA HungType ==
    ASSUME NEW c \in Conns, conn \in [Conns -> ConnType]
    PROVE /\ Hung(c) \in ConnType
          /\ Hung(c).page = conn[c].page /\ Hung(c).at = conn[c].at
          /\ Hung(c).holds = conn[c].holds
<1>1. conn[c] \in ConnType /\ <<>> \in Seq(Frames)
  OBVIOUS
<1> QED
  BY <1>1 DEF Hung, ConnType

\* Sending changes nothing but what is on the way to the page.
LEMMA SendsType ==
    ASSUME NEW k \in ConnType, NEW frames \in Seq(Frames)
    PROVE /\ Sends(k, frames) \in ConnType
          /\ Sends(k, frames).page = k.page /\ Sends(k, frames).at = k.at
          /\ Sends(k, frames).holds = k.holds
<1>1. k.outbox \in Seq(Frames) /\ k.outbox \o frames \in Seq(Frames)
  BY DEF ConnType
<1> QED
  BY <1>1 DEF Sends, ConnType

\* Refusing changes besides only where the consumer is.
LEMMA RefusesType ==
    ASSUME NEW k \in ConnType, NEW code \in Frames
    PROVE /\ Refuses(k, code) \in ConnType
          /\ Refuses(k, code).page = k.page /\ Refuses(k, code).at = "closing"
          /\ Refuses(k, code).holds = k.holds
<1>1. <<code, "close">> \in Seq(Frames)
  BY DEF Frames
<1>2. Sends(k, <<code, "close">>) \in ConnType
      /\ Sends(k, <<code, "close">>).page = k.page
      /\ Sends(k, <<code, "close">>).holds = k.holds
  BY <1>1, SendsType
<1> QED
  BY <1>2 DEF Refuses, ConnType, Served, Holding

\* A free socket is taken.
LEMMA FreeType == Free \in ConnType
BY DEF Free, ConnType

\* A step of one transport keeps all of them sound.
LEMMA ClientStepSound ==
    ASSUME TypeInv, NEW p \in Pages, NEW t, SoundClient(t),
           client' = [client EXCEPT ![p] = t]
    PROVE client' \in [Pages -> ClientType] /\ \A q \in Pages : SoundClient(client'[q])
BY DEF TypeInv, SoundClient

\* A step of one socket keeps all of them sound.
LEMMA ConnStepSound ==
    ASSUME TypeInv, NEW c \in Conns, NEW k, SoundConn(k),
           conn' = [conn EXCEPT ![c] = k]
    PROVE conn' \in [Conns -> ConnType] /\ \A d \in Conns : SoundConn(conn'[d])
BY DEF TypeInv, SoundConn

\* The initial states have the types.
LEMMA TypesInit == Init => TypeInv
<1> SUFFICES ASSUME Init PROVE TypeInv
  OBVIOUS
<1>1. ASSUME NEW p \in Pages PROVE client[p] \in ClientType /\ SoundClient(client[p])
  <2>1. 0 \in 0 .. MaxAttempts
    BY ConnectionAssumption
  <2>2. CASE p \in scene.pages
    <3>1. client[p] = [NewClient EXCEPT !.timer = TRUE, !.manual = FALSE]
      BY <2>2 DEF Init
    <3> QED
      BY <2>1, <3>1 DEF NewClient, ClientType, SoundClient, WayBack, Beats
  <2>3. CASE p \notin scene.pages
    <3>1. client[p] = [NewClient EXCEPT !.timer = FALSE, !.manual = TRUE]
      <4>1. (p \in scene.pages) = FALSE /\ (p \notin scene.pages) = TRUE
        BY <2>3
      <4> QED
        BY <4>1, Zenon DEF Init
    <3> QED
      BY <2>1, <3>1 DEF NewClient, ClientType, SoundClient, WayBack, Beats
  <2> QED
    BY <2>2, <2>3
<1>2. client \in [Pages -> ClientType]
  BY <1>1 DEF Init
<1>3. conn \in [Conns -> ConnType] /\ \A c \in Conns : SoundConn(conn[c])
  BY FreeType DEF Init, SoundConn, Free
<1>4. scene \in Scenes /\ faults = 0 /\ scene.faults \in Nat
  BY SceneFaults DEF Init
<1>5. count \in [Owners -> Nat] /\ leaked \in [Owners -> Nat]
      /\ \A u \in Owners : leaked[u] <= faults
  <2>1. count = [u \in Owners |-> 0] /\ leaked = [u \in Owners |-> 0]
    BY Zenon DEF Init
  <2> QED
    BY <1>4, <2>1
<1> QED
  BY <1>1, <1>2, <1>3, <1>4, <1>5 DEF TypeInv

\* Every step keeps them.
LEMMA TypesStep == TypeInv /\ [Next]_vars => TypeInv'
<1> SUFFICES ASSUME TypeInv, [Next]_vars PROVE TypeInv'
  OBVIOUS
<1>types. /\ \A p \in Pages : client[p] \in ClientType /\ SoundClient(client[p])
          /\ \A c \in Conns : conn[c] \in ConnType /\ SoundConn(conn[c])
          /\ client \in [Pages -> ClientType] /\ conn \in [Conns -> ConnType]
          /\ scene.faults \in Nat
  BY SceneFaults DEF TypeInv
<1> DEFINE Rest == /\ count' \in [Owners -> Nat] /\ leaked' \in [Owners -> Nat]
                   /\ \A u \in Owners : leaked'[u] <= faults'
                   /\ faults' \in Nat /\ faults' <= scene.faults /\ scene' = scene
<1> DEFINE Clients == client' \in [Pages -> ClientType] /\ \A q \in Pages : SoundClient(client'[q])
<1> DEFINE Sockets == conn' \in [Conns -> ConnType] /\ \A d \in Conns : SoundConn(conn'[d])
<1>all. ASSUME Clients, Sockets, Rest PROVE TypeInv'
  BY <1>all DEF TypeInv, SoundClient, SoundConn, WayBack, Beats, GaveUp
<1>rest. ASSUME UNCHANGED <<count, leaked, faults, scene>> PROVE Rest
  BY <1>rest DEF TypeInv
<1>client. ASSUME UNCHANGED client PROVE Clients
  BY <1>client, <1>types
<1>conn. ASSUME UNCHANGED conn PROVE Sockets
  BY <1>conn, <1>types
<1> HIDE DEF Rest, Clients, Sockets
<1>1. ASSUME NEW p \in Pages, OpenSocket(p) PROVE TypeInv'
  <2>1. Rest
    BY <1>1, <1>rest DEF OpenSocket, slots, board
  <2> DEFINE t == [client[p] EXCEPT
                     !.timer = FALSE,
                     !.state = IF @ = "connecting" THEN @ ELSE "reconnecting"]
  <2>2. /\ t \in ClientType /\ t.sock = "none" /\ t.conn = NoConn
        /\ ~t.manual /\ ~t.timer /\ ~t.beating /\ t.state # "open"
    BY <1>1, <1>types, ZenonT(30) DEF OpenSocket, SoundClient, WayBack, Beats, ClientType
  <2> HIDE DEF t
  <2>3. CASE FreeConns # {} /\ client' = [client EXCEPT ![p] =
                [t EXCEPT !.sock = "connecting", !.conn = AnyFree]]
             /\ conn' = [conn EXCEPT ![AnyFree] =
                [Free EXCEPT !.page = p, !.at = "opening", !.up = TRUE]]
    <3>1. AnyFree \in Conns /\ AnyFree # NoConn
      BY <2>3, ConnectionAssumption DEF AnyFree, FreeConns
    <3>2. SoundClient([t EXCEPT !.sock = "connecting", !.conn = AnyFree])
      BY <2>2, <3>1 DEF SoundClient, WayBack, Beats, ClientType
    <3>3. SoundConn([Free EXCEPT !.page = p, !.at = "opening", !.up = TRUE])
      BY FreeType DEF SoundConn, Free, ConnType
    <3> QED
      BY <2>1, <2>3, <3>1, <3>2, <3>3, ClientStepSound, ConnStepSound, <1>all
         DEF Clients, Sockets
  <2>4. CASE client' = [client EXCEPT ![p] = Scheduled(t)] /\ UNCHANGED conn
    BY <2>1, <2>2, <2>4, ScheduledSound, ClientStepSound, <1>conn, <1>all DEF Clients
  <2> QED
    BY <1>1, <2>3, <2>4 DEF OpenSocket, t
<1>2. ASSUME NEW p \in Pages, OnOpen(p) PROVE TypeInv'
  <2> DEFINE t == [client[p] EXCEPT !.sock = "open", !.attempt = 0, !.state = "open",
                                    !.beating = TRUE, !.waiting = FALSE]
  <2>1. client' = [client EXCEPT ![p] = t] /\ UNCHANGED conn
    BY <1>2, <1>types DEF OnOpen, ClientType
  <2>2. SoundClient(t)
    <3>1. 0 \in 0 .. MaxAttempts
      BY ConnectionAssumption
    <3> QED
      BY <1>2, <1>types, <3>1 DEF OnOpen, SoundClient, WayBack, Beats, ClientType
  <2> HIDE DEF t
  <2>3. Rest
    BY <1>2, <1>rest DEF OnOpen, slots, board
  <2> QED
    BY <2>1, <2>2, <2>3, ClientStepSound, <1>conn, <1>all DEF Clients
<1>3. ASSUME NEW p \in Pages, OnClose(p) PROVE TypeInv'
  <2> DEFINE t == NoSocket(StopHeartbeat(client[p]))
  <2>1. /\ t \in ClientType /\ ~t.manual /\ t.sock = "none" /\ t.conn = NoConn
        /\ ~t.beating
    BY <1>3, <1>types
       DEF OnClose, NoSocket, StopHeartbeat, SoundClient, WayBack, ClientType
  <2>2. client' = [client EXCEPT ![p] = Scheduled(t)] /\ UNCHANGED conn
    BY <1>3 DEF OnClose
  <2> HIDE DEF t
  <2>3. Rest
    BY <1>3, <1>rest DEF OnClose, slots, board
  <2> QED
    BY <2>1, <2>2, <2>3, ScheduledSound, ClientStepSound, <1>conn, <1>all DEF Clients
<1>hung. ASSUME NEW c \in Conns PROVE SoundConn(Hung(c)) /\ Hung(c).holds = conn[c].holds
  BY <1>types, HungType DEF SoundConn
<1>4. ASSUME NEW p \in Pages, OnMessage(p) PROVE TypeInv'
  <2> DEFINE c == client[p].conn
             frame == Head(conn[c].outbox)
  <2>1. c \in Conns /\ client[p].sock = "open" /\ ~client[p].manual
    BY <1>4, <1>types DEF OnMessage, SoundClient, WayBack, ClientType
  <2>2. Rest
    BY <1>4, <1>rest DEF OnMessage, slots, board
  <2>3. CASE frame \in Fatal
    <3>1. /\ client' = [client EXCEPT ![p] = Closed(client[p])]
          /\ conn' = [conn EXCEPT ![c] = Hung(c)]
      BY <1>4, <2>3, <1>types DEF OnMessage
    <3> QED
      BY <2>1, <2>2, <3>1, <1>types, <1>hung, ClosedSound, ClientStepSound, ConnStepSound,
         <1>all DEF Clients, Sockets
  <2>4. CASE frame \notin Fatal /\ frame = "close"
    <3> DEFINE t == [client[p] EXCEPT !.sock = "closing"]
    <3>1. SoundClient(t)
      BY <2>1, <1>types DEF SoundClient, WayBack, Beats, ClientType
    <3>2. client' = [client EXCEPT ![p] = t] /\ conn' = [conn EXCEPT ![c] = Hung(c)]
      BY <1>4, <2>4, <1>types DEF OnMessage, ClientType
    <3> HIDE DEF t
    <3> QED
      BY <2>1, <2>2, <3>1, <3>2, <1>hung, ClientStepSound, ConnStepSound, <1>all
         DEF Clients, Sockets
  <2>5. CASE frame \notin Fatal /\ frame # "close"
    <3> DEFINE t == [client[p] EXCEPT !.waiting = FALSE]
               k == [conn[c] EXCEPT !.outbox = Tail(@)]
    <3>1. SoundClient(t)
      BY <2>1, <1>types DEF SoundClient, WayBack, Beats, GaveUp, ClientType
    <3>2. SoundConn(k)
      <4>1. conn[c].outbox \in Seq(Frames) /\ conn[c].outbox # <<>>
        BY <1>4, <2>1, <1>types DEF OnMessage, ConnType
      <4>2. Tail(conn[c].outbox) \in Seq(Frames)
        BY <4>1
      <4>3. SoundConn(conn[c]) /\ conn[c] \in ConnType
        BY <2>1, <1>types
      <4>4. ASSUME NEW o \in Seq(Frames) PROVE SoundConn([conn[c] EXCEPT !.outbox = o])
        BY <4>3 DEF SoundConn, ConnType
      <4> QED
        BY <4>2, <4>4
    <3>3. client' = [client EXCEPT ![p] = t] /\ conn' = [conn EXCEPT ![c] = k]
      BY <1>4, <2>5, <1>types DEF OnMessage, ClientType, ConnType
    <3> HIDE DEF t, k
    <3> QED
      BY <2>1, <2>2, <3>1, <3>2, <3>3, ClientStepSound, ConnStepSound, <1>all
         DEF Clients, Sockets
  <2> QED
    BY <2>3, <2>4, <2>5
<1>5. ASSUME NEW p \in Pages, Ping(p) PROVE TypeInv'
  <2> DEFINE c == client[p].conn
             t == [client[p] EXCEPT !.waiting = TRUE]
             k == [conn[c] EXCEPT !.inbox = IF conn[c].up THEN @ \cup {"ping"} ELSE @]
  <2>1. c \in Conns /\ client[p].sock = "open"
    BY <1>5, <1>types DEF Ping, SoundClient, ClientType
  <2>2. SoundClient(t)
    BY <2>1, <1>types DEF SoundClient, WayBack, Beats, GaveUp, ClientType
  <2>3. SoundConn(k)
    BY <2>1, <1>types DEF SoundConn, ConnType
  <2>4. client' = [client EXCEPT ![p] = t] /\ conn' = [conn EXCEPT ![c] = k]
    BY <1>5, <1>types DEF Ping, ClientType, ConnType
  <2>5. Rest
    BY <1>5, <1>rest DEF Ping, slots, board
  <2> HIDE DEF t, k
  <2> QED
    BY <2>1, <2>2, <2>3, <2>4, <2>5, ClientStepSound, ConnStepSound, <1>all
       DEF Clients, Sockets
<1>6. ASSUME NEW p \in Pages, PongTimeout(p) PROVE TypeInv'
  <2> DEFINE c == client[p].conn
             t == [client[p] EXCEPT !.sock = "closing"]
  <2>1. c \in Conns /\ client[p].sock = "open"
    BY <1>6, <1>types DEF PongTimeout, SoundClient, ClientType
  <2>2. SoundClient(t)
    BY <2>1, <1>types DEF SoundClient, WayBack, Beats, GaveUp, ClientType
  <2>3. client' = [client EXCEPT ![p] = t] /\ conn' = [conn EXCEPT ![c] = Hung(c)]
    BY <1>6, <1>types DEF PongTimeout, Abandoned
  <2>4. Rest
    BY <1>6, <1>rest DEF PongTimeout, slots, board
  <2> HIDE DEF t
  <2> QED
    BY <2>1, <2>2, <2>3, <2>4, <1>hung, ClientStepSound, ConnStepSound, <1>all
       DEF Clients, Sockets
<1>7. ASSUME NEW p \in Pages, Leave(p) PROVE TypeInv'
  <2>1. client' = [client EXCEPT ![p] = Closed(client[p])]
    BY <1>7, <1>types DEF Leave
  <2>2. Clients
    BY <2>1, <1>types, ClosedSound, ClientStepSound DEF Clients
  <2>3. Rest
    BY <1>7, <1>rest DEF Leave, slots, board
  <2>4. CASE client[p].conn = NoConn
    BY <1>7, <2>2, <2>3, <2>4, <1>conn, <1>all DEF Leave
  <2>5. CASE client[p].conn # NoConn
    <3>1. client[p].conn \in Conns
      BY <2>5, <1>types DEF ClientType
    <3>2. conn' = [conn EXCEPT ![client[p].conn] = Hung(client[p].conn)]
      BY <1>7, <2>5 DEF Leave
    <3> QED
      BY <2>2, <2>3, <3>1, <3>2, <1>hung, ConnStepSound, <1>all DEF Sockets
  <2> QED
    BY <2>4, <2>5
<1>8. ASSUME NEW c \in Conns, NEW k, SoundConn(k), Rest, UNCHANGED client,
             conn' = [conn EXCEPT ![c] = k]
      PROVE TypeInv'
  BY <1>8, ConnStepSound, <1>client, <1>all DEF Sockets
<1>9. ASSUME NEW c \in Conns, Break(c) PROVE TypeInv'
  BY <1>9, <1>8, <1>hung, <1>rest DEF Break, slots, board
<1>10. ASSUME NEW c \in Conns, Accept(c) PROVE TypeInv'
  <2>1. SoundConn([conn[c] EXCEPT !.at = "accepted"])
    BY <1>10, <1>types, SMTT(30) DEF Accept, SoundConn, ConnType, Served, Holding
  <2> QED
    BY <1>10, <2>1, <1>8, <1>rest DEF Accept, Serves, slots, board
<1>11. ASSUME NEW c \in Conns, Reject(c) PROVE TypeInv'
  <2>1. SoundConn([Hung(c) EXCEPT !.at = "gone"])
    <3>1. Hung(c).at = "opening" /\ Hung(c) \in ConnType /\ SoundConn(Hung(c))
      BY <1>11, <1>types, <1>hung, HungType DEF Reject
    <3> QED
      BY <3>1 DEF SoundConn, ConnType, Served, Holding
  <2> QED
    BY <1>11, <2>1, <1>8, <1>rest DEF Reject, Serves, slots, board
<1>refuses. ASSUME NEW c \in Conns, NEW code \in Frames, conn[c].at # "free"
            PROVE SoundConn(Refuses(conn[c], code))
  BY <1>refuses, <1>types, RefusesType DEF SoundConn, Served, Holding
<1>12. ASSUME NEW c \in Conns, Authorize(c) PROVE TypeInv'
  <2>1. SoundConn([conn[c] EXCEPT !.at = "authorized"])
    BY <1>12, <1>types, ZenonT(30) DEF Authorize, SoundConn, ConnType, Served, Holding
  <2>2. SoundConn(Refuses(conn[c], "FORBIDDEN"))
    BY <1>12, <1>refuses DEF Authorize, Frames, Fatal
  <2> QED
    BY <1>12, <2>1, <2>2, <1>8, <1>rest DEF Authorize, Serves, slots, board
<1>owner. ASSUME NEW c \in Conns, conn[c].at # "free" PROVE UserOf(c) \in Owners
  BY <1>owner, <1>types DEF SoundConn, UserOf, Owners
<1>13. ASSUME NEW c \in Conns, Reserve(c) PROVE TypeInv'
  <2>1. conn[c].at = "authorized" /\ UserOf(c) \in Owners /\ UNCHANGED <<client, leaked, faults, scene>>
    BY <1>13, <1>owner DEF Reserve, board
  <2>2. CASE archived
    <3>1. conn' = [conn EXCEPT ![c] = Refuses(conn[c], "WHITEBOARD_ARCHIVED")] /\ UNCHANGED count
      BY <1>13, <2>2 DEF Reserve, Serves
    <3>2. SoundConn(Refuses(conn[c], "WHITEBOARD_ARCHIVED"))
      BY <2>1, <1>refuses DEF Frames
    <3> QED
      BY <2>1, <3>1, <3>2, <1>8, <1>rest
  <2>3. CASE ~archived /\ Room(count[UserOf(c)])
    <3>1. /\ conn' = [conn EXCEPT ![c] = [conn[c] EXCEPT !.at = "reserved", !.holds = TRUE]]
          /\ count' = [count EXCEPT ![UserOf(c)] = @ + 1]
      BY <1>13, <2>3 DEF Reserve, Serves
    <3>2. SoundConn([conn[c] EXCEPT !.at = "reserved", !.holds = TRUE])
      BY <2>1, <1>types, ZenonT(30) DEF SoundConn, ConnType, Served, Holding
    <3>3. Rest
      BY <2>1, <3>1 DEF Rest, TypeInv
    <3> QED
      BY <2>1, <3>1, <3>2, <3>3, <1>8
  <2>4. CASE ~archived /\ ~Room(count[UserOf(c)])
    <3> DEFINE r == Refuses(conn[c], "RATE_LIMITED")
    <3>1. conn' = [conn EXCEPT ![c] = [r EXCEPT !.at = "refused"]] /\ UNCHANGED count
      BY <1>13, <2>4 DEF Reserve, Serves
    <3>2. SoundConn(r)
      BY <2>1, <1>refuses DEF Frames
    <3>3. r.page = conn[c].page /\ r.holds = conn[c].holds
      BY <1>types, RefusesType DEF Frames
    <3> HIDE DEF r
    <3>4. SoundConn([r EXCEPT !.at = "refused"])
      BY <2>1, <3>2, <3>3, <1>types DEF SoundConn, ConnType, Served, Holding
    <3> QED
      BY <2>1, <3>1, <3>4, <1>8, <1>rest
  <2> QED
    BY <2>2, <2>3, <2>4
<1>14. ASSUME NEW c \in Conns, Join(c) PROVE TypeInv'
  <2> DEFINE k == Sends(conn[c], <<"connection.ready">>)
  <2>1. k \in ConnType /\ k.page = conn[c].page /\ k.holds = conn[c].holds
    <3>1. <<"connection.ready">> \in Seq(Frames)
      BY DEF Frames
    <3> QED
      BY <3>1, <1>types, SendsType
  <2>2. conn' = [conn EXCEPT ![c] = [k EXCEPT !.at = "serving"]]
    BY <1>14 DEF Join, Serves
  <2> HIDE DEF k
  <2>3. SoundConn([k EXCEPT !.at = "serving"])
    BY <1>14, <2>1, <1>types DEF Join, SoundConn, ConnType, Served, Holding
  <2> QED
    BY <1>14, <2>2, <2>3, <1>8, <1>rest DEF Join, slots, board
<1>15. ASSUME NEW c \in Conns, Handle(c) PROVE TypeInv'
  <2>1. PICK message \in conn[c].inbox :
          LET k == [conn[c] EXCEPT !.inbox = @ \ {message}]
          IN  Serves(c, IF ~StillAuthorized(message) THEN Refuses(k, "FORBIDDEN")
                        ELSE IF message = "ping" THEN Sends(k, <<"pong">>)
                        ELSE k)
    BY <1>15 DEF Handle
  <2> DEFINE k == [conn[c] EXCEPT !.inbox = @ \ {message}]
  <2>2. SoundConn(k) /\ k \in ConnType /\ k.at = "serving"
    BY <1>15, <1>types DEF Handle, SoundConn, ConnType
  <2>3. \/ conn' = [conn EXCEPT ![c] = Refuses(k, "FORBIDDEN")]
        \/ conn' = [conn EXCEPT ![c] = Sends(k, <<"pong">>)]
        \/ conn' = [conn EXCEPT ![c] = k]
    BY <2>1 DEF Serves
  <2> HIDE DEF k
  <2>4. SoundConn(Refuses(k, "FORBIDDEN"))
    BY <2>2, RefusesType DEF SoundConn, Served, Holding, Frames, Fatal
  <2>5. SoundConn(Sends(k, <<"pong">>))
    <3>1. <<"pong">> \in Seq(Frames)
      BY DEF Frames
    <3> QED
      BY <2>2, <3>1, SendsType DEF SoundConn, Served, Holding
  <2>6. Rest /\ UNCHANGED client
    BY <1>15, <1>rest DEF Handle, slots, board
  <2> QED
    BY <2>2, <2>3, <2>4, <2>5, <2>6, <1>8
<1>gone. ASSUME NEW c \in Conns, conn[c].at # "free"
         PROVE /\ SoundConn([Hung(c) EXCEPT !.at = "gone", !.holds = FALSE, !.inbox = {}])
               /\ SoundConn([conn[c] EXCEPT !.at = "gone", !.holds = FALSE, !.inbox = {},
                                            !.up = @ /\ conn[c].outbox # <<>>])
  <2>1. Hung(c) \in ConnType /\ Hung(c).page \in Pages
    BY <1>gone, <1>types, HungType DEF SoundConn
  <2>2. ASSUME NEW b \in BOOLEAN
        PROVE SoundConn([conn[c] EXCEPT !.at = "gone", !.holds = FALSE, !.inbox = {}, !.up = b])
    BY <1>gone, <1>types DEF SoundConn, ConnType
  <2> QED
    BY <2>1, <2>2 DEF SoundConn, ConnType
<1>16. ASSUME NEW c \in Conns, Disconnect(c) PROVE TypeInv'
  <2>1. /\ conn[c].at \in {"serving", "closing", "refused"} /\ UserOf(c) \in Owners
        /\ UNCHANGED <<client, leaked, faults, scene>>
    BY <1>16, <1>owner DEF Disconnect, board
  <2>2. count' \in [Owners -> Nat]
    <3>1. CASE count[UserOf(c)] = 0 \/ ~HasUser(conn[c])
      BY <1>16, <3>1 DEF Disconnect, Released, TypeInv
    <3>2. CASE count[UserOf(c)] # 0 /\ HasUser(conn[c])
      BY <1>16, <2>1, <3>2 DEF Disconnect, Released, TypeInv
    <3> QED
      BY <3>1, <3>2
  <2>3. Rest
    BY <2>1, <2>2 DEF Rest, TypeInv
  <2> QED
    BY <1>16, <2>1, <2>3, <1>gone, <1>8 DEF Disconnect, Serves
<1>17. ASSUME NEW c \in Conns, Raise(c) PROVE TypeInv'
  <2>1. conn[c].at # "free" /\ UserOf(c) \in Owners /\ UNCHANGED <<client, count, scene>>
    BY <1>17, <1>owner DEF Raise, board
  <2>2. faults' = faults + 1 /\ faults < scene.faults
    BY <1>17 DEF Raise
  <2>3. leaked' = leaked \/ leaked' = [leaked EXCEPT ![UserOf(c)] = @ + 1]
    BY <1>17 DEF Raise
  <2>4. leaked' \in [Owners -> Nat] /\ \A u \in Owners : leaked'[u] <= faults'
    BY <2>1, <2>2, <2>3 DEF TypeInv
  <2>5. Rest
    BY <2>1, <2>2, <2>4, <1>types DEF Rest, TypeInv
  <2> QED
    BY <1>17, <2>1, <2>5, <1>gone, <1>8 DEF Raise, Serves
<1>18. ASSUME Restart PROVE TypeInv'
  <2>1. Sockets
    <3>1. ASSUME NEW c \in Conns PROVE conn'[c] \in ConnType /\ SoundConn(conn'[c])
      <4>1. CASE conn[c].at = "free"
        BY <1>18, <4>1, <1>types DEF Restart
      <4>2. CASE conn[c].at # "free"
        BY <1>18, <4>2, <1>gone DEF Restart, SoundConn
      <4> QED
        BY <4>1, <4>2
    <3> QED
      BY <1>18, <3>1, Zenon DEF Restart, Sockets
  <2>2. Rest
    <3>1. faults \in Nat /\ faults < scene.faults /\ faults' = faults + 1 /\ scene' = scene
      BY <1>18 DEF Restart, TypeInv
    <3>2. count' = [u \in Owners |-> 0] /\ leaked' = [u \in Owners |-> 0]
      BY <1>18, Zenon DEF Restart
    <3> QED
      BY <3>1, <3>2, <1>types DEF Rest
  <2> QED
    BY <1>18, <2>1, <2>2, <1>client, <1>all DEF Restart
<1>19. ASSUME NEW c \in Conns, Forget(c) PROVE TypeInv'
  <2>1. SoundConn(Free)
    BY FreeType DEF SoundConn, Free
  <2> QED
    BY <1>19, <2>1, <1>8, <1>rest DEF Forget, slots, board
<1>20. ASSUME End \/ Archive \/ UNCHANGED vars PROVE TypeInv'
  BY <1>20, <1>client, <1>conn, <1>rest, <1>all DEF End, Archive, vars, slots
<1>21. ASSUME RequestReauthorization PROVE TypeInv'
  <2>1. PICK reached \in SUBSET {c \in Conns : InGroup(c)} :
          conn' = [c \in Conns |->
            IF c \in reached THEN [conn[c] EXCEPT !.inbox = @ \cup {"reauthorize"}]
            ELSE conn[c]]
    BY <1>21 DEF RequestReauthorization
  <2>2. ASSUME NEW c \in Conns PROVE conn'[c] \in ConnType /\ SoundConn(conn'[c])
    <3>1. SoundConn([conn[c] EXCEPT !.inbox = @ \cup {"reauthorize"}])
      BY <1>types, ZenonT(30) DEF SoundConn, ConnType
    <3> QED
      BY <2>1, <3>1, <1>types DEF SoundConn
  <2>3. Sockets
    BY <2>1, <2>2, Zenon DEF Sockets
  <2> QED
    BY <1>21, <2>3, <1>client, <1>rest, <1>all DEF RequestReauthorization, slots
<1> QED
  BY <1>1, <1>2, <1>3, <1>4, <1>5, <1>6, <1>7, <1>9, <1>10, <1>11, <1>12, <1>13, <1>14,
     <1>15, <1>16, <1>17, <1>18, <1>19, <1>20, <1>21 DEF Next, ClientStep, ServerStep

\* Transports and sockets are sound (transport.ts, consumers.py) in every
\* reachable state.
THEOREM TypesHold == Spec => []TypeInv
<1> QED
  BY TypesInit, TypesStep, PTL DEF Spec

\* Transports and sockets keep their shapes.
THEOREM ShapesHold == Spec => []TypeOK
<1>1. TypeInv => TypeOK
  <2>1. ASSUME TypeInv, NEW u \in Owners PROVE leaked[u] \in 0 .. scene.faults
    BY <2>1, SceneFaults DEF TypeInv
  <2> QED
    BY <2>1 DEF TypeInv, TypeOK, SoundClient, SoundConn, Holding, Served,
                 ClientType, ConnType
<1> QED
  BY <1>1, TypesHold, PTL

\* A page has one way to be connected again (transport.ts:116-204).
THEOREM OneWayBackHolds == Spec => []OneWayBack
<1>1. TypeInv => OneWayBack
  BY DEF TypeInv, SoundClient, WayBack, OneWayBack
<1> QED
  BY <1>1, TypesHold, PTL

\* No beat outlives the socket it was started for (transport.ts:163-181).
THEOREM BeatsWhileOpenHolds == Spec => []BeatsWhileOpen
<1>1. TypeInv => BeatsWhileOpen
  BY DEF TypeInv, SoundClient, Beats, BeatsWhileOpen
<1> QED
  BY <1>1, TypesHold, PTL

-----------------------------------------------------------------------------
\* The count of a user is what holders and leaks account for, exactly so
\* until a refused connection has given back a slot it did not have.
SlotsFit ==
    \A u \in Owners :
        /\ count[u] <= Cardinality(Holders(u)) + leaked[u]
        /\ u \notin refunded => count[u] = Cardinality(Holders(u)) + leaked[u]
        /\ count[u] <= MaxConnections

\* The holders of a user's slots can be counted.
LEMMA HoldersFinite ==
    ASSUME NEW u
    PROVE IsFiniteSet(Holders(u)) /\ Cardinality(Holders(u)) \in Nat
<1>1. Holders(u) \subseteq Conns
  BY DEF Holders
<1> QED
  BY <1>1, FS_Subset, FS_CardinalityType, ConnectionAssumption

\* The same sockets hold slots for the same users.
SameHolders ==
    \A c \in Conns : /\ conn'[c].holds = conn[c].holds
                     /\ conn[c].holds => conn'[c].page = conn[c].page

\* A step that moves no slot keeps the account.
LEMMA SlotsKept ==
    ASSUME SlotsFit, SameHolders, UNCHANGED slots
    PROVE SlotsFit'
<1>1. ASSUME NEW u \in Owners PROVE Holders(u)' = Holders(u)
  BY DEF SameHolders, Holders, UserOf
<1> QED
  BY <1>1 DEF SlotsFit, slots

\* A socket of a user's that comes to hold a slot is one holder more.
LEMMA HolderJoins ==
    ASSUME TypeInv, NEW c \in Conns, ~conn[c].holds, NEW k,
           k.holds, k.page = conn[c].page, conn' = [conn EXCEPT ![c] = k], NEW u
    PROVE /\ u = UserOf(c) => Cardinality(Holders(u)') = Cardinality(Holders(u)) + 1
          /\ u # UserOf(c) => Holders(u)' = Holders(u)
<1>1. CASE u = UserOf(c)
  <2>1. Holders(u)' = Holders(u) \cup {c} /\ c \notin Holders(u)
    BY <1>1 DEF TypeInv, Holders, UserOf
  <2> QED
    BY <1>1, <2>1, HoldersFinite, FS_AddElement
<1>2. CASE u # UserOf(c)
  BY <1>2 DEF TypeInv, Holders, UserOf
<1> QED
  BY <1>1, <1>2

\* One that held a slot and does no longer is one holder less.
LEMMA HolderLeaves ==
    ASSUME TypeInv, NEW c \in Conns, conn[c].holds, NEW k,
           ~k.holds, conn' = [conn EXCEPT ![c] = k], NEW u
    PROVE /\ u = UserOf(c) => Cardinality(Holders(u)') = Cardinality(Holders(u)) - 1
          /\ u # UserOf(c) => Holders(u)' = Holders(u)
<1>1. CASE u = UserOf(c)
  <2>1. Holders(u)' = Holders(u) \ {c} /\ c \in Holders(u)
    BY <1>1 DEF TypeInv, Holders, UserOf
  <2> QED
    BY <1>1, <2>1, HoldersFinite, FS_RemoveElement
<1>2. CASE u # UserOf(c)
  BY <1>2 DEF TypeInv, Holders, UserOf
<1> QED
  BY <1>1, <1>2

\* The account holds when nothing has connected yet.
LEMMA SlotsInit == Init => SlotsFit
<1> SUFFICES ASSUME Init, NEW u \in Owners
             PROVE /\ Cardinality(Holders(u)) = 0 /\ count[u] = 0 /\ leaked[u] = 0
                   /\ 0 <= MaxConnections
  BY DEF SlotsFit
<1>1. Holders(u) = {}
  BY DEF Init, Free, Holders
<1>2. count[u] = 0 /\ leaked[u] = 0
  BY Zenon DEF Init
<1> QED
  BY <1>1, <1>2, FS_EmptySet, ConnectionAssumption

\* Every step keeps the account.
LEMMA SlotsStep == TypeInv /\ SlotsFit /\ [Next]_vars => SlotsFit'
<1> SUFFICES ASSUME TypeInv, SlotsFit, [Next]_vars PROVE SlotsFit'
  OBVIOUS
<1>types. /\ conn \in [Conns -> ConnType] /\ \A c \in Conns : conn[c] \in ConnType
          /\ client \in [Pages -> ClientType]
          /\ \A p \in Pages : client[p].sock # "none" => client[p].conn \in Conns
          /\ count \in [Owners -> Nat] /\ leaked \in [Owners -> Nat]
          /\ \A c \in Conns : conn[c].holds => conn[c].at \in Holding
          /\ \A c \in Conns : conn[c].at # "free" => UserOf(c) \in Owners
          /\ MaxConnections \in Nat
  BY ConnectionAssumption DEF TypeInv, SoundClient, SoundConn, ClientType, UserOf, Owners
<1>same. ASSUME NEW c \in Conns, NEW k, conn' = [conn EXCEPT ![c] = k],
                k.holds = conn[c].holds, conn[c].holds => k.page = conn[c].page,
                UNCHANGED slots
         PROVE SlotsFit'
  <2>1. SameHolders
    BY <1>same, <1>types DEF SameHolders
  <2> QED
    BY <1>same, <2>1, SlotsKept
<1>none. ASSUME UNCHANGED <<conn, slots>> PROVE SlotsFit'
  BY <1>none, SlotsKept DEF SameHolders
<1>1. ASSUME NEW p \in Pages, OpenSocket(p) PROVE SlotsFit'
  <2>1. UNCHANGED slots
    BY <1>1 DEF OpenSocket
  <2>2. CASE FreeConns # {} /\ conn' = [conn EXCEPT ![AnyFree] =
                [Free EXCEPT !.page = p, !.at = "opening", !.up = TRUE]]
    <3>1. AnyFree \in Conns /\ conn[AnyFree] = Free
      BY <2>2 DEF AnyFree, FreeConns
    <3> DEFINE k == [Free EXCEPT !.page = p, !.at = "opening", !.up = TRUE]
    <3>2. k.holds = conn[AnyFree].holds /\ ~conn[AnyFree].holds
      BY <3>1 DEF Free
    <3>3. conn' = [conn EXCEPT ![AnyFree] = k]
      BY <2>2
    <3> HIDE DEF k
    <3> QED
      BY <2>1, <3>1, <3>2, <3>3, <1>same
  <2> QED
    BY <1>1, <2>1, <2>2, <1>none DEF OpenSocket
<1>2. ASSUME NEW p \in Pages, OnOpen(p) \/ OnClose(p) PROVE SlotsFit'
  BY <1>2, <1>none DEF OnOpen, OnClose
<1>3. ASSUME NEW p \in Pages, OnMessage(p) PROVE SlotsFit'
  <2> DEFINE c == client[p].conn
  <2>1. c \in Conns /\ UNCHANGED slots
    BY <1>3, <1>types DEF OnMessage
  <2>2. conn' = [conn EXCEPT ![c] = Hung(c)] \/ conn' = [conn EXCEPT ![c].outbox = Tail(@)]
    BY <1>3 DEF OnMessage
  <2>3. conn' = [conn EXCEPT ![c] = Hung(c)]
        \/ conn' = [conn EXCEPT ![c] = [conn[c] EXCEPT !.outbox = Tail(@)]]
    BY <2>2
  <2>4. /\ [conn[c] EXCEPT !.outbox = Tail(@)].holds = conn[c].holds
        /\ [conn[c] EXCEPT !.outbox = Tail(@)].page = conn[c].page
        /\ Hung(c).holds = conn[c].holds /\ Hung(c).page = conn[c].page
    BY <2>1, <1>types, HungType DEF ConnType
  <2> HIDE DEF c
  <2> QED
    BY <2>1, <2>3, <2>4, <1>same
<1>4. ASSUME NEW p \in Pages, Ping(p) PROVE SlotsFit'
  <2> DEFINE c == client[p].conn
             k == [conn[c] EXCEPT !.inbox = IF conn[c].up THEN @ \cup {"ping"} ELSE @]
  <2>1. c \in Conns /\ UNCHANGED slots /\ conn' = [conn EXCEPT ![c] = k]
    BY <1>4, <1>types DEF Ping
  <2>2. k.holds = conn[c].holds /\ k.page = conn[c].page
    BY <2>1, <1>types DEF ConnType
  <2> HIDE DEF c, k
  <2> QED
    BY <2>1, <2>2, <1>same
<1>5. ASSUME NEW p \in Pages, PongTimeout(p) \/ Leave(p) PROVE SlotsFit'
  <2>1. UNCHANGED slots
    BY <1>5 DEF PongTimeout, Leave
  <2>2. CASE UNCHANGED conn
    BY <2>1, <2>2, <1>none
  <2>3. CASE ~UNCHANGED conn
    <3>1. client[p].conn \in Conns
      BY <1>5, <2>3, <1>types DEF PongTimeout, Leave, ClientType
    <3>2. conn' = [conn EXCEPT ![client[p].conn] = Hung(client[p].conn)]
      BY <1>5, <2>3 DEF PongTimeout, Leave
    <3> QED
      BY <2>1, <3>1, <3>2, <1>same, <1>types, HungType
  <2> QED
    BY <2>2, <2>3
<1>6. ASSUME NEW c \in Conns, Break(c) \/ Reject(c) PROVE SlotsFit'
  <2>1. UNCHANGED slots /\ (conn' = [conn EXCEPT ![c] = Hung(c)]
                           \/ conn' = [conn EXCEPT ![c] = [Hung(c) EXCEPT !.at = "gone"]])
    BY <1>6 DEF Break, Reject, Serves
  <2>2. Hung(c) \in ConnType /\ Hung(c).page = conn[c].page /\ Hung(c).holds = conn[c].holds
    BY <1>types, HungType
  <2>3. /\ [Hung(c) EXCEPT !.at = "gone"].holds = conn[c].holds
        /\ [Hung(c) EXCEPT !.at = "gone"].page = conn[c].page
    BY <2>2 DEF ConnType
  <2> QED
    BY <2>1, <2>2, <2>3, <1>same
<1>7. ASSUME NEW c \in Conns, Accept(c) \/ Authorize(c) \/ Join(c) PROVE SlotsFit'
  <2> DEFINE ready == Sends(conn[c], <<"connection.ready">>)
  <2>1. /\ UNCHANGED slots
        /\ \/ conn' = [conn EXCEPT ![c] = [conn[c] EXCEPT !.at = "accepted"]]
           \/ conn' = [conn EXCEPT ![c] = [conn[c] EXCEPT !.at = "authorized"]]
           \/ conn' = [conn EXCEPT ![c] = Refuses(conn[c], "FORBIDDEN")]
           \/ conn' = [conn EXCEPT ![c] = [ready EXCEPT !.at = "serving"]]
    BY <1>7 DEF Accept, Authorize, Join, Serves
  <2>2. ready \in ConnType /\ ready.page = conn[c].page /\ ready.holds = conn[c].holds
    <3>1. <<"connection.ready">> \in Seq(Frames)
      BY DEF Frames
    <3> QED
      BY <3>1, <1>types, SendsType
  <2> HIDE DEF ready
  <2>3. ASSUME NEW k \in ConnType, NEW at
        PROVE [k EXCEPT !.at = at].holds = k.holds /\ [k EXCEPT !.at = at].page = k.page
    BY DEF ConnType
  <2>4. /\ Refuses(conn[c], "FORBIDDEN").holds = conn[c].holds
        /\ Refuses(conn[c], "FORBIDDEN").page = conn[c].page
    BY <1>types, RefusesType DEF Frames, Fatal
  <2> QED
    BY <2>1, <2>2, <2>3, <2>4, <1>types, <1>same
<1>8. ASSUME NEW c \in Conns, Handle(c) PROVE SlotsFit'
  <2>1. PICK message \in conn[c].inbox :
          LET k == [conn[c] EXCEPT !.inbox = @ \ {message}]
          IN  Serves(c, IF ~StillAuthorized(message) THEN Refuses(k, "FORBIDDEN")
                        ELSE IF message = "ping" THEN Sends(k, <<"pong">>)
                        ELSE k)
    BY <1>8 DEF Handle
  <2> DEFINE k == [conn[c] EXCEPT !.inbox = @ \ {message}]
  <2>2. k \in ConnType /\ k.holds = conn[c].holds /\ k.page = conn[c].page
    <3>1. conn[c] \in ConnType
      BY <1>types
    <3> QED
      BY <3>1 DEF ConnType
  <2>3. \/ conn' = [conn EXCEPT ![c] = Refuses(k, "FORBIDDEN")]
        \/ conn' = [conn EXCEPT ![c] = Sends(k, <<"pong">>)]
        \/ conn' = [conn EXCEPT ![c] = k]
    BY <2>1 DEF Serves
  <2> HIDE DEF k
  <2>4. /\ Refuses(k, "FORBIDDEN").holds = k.holds /\ Refuses(k, "FORBIDDEN").page = k.page
        /\ Sends(k, <<"pong">>).holds = k.holds /\ Sends(k, <<"pong">>).page = k.page
    <3>1. <<"pong">> \in Seq(Frames) /\ "FORBIDDEN" \in Frames
      BY DEF Frames, Fatal
    <3> QED
      BY <2>2, <3>1, SendsType, RefusesType
  <2>5. UNCHANGED slots
    BY <1>8 DEF Handle
  <2> QED
    BY <2>2, <2>3, <2>4, <2>5, <1>same
<1>9. ASSUME NEW c \in Conns, Forget(c) PROVE SlotsFit'
  <2>1. conn' = [conn EXCEPT ![c] = Free] /\ UNCHANGED slots /\ ~conn[c].holds
    BY <1>9, <1>types DEF Forget, Served, Holding
  <2> QED
    BY <2>1, <1>same, <1>types DEF Free, ConnType
<1>10. ASSUME End \/ Archive \/ UNCHANGED vars PROVE SlotsFit'
  BY <1>10, <1>none DEF End, Archive, vars, slots
<1>11. ASSUME RequestReauthorization PROVE SlotsFit'
  <2>1. SameHolders
    <3>1. PICK reached \in SUBSET {c \in Conns : InGroup(c)} :
            conn' = [c \in Conns |->
              IF c \in reached THEN [conn[c] EXCEPT !.inbox = @ \cup {"reauthorize"}]
              ELSE conn[c]]
      BY <1>11 DEF RequestReauthorization
    <3> QED
      BY <3>1, <1>types DEF SameHolders, ConnType
  <2> QED
    BY <1>11, <2>1, SlotsKept DEF RequestReauthorization
<1>numbers. ASSUME NEW u \in Owners
            PROVE /\ Cardinality(Holders(u)) \in Nat /\ count[u] \in Nat /\ leaked[u] \in Nat
                  /\ count[u] <= Cardinality(Holders(u)) + leaked[u]
                  /\ u \notin refunded => count[u] = Cardinality(Holders(u)) + leaked[u]
                  /\ count[u] <= MaxConnections
  BY <1>types, HoldersFinite DEF SlotsFit
<1>12. ASSUME NEW c \in Conns, Reserve(c) PROVE SlotsFit'
  <2>1. conn[c].at = "authorized" /\ UserOf(c) \in Owners /\ UNCHANGED <<leaked, refunded>>
    BY <1>12, <1>types DEF Reserve
  <2>2. CASE archived \/ ~Room(count[UserOf(c)])
    <3> DEFINE archivedNow == Refuses(conn[c], "WHITEBOARD_ARCHIVED")
               full == [Refuses(conn[c], "RATE_LIMITED") EXCEPT !.at = "refused"]
    <3>1. /\ UNCHANGED slots
          /\ conn' = [conn EXCEPT ![c] = archivedNow] \/ conn' = [conn EXCEPT ![c] = full]
      BY <1>12, <2>1, <2>2 DEF Reserve, Serves, slots
    <3>2. archivedNow.holds = conn[c].holds /\ archivedNow.page = conn[c].page
      BY <1>types, RefusesType DEF Frames
    <3>3. full.holds = conn[c].holds /\ full.page = conn[c].page
      <4> DEFINE r == Refuses(conn[c], "RATE_LIMITED")
      <4>1. r \in ConnType /\ r.holds = conn[c].holds /\ r.page = conn[c].page
        BY <1>types, RefusesType DEF Frames
      <4> HIDE DEF r
      <4>2. [r EXCEPT !.at = "refused"].holds = r.holds
            /\ [r EXCEPT !.at = "refused"].page = r.page
        BY <4>1 DEF ConnType
      <4> QED
        BY <4>1, <4>2 DEF r
    <3> HIDE DEF archivedNow, full
    <3> QED
      BY <3>1, <3>2, <3>3, <1>same
  <2>3. CASE ~archived /\ Room(count[UserOf(c)])
    <3> DEFINE k == [conn[c] EXCEPT !.at = "reserved", !.holds = TRUE]
    <3>1. conn' = [conn EXCEPT ![c] = k] /\ count' = [count EXCEPT ![UserOf(c)] = @ + 1]
      BY <1>12, <2>3 DEF Reserve, Serves
    <3>2. k.holds /\ k.page = conn[c].page
      BY <1>types DEF ConnType
    <3> HIDE DEF k
    <3>3. CASE ~conn[c].holds
      <4>1. ASSUME NEW u \in Owners
            PROVE /\ count'[u] <= Cardinality(Holders(u)') + leaked'[u]
                  /\ u \notin refunded' => count'[u] = Cardinality(Holders(u)') + leaked'[u]
                  /\ count'[u] <= MaxConnections
        <5>1. /\ u = UserOf(c) => Cardinality(Holders(u)') = Cardinality(Holders(u)) + 1
              /\ u # UserOf(c) => Holders(u)' = Holders(u)
          BY <3>1, <3>2, <3>3, HolderJoins
        <5> QED
          BY <2>1, <2>3, <3>1, <5>1, <1>types, <1>numbers DEF Room
      <4> QED
        BY <4>1 DEF SlotsFit
    <3>4. ~conn[c].holds
      BY <2>1, <1>types DEF Holding
    <3> QED
      BY <3>3, <3>4
  <2> QED
    BY <2>2, <2>3
<1>13. ASSUME NEW c \in Conns, Disconnect(c) PROVE SlotsFit'
  <2> DEFINE k == [conn[c] EXCEPT !.at = "gone", !.holds = FALSE, !.inbox = {},
                                  !.up = @ /\ conn[c].outbox # <<>>]
  <2>1. /\ conn[c].at \in {"serving", "closing", "refused"} /\ UserOf(c) \in Owners
        /\ conn' = [conn EXCEPT ![c] = k] /\ UNCHANGED leaked
    BY <1>13, <1>types DEF Disconnect, Serves
  <2>2. k.holds = FALSE /\ k.page = conn[c].page /\ conn[c].holds \in BOOLEAN
    BY <1>types DEF ConnType
  <2> HIDE DEF k
  <2>3. CASE conn[c].holds
    <3>1. /\ count' = IF count[UserOf(c)] = 0 THEN count ELSE [count EXCEPT ![UserOf(c)] = @ - 1]
          /\ UNCHANGED refunded
      BY <1>13, <2>3 DEF Disconnect, HasUser, Released
    <3>2. ASSUME NEW u \in Owners
          PROVE /\ count'[u] <= Cardinality(Holders(u)') + leaked'[u]
                /\ u \notin refunded' => count'[u] = Cardinality(Holders(u)') + leaked'[u]
                /\ count'[u] <= MaxConnections
      <4>1. /\ u = UserOf(c) => /\ Cardinality(Holders(u)') = Cardinality(Holders(u)) - 1
                               /\ Cardinality(Holders(u)) > 0
            /\ u # UserOf(c) => Holders(u)' = Holders(u)
        <5>1. /\ u = UserOf(c) => Cardinality(Holders(u)') = Cardinality(Holders(u)) - 1
              /\ u # UserOf(c) => Holders(u)' = Holders(u)
          BY <2>1, <2>2, <2>3, HolderLeaves
        <5>2. u = UserOf(c) => Holders(u) # {}
          BY <2>3 DEF Holders
        <5>3. Holders(u) # {} => Cardinality(Holders(u)) > 0
          BY HoldersFinite, FS_EmptySet
        <5> QED
          BY <5>1, <5>2, <5>3
      <4> QED
        BY <2>1, <3>1, <4>1, <1>types, <1>numbers
    <3> QED
      BY <3>2 DEF SlotsFit
  <2>4. CASE ~conn[c].holds /\ conn[c].at = "refused"
    <3>1. SameHolders
      BY <2>1, <2>2, <2>4, <1>types DEF SameHolders
    <3>2. /\ count' = IF count[UserOf(c)] = 0 THEN count ELSE [count EXCEPT ![UserOf(c)] = @ - 1]
          /\ refunded' = refunded \cup {UserOf(c)}
      BY <1>13, <2>4 DEF Disconnect, HasUser, Released
    <3>3. ASSUME NEW u \in Owners PROVE Holders(u)' = Holders(u)
      BY <3>1 DEF SameHolders, Holders, UserOf
    <3>4. ASSUME NEW u \in Owners
          PROVE /\ count'[u] <= Cardinality(Holders(u)') + leaked'[u]
                /\ u \notin refunded' => count'[u] = Cardinality(Holders(u)') + leaked'[u]
                /\ count'[u] <= MaxConnections
      BY <2>1, <3>2, <3>3, <1>types, <1>numbers
    <3> QED
      BY <3>4 DEF SlotsFit
  <2>5. CASE ~conn[c].holds /\ conn[c].at # "refused"
    <3>1. UNCHANGED slots
      BY <1>13, <2>1, <2>5 DEF Disconnect, HasUser, slots
    <3> QED
      BY <2>1, <2>2, <2>5, <3>1, <1>same
  <2> QED
    BY <2>3, <2>4, <2>5
<1>14. ASSUME NEW c \in Conns, Raise(c) PROVE SlotsFit'
  <2> DEFINE k == [Hung(c) EXCEPT !.at = "gone", !.holds = FALSE, !.inbox = {}]
  <2>1. conn' = [conn EXCEPT ![c] = k] /\ UNCHANGED <<count, refunded>> /\ UserOf(c) \in Owners
    BY <1>14, <1>types DEF Raise, Serves
  <2>2. k.holds = FALSE /\ k.page = conn[c].page /\ conn[c].holds \in BOOLEAN
    <3>1. Hung(c) \in ConnType /\ Hung(c).page = conn[c].page
      BY <1>types, HungType
    <3> QED
      BY <3>1, <1>types DEF ConnType
  <2> HIDE DEF k
  <2>3. CASE ~conn[c].holds
    <3>1. UNCHANGED slots
      BY <1>14, <2>3 DEF Raise, slots
    <3> QED
      BY <2>1, <2>2, <2>3, <3>1, <1>same
  <2>4. CASE conn[c].holds
    <3>1. leaked' = [leaked EXCEPT ![UserOf(c)] = @ + 1]
      BY <1>14, <2>4 DEF Raise
    <3>2. ASSUME NEW u \in Owners
          PROVE /\ count'[u] <= Cardinality(Holders(u)') + leaked'[u]
                /\ u \notin refunded' => count'[u] = Cardinality(Holders(u)') + leaked'[u]
                /\ count'[u] <= MaxConnections
      <4>1. /\ u = UserOf(c) => Cardinality(Holders(u)') = Cardinality(Holders(u)) - 1
            /\ u # UserOf(c) => Holders(u)' = Holders(u)
        BY <2>1, <2>2, <2>4, HolderLeaves
      <4> QED
        BY <2>1, <3>1, <4>1, <1>types, <1>numbers
    <3> QED
      BY <3>2 DEF SlotsFit
  <2> QED
    BY <2>3, <2>4
<1>15. ASSUME Restart PROVE SlotsFit'
  <2>1. ASSUME NEW c \in Conns PROVE ~conn'[c].holds
    <3>1. CASE conn[c].at = "free"
      BY <1>15, <3>1, <1>types DEF Restart, Holding
    <3>2. CASE conn[c].at # "free"
      <4>1. conn'[c] = [Hung(c) EXCEPT !.at = "gone", !.holds = FALSE, !.inbox = {}]
        BY <1>15, <3>2 DEF Restart
      <4>2. Hung(c) \in ConnType
        BY <1>types, HungType
      <4> QED
        BY <4>1, <4>2 DEF ConnType
    <3> QED
      BY <3>1, <3>2
  <2>2. count' = [u \in Owners |-> 0] /\ leaked' = [u \in Owners |-> 0]
    BY <1>15, Zenon DEF Restart
  <2>3. ASSUME NEW u \in Owners PROVE Cardinality(Holders(u)') = 0
    <3>1. Holders(u)' = {}
      BY <2>1 DEF Holders
    <3> QED
      BY <3>1, FS_EmptySet
  <2> QED
    BY <2>2, <2>3, <1>types DEF SlotsFit
<1> QED
  BY <1>1, <1>2, <1>3, <1>4, <1>5, <1>6, <1>7, <1>8, <1>9, <1>10, <1>11, <1>12, <1>13, <1>14,
     <1>15 DEF Next, ClientStep, ServerStep

\* The account of connection slots is kept, for any cap and any number of
\* owners, pages and sockets.
LEMMA AccountKept == Spec => [](TypeInv /\ SlotsFit)
<1> QED
  BY TypesInit, TypesStep, SlotsInit, SlotsStep, PTL DEF Spec

\* Nobody is kept out by connections that are gone, but for those an
\* exception has ended (consumers.py:138-187).
THEOREM NobodyIsLockedOut == Spec => []NobodyLockedOut
<1>1. SlotsFit => NobodyLockedOut
  BY DEF SlotsFit, NobodyLockedOut
<1> QED
  BY <1>1, AccountKept, PTL

\* Whose refused connections have given nothing back keeps to the cap
\* (consumers.py:182, 496-501).
THEOREM CapIsKept == Spec => []CapUnlessRefunded
<1>1. TypeInv /\ SlotsFit => CapUnlessRefunded
  <2> SUFFICES ASSUME TypeInv, SlotsFit, NEW u \in Owners, u \notin refunded
               PROVE Cardinality(Holders(u)) <= MaxConnections
    BY DEF CapUnlessRefunded
  <2>1. Cardinality(Holders(u)) \in Nat /\ leaked[u] \in Nat /\ MaxConnections \in Nat
    BY HoldersFinite, ConnectionAssumption DEF TypeInv
  <2> QED
    BY <2>1 DEF SlotsFit
<1> QED
  BY <1>1, AccountKept, PTL

=============================================================================
