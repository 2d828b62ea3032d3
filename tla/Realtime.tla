------------------------------ MODULE Realtime ------------------------------
(***************************************************************************)
(* Live collaboration on one board: the WebSocket consumer                 *)
(* (apps/whiteboard/consumers.py), its channel group, and the page's       *)
(* controller and loading (frontend/src/whiteboard/realtime/               *)
(* controller.ts and index.ts).                                            *)
(*                                                                         *)
(* The ledger is a list of operation ids.  A consumer handles one event at *)
(* a time: its own connect, a frame of its page, or a group message from   *)
(* its mailbox.  A commit and the announcement of it are two steps.  Frames*)
(* arrive in order until the connection drops.  A page starts with the board*)
(* loaded, which is empty as yet, and loads it by HTTP again for a restore,*)
(* in an answer that frames may overtake.                                  *)
(*                                                                         *)
(* Left out: polling, imports, presence, pings, rate limits, slots,        *)
(* access that ends, archiving, and the capacity of a mailbox.  What an    *)
(* operation does to the board is left to its id: shown is the set of      *)
(* operations a page displays, and each of them leaves something to load.  *)
(***************************************************************************)
EXTENDS Integers, Sequences, FiniteSets

CONSTANTS
  Pages,            \* open pages with a board
  Ids,              \* operation ids
  Restores,         \* those that are restores
  MaxConnects,      \* bound on connections
  MaxRepeats        \* bound on operations submitted again by HTTP

ASSUME RestoresAssumption == Restores \subseteq Ids
ASSUME LimitsAssumption == MaxConnects \in Nat /\ MaxRepeats \in Nat

VARIABLES
  log,              \* ids in sequence order
  due,              \* commits that are not announced yet
  lost,             \* ids of which an announcement was lost with its worker
  drawn,            \* ids that pages have drawn
  stage,            \* consumer of a page: how far connect() is
  cached,           \* consumer: version of the board instance it loaded
  joinedAt,         \* consumer: length of the log at group_add
  mail,             \* consumer: group messages
  up, down,         \* frames to the consumer, and to the page
  version,          \* controller: _serverVersion
  applied,          \* controller: applied
  pending,          \* controller: pending
  syncing,          \* controller: _syncing
  shown,            \* operations on the canvas
  reads,            \* loads of the board under way
  connects, repeats \* how much of the bounds is used up

serverVars == <<log, due, lost, repeats>>
consumerVars == <<stage, cached, joinedAt, mail>>
controllerVars == <<version, applied, pending, syncing>>
boardVars == <<shown, reads>>
vars == <<serverVars, drawn, consumerVars, up, down, controllerVars, boardVars, connects>>

InLog == {log[k] : k \in DOMAIN log}

Sequence(id) == CHOOSE k \in DOMAIN log : log[k] = id

After(n) == {log[k] : k \in (n + 1)..Len(log)}

Larger(a, b) == IF a > b THEN a ELSE b

\* Frames and group messages; id is one id or none.
Frame(kind, id, v, ops) == [kind |-> kind, id |-> id, v |-> v, ops |-> ops]

Committed(id, v) == Frame("committed", {id}, v, {})

\* A commit that is to be announced, by the consumer of a page or by none.
Due(id, v, by) == [id |-> id, v |-> v, by |-> by]

\* A load of the board that was asked for because of a restore.
Asked(id) == [for |-> id, at |-> "asked", seen |-> {}]

Connected(p) == stage[p] # "none"

\* RealtimeController.state is "ready".
Live(p) == Connected(p) /\ ~syncing[p]

Busy(p) == \E e \in due : e.by = {p}

GroupOfReady == {p \in Pages : stage[p] = "ready"}          \* mutant

\* Consumers in the board's group.
Group == {p \in Pages : stage[p] \in {"joined", "ready"}}

-----------------------------------------------------------------------------
Init ==
  /\ log = <<>> /\ due = {} /\ lost = {} /\ drawn = {}
  /\ stage = [p \in Pages |-> "none"]
  /\ cached = [p \in Pages |-> 0]
  /\ joinedAt = [p \in Pages |-> 0]
  /\ mail = [p \in Pages |-> <<>>]
  /\ up = [p \in Pages |-> <<>>]
  /\ down = [p \in Pages |-> <<>>]
  /\ version = [p \in Pages |-> 0]
  /\ applied = [p \in Pages |-> {}]
  /\ pending = [p \in Pages |-> {}]
  /\ syncing = [p \in Pages |-> FALSE]
  /\ shown = [p \in Pages |-> {}]
  /\ reads = [p \in Pages |-> {}]
  /\ connects = 0 /\ repeats = 0

-----------------------------------------------------------------------------
(* The server by HTTP: operations of the durable queues and restores.       *)

HttpCommit(id) ==
  /\ id \notin InLog
  /\ log' = Append(log, id)
  /\ due' = due \cup {Due(id, Len(log) + 1, {})}
  /\ UNCHANGED <<lost, repeats, drawn, consumerVars, up, down, controllerVars, boardVars,
                 connects>>

NewestVersion(id) == Len(log)                               \* mutant

\* The version a duplicate is acknowledged with.
AckVersion(id) == Sequence(id)

\* A repeated operation is announced again; a repeated restore is not.
HttpRepeat(id) ==
  /\ repeats < MaxRepeats
  /\ id \in InLog \ Restores
  /\ repeats' = repeats + 1
  /\ due' = due \cup {Due(id, AckVersion(id), {})}
  /\ UNCHANGED <<log, lost, drawn, consumerVars, up, down, controllerVars, boardVars, connects>>

\* group_send after the commit.
Announce(e) ==
  /\ e \in due
  /\ due' = due \ {e}
  /\ mail' = [p \in Pages |-> IF p \in Group THEN Append(mail[p], Committed(e.id, e.v))
                                             ELSE mail[p]]
  /\ UNCHANGED <<log, lost, repeats, drawn, stage, cached, joinedAt, up, down,
                 controllerVars, boardVars, connects>>

\* The worker dies between its commit and group_send.
Lose(e) ==
  /\ e \in due
  /\ e.by = {}
  /\ due' = due \ {e}
  /\ lost' = lost \cup {e.id}
  /\ UNCHANGED <<log, repeats, drawn, consumerVars, up, down, controllerVars, boardVars, connects>>

-----------------------------------------------------------------------------
(* The consumer.                                                            *)

\* A socket opens: the handshake is accepted.
Open(p) ==
  /\ ~Connected(p)
  /\ connects < MaxConnects
  /\ connects' = connects + 1
  /\ stage' = [stage EXCEPT ![p] = "accepted"]
  /\ UNCHANGED <<serverVars, drawn, cached, joinedAt, mail, up, down, controllerVars, boardVars>>

\* _authorize loads the board instance; latest_version reads it ever after.
Authorize(p) ==
  /\ stage[p] = "accepted"
  /\ stage' = [stage EXCEPT ![p] = "authorized"]
  /\ cached' = [cached EXCEPT ![p] = Len(log)]
  /\ UNCHANGED <<serverVars, drawn, joinedAt, mail, up, down, controllerVars, boardVars, connects>>

Join(p) ==
  /\ stage[p] = "authorized"
  /\ stage' = [stage EXCEPT ![p] = "joined"]
  /\ joinedAt' = [joinedAt EXCEPT ![p] = Len(log)]
  /\ UNCHANGED <<serverVars, drawn, cached, mail, up, down, controllerVars, boardVars, connects>>

Reply(p, frame) == down' = [down EXCEPT ![p] = Append(@, frame)]

\* connection.ready; only now are frames and group messages handled.
Greet(p) ==
  /\ stage[p] = "joined"
  /\ stage' = [stage EXCEPT ![p] = "ready"]
  /\ Reply(p, Frame("ready", {}, cached[p], {}))
  /\ UNCHANGED <<serverVars, drawn, cached, joinedAt, mail, up, controllerVars, boardVars, connects>>

\* The next frame of the page, when the consumer has nothing else to do.
Handle(p, kind) ==
  /\ stage[p] = "ready"
  /\ ~Busy(p)
  /\ up[p] # <<>>
  /\ Head(up[p]).kind = kind
  /\ up' = [up EXCEPT ![p] = Tail(@)]
  /\ UNCHANGED <<lost, repeats, drawn, consumerVars, controllerVars, boardVars, connects>>

\* operation.submit, accepted or a duplicate; or refused as stale.
OnSubmit(p) ==
  LET base == Head(up[p]).v
  IN  /\ Handle(p, "submit")
      /\ \E id \in Head(up[p]).id :
           \/ /\ id \in InLog
              /\ due' = due \cup {Due(id, AckVersion(id), {p})}
              /\ UNCHANGED <<log, down>>
           \/ /\ id \notin InLog /\ base = Len(log)
              /\ log' = Append(log, id)
              /\ due' = due \cup {Due(id, Len(log) + 1, {p})}
              /\ UNCHANGED down
           \/ /\ id \notin InLog /\ base # Len(log)
              /\ Reply(p, Frame("stale", {}, Len(log), {}))
              /\ UNCHANGED <<log, due>>

\* Mutant: nothing is sent when there is nothing to catch up on.
AnsweredIfBehind(p, v) == IF v >= cached[p] THEN down
                          ELSE [down EXCEPT ![p] = Append(@, Frame("sync", {}, cached[p], After(v)))]

\* The answer to sync.request: what came after v if v is below the version
\* of the cached instance, with that version either way.
Answered(p, v) ==
  [down EXCEPT ![p] = Append(@, Frame("sync", {}, cached[p],
                                      IF v >= cached[p] THEN {} ELSE After(v)))]

OnSyncRequest(p) ==
  /\ Handle(p, "sync")
  /\ down' = Answered(p, Head(up[p]).v)
  /\ UNCHANGED <<log, due>>

\* whiteboard_op.
Relay(p) ==
  /\ stage[p] = "ready"
  /\ ~Busy(p)
  /\ mail[p] # <<>>
  /\ mail' = [mail EXCEPT ![p] = Tail(@)]
  /\ Reply(p, Head(mail[p]))
  /\ UNCHANGED <<serverVars, drawn, stage, cached, joinedAt, up, controllerVars, boardVars, connects>>

\* The connection ends, and the consumer with it: frames under way are lost, a
\* handler that has committed goes on to announce it.
Drop(p) ==
  /\ Connected(p)
  /\ stage' = [stage EXCEPT ![p] = "none"]
  /\ mail' = [mail EXCEPT ![p] = <<>>]
  /\ up' = [up EXCEPT ![p] = <<>>]
  /\ down' = [down EXCEPT ![p] = <<>>]
  /\ due' = {IF e.by = {p} THEN Due(e.id, e.v, {}) ELSE e : e \in due}
  /\ cached' = [cached EXCEPT ![p] = 0]
  /\ joinedAt' = [joinedAt EXCEPT ![p] = 0]
  /\ UNCHANGED <<log, lost, repeats, drawn, controllerVars, boardVars, connects>>

-----------------------------------------------------------------------------
(* The page.                                                                *)

InFlight(p) == Cardinality(pending[p])

\* The user draws: shown at once, sent if the socket is live (and left to the
\* durable queue otherwise).
Draw(p, id) ==
  /\ id \notin drawn \cup InLog \cup Restores
  /\ drawn' = drawn \cup {id}
  /\ shown' = [shown EXCEPT ![p] = @ \cup {id}]
  /\ IF Live(p)
       THEN /\ applied' = [applied EXCEPT ![p] = @ \cup {id}]
            /\ pending' = [pending EXCEPT ![p] = @ \cup {id}]
            /\ up' = [up EXCEPT ![p] =
                 Append(@, Frame("submit", {id}, version[p] + InFlight(p), {}))]
       ELSE UNCHANGED <<applied, pending, up>>
  /\ UNCHANGED <<serverVars, consumerVars, down, version, syncing, reads, connects>>

\* A frame from the consumer.
Hear(p, kind) ==
  /\ down[p] # <<>>
  /\ Head(down[p]).kind = kind
  /\ down' = [down EXCEPT ![p] = Tail(@)]
  /\ UNCHANGED <<serverVars, drawn, consumerVars, connects>>

\* requestSync, from version v.
RequestSync(p, v) ==
  /\ syncing' = [syncing EXCEPT ![p] = TRUE]
  /\ up' = [up EXCEPT ![p] = Append(@, Frame("sync", {}, v, {}))]

\* Operations reach the board unless the controller knows them; a restore
\* makes the page load everything anew.
Apply(p, ids) ==
  LET new == ids \ applied[p]
  IN  /\ applied' = [applied EXCEPT ![p] = @ \cup ids]
      /\ shown' = [shown EXCEPT ![p] = @ \cup (new \ Restores)]
      /\ reads' = [reads EXCEPT ![p] =
                     @ \cup {Asked(id) : id \in new \cap Restores}]

OnReady(p) ==
  LET v == Head(down[p]).v
  IN  /\ Hear(p, "ready")
      /\ version' = [version EXCEPT ![p] = v]
      /\ RequestSync(p, v)
      /\ UNCHANGED <<applied, pending, shown, reads>>

OnCommitted(p) ==
  LET frame == Head(down[p])
  IN  /\ Hear(p, "committed")
      /\ version' = [version EXCEPT ![p] = frame.v]
      /\ pending' = [pending EXCEPT ![p] = @ \ frame.id]
      /\ Apply(p, frame.id)
      /\ UNCHANGED <<syncing, up>>

OnSync(p) ==
  /\ Hear(p, "sync")
  /\ version' = [version EXCEPT ![p] = Head(down[p]).v]
  /\ syncing' = [syncing EXCEPT ![p] = FALSE]
  /\ Apply(p, Head(down[p]).ops)
  /\ UNCHANGED <<pending, up>>

OnePast(a, b) == Larger(a, b) + 1                           \* mutant

\* The version after STALE_VERSION.
Recovered(a, b) == Larger(a, b)

OnStale(p) ==
  LET v == Recovered(version[p], Head(down[p]).v)
  IN  /\ Hear(p, "stale")
      /\ pending' = [pending EXCEPT ![p] = {}]
      /\ version' = [version EXCEPT ![p] = v]
      /\ RequestSync(p, v)
      /\ UNCHANGED <<applied, shown, reads>>

-----------------------------------------------------------------------------
(* Loads.                                                                   *)

Replace(p, r, new) == reads' = [reads EXCEPT ![p] = (@ \ {r}) \cup new]

\* WhiteboardStateView reads the operations.
AnswerLoad(p, r) ==
  /\ r \in reads[p] /\ r.at = "asked"
  /\ Replace(p, r, {[r EXCEPT !.at = "answer", !.seen = InLog]})
  /\ UNCHANGED <<serverVars, drawn, consumerVars, up, down, controllerVars, shown, connects>>

\* loadFullState replaces the board, unless the server's is empty.
OnLoad(p, r) ==
  /\ r \in reads[p] /\ r.at = "answer"
  /\ Replace(p, r, {})
  /\ shown' = [shown EXCEPT ![p] = IF r.seen = {} THEN @ ELSE r.seen]
  /\ UNCHANGED <<serverVars, drawn, consumerVars, up, down, controllerVars, connects>>

Consumer(p) ==
  \/ Authorize(p) \/ Join(p) \/ Greet(p)
  \/ OnSubmit(p) \/ OnSyncRequest(p) \/ Relay(p)
  \/ \E e \in due : e.by = {p} /\ Announce(e)

Controller(p) == OnReady(p) \/ OnCommitted(p) \/ OnSync(p) \/ OnStale(p)

Loading(p) == \E r \in reads[p] : AnswerLoad(p, r) \/ OnLoad(p, r)

Next ==
  \/ \E p \in Pages :
       \/ Open(p) \/ Drop(p) \/ Consumer(p) \/ Controller(p) \/ Loading(p)
       \/ \E id \in Ids : Draw(p, id)
  \/ \E id \in Ids : HttpCommit(id) \/ HttpRepeat(id)
  \/ \E e \in due : e.by = {} /\ (Announce(e) \/ Lose(e))

Spec == Init /\ [][Next]_vars

\* The event loops of the server and of the page go on.
FairSpec == Spec /\ \A p \in Pages : WF_vars(Consumer(p)) /\ WF_vars(Controller(p))

-----------------------------------------------------------------------------
(* Properties.                                                              *)

FrameType(kinds) == [kind : kinds, id : SUBSET Ids, v : Nat, ops : SUBSET Ids]

TypeOK ==
  /\ log \in Seq(Ids)
  /\ due \subseteq [id : Ids, v : Nat, by : SUBSET Pages]
  /\ lost \subseteq Ids /\ drawn \subseteq Ids
  /\ stage \in [Pages -> {"none", "accepted", "authorized", "joined", "ready"}]
  /\ cached \in [Pages -> Nat]
  /\ joinedAt \in [Pages -> Nat]
  /\ mail \in [Pages -> Seq(FrameType({"committed"}))]
  /\ up \in [Pages -> Seq(FrameType({"submit", "sync"}))]
  /\ down \in [Pages -> Seq(FrameType({"ready", "committed", "sync", "stale"}))]
  /\ version \in [Pages -> Nat]
  /\ applied \in [Pages -> SUBSET Ids]
  /\ pending \in [Pages -> SUBSET Ids]
  /\ syncing \in [Pages -> BOOLEAN]
  /\ shown \in [Pages -> SUBSET Ids]
  /\ reads \in [Pages -> SUBSET [for : Ids, at : {"asked", "answer"}, seen : SUBSET Ids]]
  /\ connects \in 0..MaxConnects /\ repeats \in 0..MaxRepeats

Frames(p) == {mail[p][k] : k \in DOMAIN mail[p]} \cup {down[p][k] : k \in DOMAIN down[p]}

\* The version a page takes for confirmed is one the board has had, whatever
\* it hears late, twice or out of order, so the page can be told to move on
\* and never waits for operations that do not exist.
VersionExists == \A p \in Pages : version[p] <= Len(log)

\* Whatever is announced to anybody is in the ledger, under the sequence the
\* announcement gives: announcements follow their commit, repeats included.
CommittedBeforeHeard ==
  \A p \in Pages : \A f \in Frames(p) :
    f.kind = "committed" => \A id \in f.id : f.v \in DOMAIN log /\ log[f.v] = id

\* Everything submitted or restored after a page joined the group (imports are
\* not announced) reaches it: until the
\* page has it, its announcement is to come, in the mailbox or on the wire,
\* unless it was lost with its worker.
HeardSinceJoin ==
  \A p \in Group : \A k \in (joinedAt[p] + 1)..Len(log) :
    \/ log[k] \in applied[p] \cup lost
    \/ \E e \in due : e.id = log[k]
    \/ \E f \in Frames(p) : f.id = {log[k]}

\* A page that is catching up while it is connected comes to an end of it:
\* otherwise it would not submit over the socket again, and keep polling.
CatchUpEnds == \A p \in Pages : (syncing[p] /\ stage[p] = "ready") ~> ~(syncing[p] /\ stage[p] = "ready")

=============================================================================
