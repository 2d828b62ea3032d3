----------------------------- MODULE SyncEngine -----------------------------
(***************************************************************************)
(* The offline-first queue of one device and one whiteboard:               *)
(* frontend/src/whiteboard/sync-engine.ts with its store local-store.ts,   *)
(* its facade sync.ts and the wiring in index.ts.                          *)
(*                                                                         *)
(* A tab runs one SyncEngine.  The tabs of a device share one IndexedDB    *)
(* store, whose transactions are atomic; everything between two awaits is  *)
(* one step.  updateOperationStatus is two transactions, a get and a put   *)
(* of the whole row, so it takes two steps here as well.                   *)
(*                                                                         *)
(* The server is the ledger as OpLog describes it: a batch of one          *)
(* operation is acknowledged, appended, or refused.  A request or its      *)
(* answer can be lost.  The live WebSocket appears by what it does to the  *)
(* queue: it carries operations drawn while it is ready, reports every     *)
(* committed operation, and has a version of its own.                      *)
(*                                                                         *)
(* Left out: payloads, base_version of a stored row (never sent), the      *)
(* conflicts store (no longer written), the board cache, storage failures  *)
(* other than the cap on pending operations, and the wording of errors.    *)
(***************************************************************************)
EXTENDS Integers, Sequences, FiniteSets

CONSTANTS
  Tabs,             \* open pages of this device
  LiveTabs,         \* those that can hold a ready WebSocket
  Ids,              \* uuids this device draws, as numbers: their sort order
  PartnerIds,       \* uuids the partner draws
  Ticks,            \* milliseconds that may pass between two operations
  MaxRetries,       \* MAX_RETRIES
  MaxPending,       \* MAX_PENDING_OPERATIONS
  Archives,         \* the board may be archived and unarchived
  ManyBoards,       \* the device holds more than MAX_CACHED_BOARDS boards
  MaxFaults,        \* bound on lost requests, lost answers and 429s
  MaxOpens          \* bound on how often a page is opened again

ASSUME TabsAssumption == LiveTabs \subseteq Tabs
ASSUME SyncIdsAssumption == Ids \subseteq Nat /\ Ids \cap PartnerIds = {}
ASSUME TicksAssumption == Ticks \subseteq Nat
ASSUME FlagsAssumption == Archives \in BOOLEAN /\ ManyBoards \in BOOLEAN
ASSUME BoundsAssumption ==
  MaxRetries \in Nat /\ MaxPending \in Nat /\ MaxFaults \in Nat /\ MaxOpens \in Nat

VARIABLES
  ledger,           \* server: ids in sequence order
  open,             \* server: FALSE while the board is archived
  store,            \* device: the row of each operation
  key,              \* device: client_sequence of each operation
  drawn,            \* the operations in the order the user made them
  saved,            \* operations whose saveOperation has resolved
  wire,             \* operation.submit messages under way
  mode,             \* "closed", "booting", "unseeded" or "up"
  recovering,       \* rows recoverInterrupted has yet to write back
  saving,           \* saveOperation: counted, put outstanding; and pushHttp
  confirming,       \* markOperationConfirmed: row read, put outstanding
  legacy,           \* operations that went the way without a store
  live,             \* the realtime controller is ready
  liveVersion,      \* the controller's version, 0 before it has one
  anchor,           \* _serverVersion
  timer,            \* _retryTimer is set
  pass,             \* runSync
  phase,            \* _phase
  count,            \* _pendingCount
  trim,             \* enforceBoardLimits has "found" the board without pending rows,
                    \* or has "dropped" rows the server never acknowledged
  gaveUp,           \* operations a row of which ever said FAILED
  faults, opens     \* how much of the bounds is used up

serverVars == <<ledger, open>>
storeVars == <<store, key, drawn, saved>>
pageVars == <<mode, recovering, saving, confirming, legacy, live, liveVersion>>
engineVars == <<anchor, timer, pass, phase, count>>
boundVars == <<trim, gaveUp, faults, opens>>
vars == <<serverVars, storeVars, wire, pageVars, engineVars, boundVars>>

None == [status |-> "NONE", retries |-> 0]

Pending == [status |-> "PENDING", retries |-> 0]

NoReply == [kind |-> "none", version |-> 0]

Reply(kind, v) == [kind |-> kind, version |-> v]

Waiting == {"PENDING", "SUBMITTING"}

\* A pass: where it is, its operations with the retry_count they had when it
\* read the queue, the row its pending put is based on, the server's answer,
\* and hadFailure.
Idle == [at |-> "idle", list |-> <<>>, row |-> None, reply |-> NoReply, failed |-> FALSE]

Larger(a, b) == IF a > b THEN a ELSE b

\* Mutant: an acknowledgement counts one up.
AdoptedNext(a, v) == a + 1

\* The base after the board is known to be at version v.
Adopted(a, v) == Larger(a, v)

Sequence(id) == CHOOSE k \in DOMAIN ledger : ledger[k] = id

InLedger == {ledger[k] : k \in DOMAIN ledger}

Queued == {id \in Ids : store[id].status \in Waiting}

Unacknowledged == {id \in Ids : store[id].status \in Waiting \cup {"FAILED"}}

\* getPendingOperations: by client_sequence; rows with the same one stay in
\* the order of the index, which is that of operation_id.
Before(a, b) == key[a] < key[b] \/ (key[a] = key[b] /\ a < b)

NotCounted(t, left) == count[t]                             \* mutant

\* _pendingCount after the operations left are counted again.
Recounted(t, left) == Cardinality(left)

\* Mutant: the queue is read newest first.
NewestFirst(S) ==
  CHOOSE s \in [1..Cardinality(S) -> S] :
    \A j, k \in DOMAIN s : j < k => Before(s[k], s[j])

\* The operations of S as getPendingOperations returns them.
InOrder(S) ==
  CHOOSE s \in [1..Cardinality(S) -> S] :
    \A j, k \in DOMAIN s : j < k => Before(s[j], s[k])

-----------------------------------------------------------------------------
Init ==
  /\ ledger = <<>> /\ open = TRUE
  /\ store = [id \in Ids |-> None]
  /\ key = [id \in Ids |-> 0]
  /\ drawn = <<>> /\ saved = {}
  /\ wire = {}
  /\ mode = [t \in Tabs |-> "closed"]
  /\ recovering = [t \in Tabs |-> {}]
  /\ saving = [t \in Tabs |-> <<>>]
  /\ confirming = [t \in Tabs |-> {}]
  /\ legacy = [t \in Tabs |-> <<>>]
  /\ live = [t \in Tabs |-> FALSE]
  /\ liveVersion = [t \in Tabs |-> 0]
  /\ anchor = [t \in Tabs |-> 0]
  /\ timer = [t \in Tabs |-> FALSE]
  /\ pass = [t \in Tabs |-> Idle]
  /\ phase = [t \in Tabs |-> "idle"]
  /\ count = [t \in Tabs |-> 0]
  /\ trim = "idle" /\ gaveUp = {} /\ faults = 0 /\ opens = 0

-----------------------------------------------------------------------------
(* The user draws.                                                          *)

Fresh(id) == \A k \in DOMAIN drawn : drawn[k] # id

\* nextClientSequence: milliseconds times a million, plus a counter that is
\* lost when the sum is rounded to a double.
ClientSequence(tick) ==
  IF drawn = <<>> THEN tick ELSE key[drawn[Len(drawn)]] + tick

\* The user makes operation id; a ready socket is given it at once.
Author(t, id, tick) ==
  /\ Fresh(id)
  /\ key' = [key EXCEPT ![id] = ClientSequence(tick)]
  /\ drawn' = Append(drawn, id)
  /\ wire' = IF live[t] THEN wire \cup {id} ELSE wire
  /\ UNCHANGED <<serverVars, store, saved, mode, recovering, confirming,
                 live, liveVersion, anchor, timer, pass, count, boundVars>>

\* submitLocal and SyncEngine.submit up to the count of saveOperation, which
\* is read before the put of any operation made in the same gesture.
Draw(t, id, tick) ==
  /\ mode[t] \in {"unseeded", "up"}
  /\ Author(t, id, tick)
  /\ IF Cardinality(Queued) < MaxPending
       THEN /\ saving' = [saving EXCEPT ![t] = Append(@, [id |-> id, push |-> ~live[t]])]
            /\ UNCHANGED phase
       ELSE /\ phase' = [phase EXCEPT ![t] = "error"]
            /\ UNCHANGED saving
  /\ UNCHANGED legacy

\* Drawn before the store is open: enqueue goes the way without a store.
DrawEarly(t, id, tick) ==
  /\ mode[t] = "booting"
  /\ Author(t, id, tick)
  /\ legacy' = [legacy EXCEPT ![t] = Append(@, [id |-> id, at |-> "sent"])]
  /\ UNCHANGED <<saving, phase>>

\* The put of saveOperation and the rest of SyncEngine.submit; the puts of a
\* page follow each other in the order of the calls.
Save(t) ==
  LET id == Head(saving[t]).id
  IN  /\ saving[t] # <<>>
      /\ saving' = [saving EXCEPT ![t] = Tail(@)]
      /\ store' = [store EXCEPT ![id] = Pending]
      /\ saved' = saved \cup {id}
      /\ phase' = [phase EXCEPT ![t] = "pending"]
      /\ count' = [count EXCEPT ![t] = Recounted(t, Queued \cup {id})]
      /\ timer' = [timer EXCEPT ![t] = @ \/ Head(saving[t]).push]
      /\ UNCHANGED <<serverVars, key, drawn, wire, mode, recovering, confirming, legacy,
                     live, liveVersion, anchor, pass, boundVars>>

-----------------------------------------------------------------------------
(* The server: one operation, based on a version.                           *)

Outcome(id, base) ==
  CASE ~open -> Reply("refused", 0)
    [] open /\ id \in InLedger -> Reply("ack", Sequence(id))
    [] open /\ id \notin InLedger /\ base = Len(ledger) -> Reply("ack", Len(ledger) + 1)
    [] OTHER -> Reply("stale", Len(ledger))

\* The operation is appended if the outcome is a new acknowledgement.
Process(id, base) ==
  /\ ledger' = IF id \notin InLedger /\ Outcome(id, base).kind = "ack"
                 THEN Append(ledger, id) ELSE ledger
  /\ UNCHANGED open

Partner(id) ==
  /\ open
  /\ id \notin InLedger
  /\ ledger' = Append(ledger, id)
  /\ UNCHANGED <<open, storeVars, wire, pageVars, engineVars, boundVars>>

SetOpen(o) ==
  /\ Archives
  /\ open' = o
  /\ UNCHANGED <<ledger, storeVars, wire, pageVars, engineVars, boundVars>>

\* operation.submit arrives with a base the controller worked out: it is
\* committed, or rejected like one that is lost on the way.
WireCommit(id) ==
  /\ id \in wire
  /\ Process(id, Len(ledger))
  /\ wire' = wire \ {id}
  /\ UNCHANGED <<storeVars, pageVars, engineVars, boundVars>>

WireLoss(id) ==
  /\ id \in wire
  /\ wire' = wire \ {id}
  /\ UNCHANGED <<serverVars, storeVars, pageVars, engineVars, boundVars>>

\* submitHttpLegacy: the base is what the drawing engine counts from 0.
\* After an error the operation stays in _legacyQueue, and once there is a
\* SyncEngine nothing reads that queue again.
LegacyPost(t, k) ==
  LET id == legacy[t][k].id
  IN  /\ legacy[t][k].at = "sent"
      /\ Process(id, k - 1)
      /\ legacy' = [legacy EXCEPT ![t][k].at =
                      IF Outcome(id, k - 1).kind = "ack" THEN "gone" ELSE "kept"]
      /\ UNCHANGED <<storeVars, wire, mode, recovering, saving, confirming,
                     live, liveVersion, engineVars, boundVars>>

-----------------------------------------------------------------------------
(* A synchronization pass: _scheduleSync, runSync and pushPending.          *)

Step(t, p) == pass' = [pass EXCEPT ![t] = p]

Current(t) == Head(pass[t].list)

\* triggerSync: the socket opened, or the user pressed Retry.
Trigger(t) ==
  /\ mode[t] # "closed"
  /\ timer' = [timer EXCEPT ![t] = TRUE]
  /\ UNCHANGED <<serverVars, storeVars, wire, pageVars, anchor, pass, phase, count, boundVars>>

\* The timer fires; runSync returns at once while a pass is active.
Fire(t) ==
  /\ timer[t]
  /\ timer' = [timer EXCEPT ![t] = FALSE]
  /\ Step(t, IF pass[t].at = "idle" THEN [Idle EXCEPT !.at = "read"] ELSE pass[t])
  /\ UNCHANGED <<serverVars, storeVars, wire, pageVars, anchor, phase, count, boundVars>>

\* The getter of the controller's version is never installed (mount sets it
\* before initialize has made an engine), so the pass is anchored to what
\* _serverVersion is.
ReadQueue(t) ==
  LET ids == InOrder(Queued)
      list == [k \in DOMAIN ids |-> [id |-> ids[k], retries |-> store[ids[k]].retries]]
  IN  /\ pass[t].at = "read"
      /\ count' = [count EXCEPT ![t] = Len(list)]
      /\ IF list = <<>>
           THEN Step(t, Idle) /\ phase' = [phase EXCEPT ![t] = "synced"]
           ELSE /\ Step(t, [pass[t] EXCEPT !.at = "mark", !.list = list])
                /\ phase' = [phase EXCEPT ![t] = "syncing"]
      /\ UNCHANGED <<serverVars, storeVars, wire, pageVars, anchor, timer, boundVars>>

\* updateOperationStatus(SUBMITTING): the get, and the put if it found a row.
Mark(t) ==
  LET row == store[Current(t).id]
  IN  /\ pass[t].at = "mark"
      /\ Step(t, [pass[t] EXCEPT !.at = IF row = None THEN "post" ELSE "marking",
                                 !.row = row])
      /\ UNCHANGED <<serverVars, storeVars, wire, pageVars, anchor, timer, phase, count,
                     boundVars>>

MarkPut(t) ==
  /\ pass[t].at = "marking"
  /\ store' = [store EXCEPT ![Current(t).id] = [pass[t].row EXCEPT !.status = "SUBMITTING"]]
  /\ Step(t, [pass[t] EXCEPT !.at = "post", !.row = None])
  /\ UNCHANGED <<serverVars, key, drawn, saved, wire, pageVars, anchor, timer, phase, count,
                 boundVars>>

\* submitBatch([envelope]).
Answered(t, reply) == Step(t, [pass[t] EXCEPT !.at = "reply", !.reply = reply])

Post(t) ==
  /\ pass[t].at = "post"
  /\ Process(Current(t).id, anchor[t])
  /\ \/ /\ Answered(t, Outcome(Current(t).id, anchor[t]))
        /\ UNCHANGED faults
     \/ /\ faults < MaxFaults                         \* the answer is lost
        /\ Answered(t, Reply("network", 0))
        /\ faults' = faults + 1
  /\ UNCHANGED <<storeVars, wire, pageVars, anchor, timer, phase, count, trim, gaveUp, opens>>

\* The request is lost, the server fails, or it answers 429.
PostFails(t) ==
  /\ pass[t].at = "post"
  /\ faults < MaxFaults
  /\ faults' = faults + 1
  /\ \E kind \in {"network", "limited"} : Answered(t, Reply(kind, 0))
  /\ UNCHANGED <<serverVars, storeVars, wire, pageVars, anchor, timer, phase, count, trim, gaveUp, opens>>

\* The get of the updateOperationStatus that follows; a 429 has set the
\* timer before it.
Receive(t) ==
  /\ pass[t].at = "reply"
  /\ Step(t, [pass[t] EXCEPT !.at = "settle", !.row = store[Current(t).id]])
  /\ timer' = [timer EXCEPT ![t] = @ \/ pass[t].reply.kind = "limited"]
  /\ UNCHANGED <<serverVars, storeVars, wire, pageVars, anchor, phase, count, boundVars>>

\* Mutant: an operation that is out of retries is confirmed.
SettledConfirmed(row, reply, retries) ==
  CASE reply.kind = "network" /\ retries < MaxRetries ->
         [status |-> "PENDING", retries |-> retries + 1]
    [] reply.kind \in {"stale", "limited"} ->
         [status |-> "PENDING", retries |-> retries + 1]
    [] reply.kind = "refused" -> [status |-> "FAILED", retries |-> retries + 1]
    [] OTHER -> [row EXCEPT !.status = "CONFIRMED"]

\* The row that is put, for the retry_count the pass has read.
Settled(row, reply, retries) ==
  CASE reply.kind = "ack" -> [row EXCEPT !.status = "CONFIRMED"]
    [] reply.kind \in {"stale", "limited"} ->
         [status |-> "PENDING", retries |-> retries + 1]
    [] reply.kind = "network" /\ retries < MaxRetries ->
         [status |-> "PENDING", retries |-> retries + 1]
    [] reply.kind = "network" /\ retries >= MaxRetries ->
         [row EXCEPT !.status = "FAILED"]
    [] reply.kind = "refused" -> [status |-> "FAILED", retries |-> retries + 1]

PutSettled(t) ==
  LET id == Current(t).id
      row == Settled(pass[t].row, pass[t].reply, Current(t).retries)
  IN  IF pass[t].row = None THEN UNCHANGED <<store, gaveUp>>
      ELSE /\ store' = [store EXCEPT ![id] = row]
           /\ gaveUp' = IF row.status = "FAILED" THEN gaveUp \cup {id} ELSE gaveUp

\* The operation that follows in the list, or the end of the list.
NextOperation(p) ==
  [p EXCEPT !.at = IF Len(p.list) > 1 THEN "mark" ELSE "finish",
            !.list = Tail(p.list), !.row = None, !.reply = NoReply]

\* Mutant: the pass breaks off and _active stays set.
BreakActive(p) == [p EXCEPT !.at = "left", !.list = <<>>, !.row = None, !.reply = NoReply]

Break(p) == [p EXCEPT !.at = "finish", !.list = <<>>, !.row = None, !.reply = NoReply]

SettleAck(t) ==
  /\ pass[t].at = "settle"
  /\ pass[t].reply.kind = "ack"
  /\ PutSettled(t)
  /\ anchor' = [anchor EXCEPT ![t] = Adopted(@, pass[t].reply.version)]
  /\ Step(t, [pass[t] EXCEPT !.at = "compact", !.row = None])
  /\ UNCHANGED <<serverVars, key, drawn, saved, wire, pageVars, timer, phase, count, trim, faults, opens>>

\* STALE_VERSION: adopt the version the server names and try again soon.
SettleStale(t) ==
  /\ pass[t].at = "settle"
  /\ pass[t].reply.kind = "stale"
  /\ PutSettled(t)
  /\ anchor' = [anchor EXCEPT ![t] = pass[t].reply.version]
  /\ timer' = [timer EXCEPT ![t] = TRUE]
  /\ Step(t, Break(pass[t]))
  /\ UNCHANGED <<serverVars, key, drawn, saved, wire, pageVars, phase, count, trim, faults, opens>>

\* 429, or no answer: try again later, or give up after MAX_RETRIES.
SettleTransient(t) ==
  LET retry == pass[t].reply.kind = "network" /\ Current(t).retries < MaxRetries
      over == pass[t].reply.kind = "network" /\ Current(t).retries >= MaxRetries
  IN  /\ pass[t].at = "settle"
      /\ pass[t].reply.kind \in {"limited", "network"}
      /\ PutSettled(t)
      /\ timer' = [timer EXCEPT ![t] = @ \/ retry]
      /\ Step(t, [Break(pass[t]) EXCEPT !.failed = @ \/ over])
      /\ UNCHANGED <<serverVars, key, drawn, saved, wire, pageVars, anchor, phase, count,
                     trim, faults, opens>>

\* A permanent rejection: the pass goes on.
SettleRefused(t) ==
  /\ pass[t].at = "settle"
  /\ pass[t].reply.kind = "refused"
  /\ PutSettled(t)
  /\ Step(t, [NextOperation(pass[t]) EXCEPT !.failed = TRUE])
  /\ UNCHANGED <<serverVars, key, drawn, saved, wire, pageVars, anchor, timer, phase, count,
                 trim, faults, opens>>

\* The status rows must have for compaction to delete them.
Compactable(v) == {"CONFIRMED"}

\* compactConfirmedOperations(ack.version).
Compact(t) ==
  LET v == pass[t].reply.version
      gone == {id \in Ids : /\ store[id].status \in Compactable(v)
                            /\ id \in InLedger => Sequence(id) <= v}
  IN  /\ pass[t].at = "compact"
      /\ store' = [id \in Ids |-> IF id \in gone THEN None ELSE store[id]]
      /\ Step(t, NextOperation(pass[t]))
      /\ UNCHANGED <<serverVars, key, drawn, saved, wire, pageVars, anchor, timer, phase,
                     count, boundVars>>

Finish(t) ==
  /\ pass[t].at = "finish"
  /\ phase' = [phase EXCEPT ![t] = IF Queued # {} THEN "pending"
                                   ELSE IF pass[t].failed THEN "error" ELSE "synced"]
  /\ Step(t, Idle)
  /\ UNCHANGED <<serverVars, storeVars, wire, pageVars, anchor, timer, count, boundVars>>

Push(t) ==
  \/ ReadQueue(t) \/ Mark(t) \/ MarkPut(t) \/ Post(t) \/ PostFails(t) \/ Receive(t)
  \/ SettleAck(t) \/ SettleStale(t) \/ SettleTransient(t) \/ SettleRefused(t)
  \/ Compact(t) \/ Finish(t)

-----------------------------------------------------------------------------
(* The live socket.                                                         *)

GoLive(t) ==
  /\ t \in LiveTabs
  /\ mode[t] # "closed"
  /\ ~live[t]
  /\ live' = [live EXCEPT ![t] = TRUE]
  /\ liveVersion' = [liveVersion EXCEPT ![t] = Len(ledger)]
  /\ UNCHANGED <<serverVars, storeVars, wire, mode, recovering, saving, confirming, legacy,
                 engineVars, boundVars>>

GoDown(t) ==
  /\ live[t]
  /\ live' = [live EXCEPT ![t] = FALSE]
  /\ UNCHANGED <<serverVars, storeVars, wire, mode, recovering, saving, confirming, legacy,
                 liveVersion, engineVars, boundVars>>

\* markOperationConfirmed once the put is through.
Confirmed(t, id, rows) ==
  LET left == {i \in Ids : rows[i].status \in Waiting}
  IN  /\ anchor' = [anchor EXCEPT ![t] = Adopted(@, Sequence(id))]
      /\ count' = [count EXCEPT ![t] = Recounted(t, left)]
      /\ phase' = [phase EXCEPT ![t] = IF left = {} THEN "synced" ELSE @]

\* operation.committed arrives; onOperationCommitted looks for the row.  The
\* engine exists, or syncEngine?. drops the call.
Hear(t, id) ==
  /\ live[t]
  /\ id \in InLedger
  /\ liveVersion' = [liveVersion EXCEPT ![t] = Sequence(id)]
  /\ IF id \in Ids /\ store[id] # None
       THEN /\ confirming' = [confirming EXCEPT ![t] = @ \cup {[id |-> id, row |-> store[id]]}]
            /\ UNCHANGED <<anchor, phase, count>>
       ELSE Confirmed(t, id, store) /\ UNCHANGED confirming
  /\ UNCHANGED <<serverVars, storeVars, wire, mode, recovering, saving, legacy, live,
                 timer, pass, boundVars>>

ConfirmPut(t, c) ==
  /\ c \in confirming[t]
  /\ confirming' = [confirming EXCEPT ![t] = @ \ {c}]
  /\ store' = [store EXCEPT ![c.id] = [c.row EXCEPT !.status = "CONFIRMED"]]
  /\ Confirmed(t, c.id, store')
  /\ UNCHANGED <<serverVars, key, drawn, saved, wire, mode, recovering, saving, legacy,
                 live, liveVersion, timer, pass, boundVars>>

-----------------------------------------------------------------------------
(* A page is opened and closed, or its browser dies.                        *)

\* The engine is made and recoverInterrupted reads the rows.
Open(t) ==
  /\ mode[t] = "closed"
  /\ opens < MaxOpens
  /\ opens' = opens + 1
  /\ mode' = [mode EXCEPT ![t] = "booting"]
  /\ recovering' = [recovering EXCEPT ![t] = {id \in Ids : store[id].status = "SUBMITTING"}]
  /\ UNCHANGED <<serverVars, storeVars, wire, saving, confirming, legacy, live, liveVersion,
                 engineVars, trim, gaveUp, faults>>

RecoverRow(t, id) == store' = [store EXCEPT ![id].status = "PENDING"]

\* recoverInterrupted writes them back, one by one.
Recover(t, id) ==
  /\ id \in recovering[t]
  /\ recovering' = [recovering EXCEPT ![t] = @ \ {id}]
  /\ RecoverRow(t, id)
  /\ UNCHANGED <<serverVars, key, drawn, saved, wire, mode, saving, confirming, legacy,
                 live, liveVersion, engineVars, boundVars>>

\* SyncEngine.initialize is through.
Ready(t) ==
  /\ mode[t] = "booting"
  /\ recovering[t] = {}
  /\ mode' = [mode EXCEPT ![t] = "unseeded"]
  /\ count' = [count EXCEPT ![t] = Cardinality(Queued)]
  /\ phase' = [phase EXCEPT ![t] = IF Queued # {} THEN "pending" ELSE @]
  /\ UNCHANGED <<serverVars, storeVars, wire, recovering, saving, confirming, legacy,
                 live, liveVersion, anchor, timer, pass, boundVars>>

\* The rest of SyncManager.initialize: the version of the server's state, or
\* of an older one, or none, and a pass if there is work.
Seed(t) ==
  /\ mode[t] = "unseeded"
  /\ mode' = [mode EXCEPT ![t] = "up"]
  /\ \E v \in 0..Len(ledger) : anchor' = [anchor EXCEPT ![t] = Adopted(@, v)]
  /\ count' = [count EXCEPT ![t] = Cardinality(Queued)]
  /\ timer' = [timer EXCEPT ![t] = @ \/ Queued # {}]
  /\ UNCHANGED <<serverVars, storeVars, wire, recovering, saving, confirming, legacy,
                 live, liveVersion, pass, phase, boundVars>>

\* Everything in memory is gone; requests under way may still arrive.
Crash(t) ==
  /\ mode[t] # "closed"
  /\ mode' = [mode EXCEPT ![t] = "closed"]
  /\ recovering' = [recovering EXCEPT ![t] = {}]
  /\ saving' = [saving EXCEPT ![t] = <<>>]
  /\ confirming' = [confirming EXCEPT ![t] = {}]
  /\ legacy' = [legacy EXCEPT ![t] = <<>>]
  /\ live' = [live EXCEPT ![t] = FALSE]
  /\ liveVersion' = [liveVersion EXCEPT ![t] = 0]
  /\ anchor' = [anchor EXCEPT ![t] = 0]
  /\ timer' = [timer EXCEPT ![t] = FALSE]
  /\ Step(t, Idle)
  /\ phase' = [phase EXCEPT ![t] = "idle"]
  /\ count' = [count EXCEPT ![t] = 0]
  /\ UNCHANGED <<serverVars, storeVars, wire, boundVars>>

\* enforceBoardLimits of a page on another board: this board is the oldest of
\* too many, and it goes if it has no pending rows.
TrimCheck ==
  /\ ManyBoards
  /\ Queued = {}
  /\ trim = "idle"
  /\ trim' = "found"
  /\ UNCHANGED <<serverVars, storeVars, wire, pageVars, engineVars, gaveUp, faults, opens>>

TrimDelete ==
  /\ trim = "found"
  /\ trim' = IF Unacknowledged = {} THEN "idle" ELSE "dropped"
  /\ store' = [id \in Ids |-> None]
  /\ UNCHANGED <<serverVars, key, drawn, saved, wire, pageVars, engineVars, gaveUp, faults, opens>>

User(t) ==
  \/ \E id \in Ids, tick \in Ticks : Draw(t, id, tick) \/ DrawEarly(t, id, tick)
  \/ Trigger(t)

Page(t) ==
  \/ Save(t)
  \/ \E k \in DOMAIN legacy[t] : LegacyPost(t, k)
  \/ Fire(t)
  \/ \E c \in confirming[t] : ConfirmPut(t, c)
  \/ \E id \in recovering[t] : Recover(t, id)
  \/ Ready(t) \/ Seed(t)

Socket(t) ==
  \/ GoLive(t) \/ GoDown(t)
  \/ \E id \in Ids \cup PartnerIds : Hear(t, id)

Next ==
  \/ \E t \in Tabs : User(t) \/ Page(t) \/ Push(t) \/ Socket(t) \/ Open(t) \/ Crash(t)
  \/ \E id \in wire : WireCommit(id) \/ WireLoss(id)
  \/ \E id \in PartnerIds : Partner(id)
  \/ SetOpen(~open)
  \/ TrimCheck \/ TrimDelete

Spec == Init /\ [][Next]_vars

\* Timers fire and promises resolve; a page that can be opened again is.
Fairness ==
  \A t \in Tabs : WF_vars(Page(t)) /\ WF_vars(Push(t)) /\ WF_vars(Open(t))

\* Besides, the connection comes back, or the user presses Retry, again and
\* again.
FairSpec == Spec /\ Fairness

PromptedSpec == FairSpec /\ \A t \in Tabs : WF_vars(Trigger(t))

-----------------------------------------------------------------------------
(* Properties.                                                              *)

Row == [status : {"NONE", "PENDING", "SUBMITTING", "CONFIRMED", "FAILED"}, retries : Nat]

\* Every variable holds a value of its kind.
TypeOK ==
  /\ ledger \in Seq(Ids \cup PartnerIds)
  /\ open \in BOOLEAN
  /\ store \in [Ids -> Row]
  /\ key \in [Ids -> Nat]
  /\ drawn \in Seq(Ids)
  /\ saved \subseteq Ids
  /\ wire \subseteq Ids
  /\ mode \in [Tabs -> {"closed", "booting", "unseeded", "up"}]
  /\ recovering \in [Tabs -> SUBSET Ids]
  /\ saving \in [Tabs -> Seq([id : Ids, push : BOOLEAN])]
  /\ confirming \in [Tabs -> SUBSET [id : Ids, row : Row]]
  /\ legacy \in [Tabs -> Seq([id : Ids, at : {"sent", "kept", "gone"}])]
  /\ live \in [Tabs -> BOOLEAN]
  /\ liveVersion \in [Tabs -> Nat]
  /\ anchor \in [Tabs -> Nat]
  /\ timer \in [Tabs -> BOOLEAN]
  /\ pass \in [Tabs ->
       [at : {"idle", "read", "mark", "marking", "post", "reply", "settle", "compact", "finish"},
        list : Seq([id : Ids, retries : Nat]), row : Row,
        reply : [kind : {"none", "ack", "stale", "refused", "limited", "network"},
                 version : Nat],
        failed : BOOLEAN]]
  /\ phase \in [Tabs -> {"idle", "pending", "syncing", "synced", "error"}]
  /\ count \in [Tabs -> Nat]
  /\ trim \in {"idle", "found", "dropped"} /\ gaveUp \subseteq Ids
  /\ faults \in 0..MaxFaults /\ opens \in 0..MaxOpens

\* An operation whose saveOperation has resolved is never lost: until the
\* ledger has it, its row waits on the device or says FAILED, whatever pages
\* crash, recover, retry, compact or trim at the same time, unless the trim
\* deleted the board with a row that came after it counted, or that had failed.
NothingLost ==
  trim # "dropped" =>
    \A id \in saved : id \notin InLedger => id \in Unacknowledged

\* The operations of the durable queue reach the ledger in the order the
\* user made them, wherever passes break off and pages crash, while the page
\* has no socket that overtakes the queue and as long as none of them fails
\* for good (a failed one can be revived out of its turn by a
\* page that read it as SUBMITTING while it was recovering).
AuthoredOrder ==
  gaveUp = {} => \A j, k \in DOMAIN drawn :
    j < k /\ {drawn[j], drawn[k]} \subseteq saved \cap InLedger
      => Sequence(drawn[j]) < Sequence(drawn[k])

\* The base a pass submits with is never ahead of the board: an operation
\* cannot be refused forever because its device believes in a version that
\* does not exist.
AnchorBehindBoard == \A t \in Tabs : anchor[t] <= Len(ledger)

\* The page says that everything is saved (no pending operation) only when
\* its queue is empty; with one page, no socket and no row dropped by a trim.
SyncedIsTrue ==
  \A t \in Tabs : trim # "dropped" /\ mode[t] = "up" /\ saving[t] = <<>> /\ count[t] = 0 => Queued = {}

\* Every operation on the queue leaves it, acknowledged or failed, if only
\* there is a page and something prompts it now and then.
QueueSettles ==
  ([]<>(\E t \in Tabs : mode[t] = "up"))
    => \A id \in Ids : id \in Queued ~> id \notin Queued
=============================================================================
