-------------------------- MODULE SyncEngine_proofs --------------------------
(***************************************************************************)
(* Proofs about SyncEngine.  For any tabs, sockets, faults and openings:   *)
(* an operation that was saved is not lost, and no base is ahead of the    *)
(* board.  For one tab without a socket: operations reach the ledger in    *)
(* the order the user made them, and what the page says of its queue is    *)
(* true.                                                                   *)
(***************************************************************************)
EXTENDS SyncEngine, SequenceLemmas, FiniteSetTheorems

-----------------------------------------------------------------------------
(* The queue is in an order: getPendingOperations has a result, and it      *)
(* holds each of the operations it was asked for.                           *)

LEMMA BeforeOrders ==
  ASSUME key \in [Ids -> Nat], NEW a \in Ids, NEW b \in Ids
  PROVE  /\ ~Before(a, a)
         /\ a # b => Before(a, b) \/ Before(b, a)
         /\ \A c \in Ids : Before(a, b) /\ Before(b, c) => Before(a, c)
<1>1. /\ a \in Nat /\ b \in Nat /\ key[a] \in Nat /\ key[b] \in Nat
      /\ \A c \in Ids : c \in Nat /\ key[c] \in Nat
  BY SyncIdsAssumption
<1> QED
  BY <1>1 DEF Before

\* What comes before each element of S, and how much that is.
Below(S, x) == {y \in S : Before(y, x)}

LEMMA BelowGrows ==
  ASSUME key \in [Ids -> Nat], NEW S \in SUBSET Ids, IsFiniteSet(S), NEW x \in S
  PROVE  /\ Cardinality(Below(S, x)) \in Nat
         /\ Cardinality(Below(S, x)) + 1 <= Cardinality(S)
         /\ \A y \in S : Before(x, y) =>
              Cardinality(Below(S, x)) + 1 <= Cardinality(Below(S, y))
<1>1. \A y \in S : Below(S, y) \subseteq S /\ y \notin Below(S, y)
  BY BeforeOrders DEF Below
<1>2. \A y \in S : IsFiniteSet(Below(S, y)) /\ Cardinality(Below(S, y)) \in Nat
  BY <1>1, FS_Subset, FS_CardinalityType
<1>3. /\ IsFiniteSet(Below(S, x) \cup {x})
      /\ Cardinality(Below(S, x) \cup {x}) = Cardinality(Below(S, x)) + 1
  BY <1>1, <1>2, FS_AddElement
<1>4. Below(S, x) \cup {x} \subseteq S
  BY <1>1
<1>5. Cardinality(Below(S, x)) + 1 <= Cardinality(S)
  BY <1>3, <1>4, FS_Subset
<1>6. ASSUME NEW y \in S, Before(x, y)
      PROVE  Cardinality(Below(S, x)) + 1 <= Cardinality(Below(S, y))
  <2>1. Below(S, x) \cup {x} \subseteq Below(S, y)
    BY <1>6, BeforeOrders DEF Below
  <2> QED
    BY <1>2, <1>3, <2>1, FS_Subset
<1> QED
  BY <1>2, <1>5, <1>6

\* s holds the elements of S in the order of the queue.
Sorted(S, s) ==
  /\ s \in [1..Cardinality(S) -> S]
  /\ \A j, k \in 1..Cardinality(S) : j < k => Before(s[j], s[k])

LEMMA SortedExists ==
  ASSUME key \in [Ids -> Nat], NEW S \in SUBSET Ids, IsFiniteSet(S)
  PROVE  \E s : Sorted(S, s)
<1> DEFINE n == Cardinality(S)
           rank == [x \in S |-> Cardinality(Below(S, x)) + 1]
<1>0. n \in Nat
  BY FS_CardinalityType
<1>1. /\ rank \in [S -> 1..n]
      /\ \A x, y \in S : Before(x, y) => rank[x] < rank[y]
  <2>1. ASSUME NEW x \in S
        PROVE  /\ rank[x] \in 1..n
               /\ \A y \in S : Before(x, y) => rank[x] < rank[y]
    <3>1. /\ Cardinality(Below(S, x)) \in Nat
          /\ Cardinality(Below(S, x)) + 1 <= n
          /\ \A y \in S : /\ Cardinality(Below(S, y)) \in Nat
                          /\ Before(x, y) => Cardinality(Below(S, x)) + 1 <= Cardinality(Below(S, y))
      BY BelowGrows
    <3> HIDE DEF n
    <3> QED
      BY <1>0, <3>1
  <2> HIDE DEF n
  <2> QED
    BY <2>1
<1> HIDE DEF rank
<1>2. rank \in Injection(S, 1..n)
  <2>1. ASSUME NEW x \in S, NEW y \in S, x # y
        PROVE  rank[x] # rank[y]
    <3>1. Before(x, y) \/ Before(y, x)
      BY <2>1, BeforeOrders
    <3>2. rank[x] \in Nat /\ rank[y] \in Nat
      BY <1>0, <1>1
    <3> QED
      BY <1>1, <3>1, <3>2
  <2> QED
    BY <1>1, <2>1 DEF Injection, IsInjective
<1>3. rank \in Surjection(S, 1..n)
  <2>1. IsFiniteSet(1..n) /\ Cardinality(1..n) = n
    BY <1>0, FS_Interval
  <2> QED
    BY <1>2, <2>1, FS_Injection
<1> DEFINE s == [k \in 1..n |-> CHOOSE x \in S : rank[x] = k]
<1>4. \A k \in 1..n : s[k] \in S /\ rank[s[k]] = k
  BY <1>3 DEF Surjection
<1>5. ASSUME NEW j \in 1..n, NEW k \in 1..n, j < k
      PROVE  Before(s[j], s[k])
  <2>1. /\ s[j] \in S /\ s[k] \in S /\ rank[s[j]] = j /\ rank[s[k]] = k
    BY <1>4
  <2> HIDE DEF s
  <2>2. s[j] # s[k] /\ ~Before(s[k], s[j])
    BY <1>0, <1>1, <1>5, <2>1
  <2> QED
    BY <2>1, <2>2, BeforeOrders
<1>6. s \in [1..n -> S]
  BY <1>4
<1> HIDE DEF s
<1> QED
  BY <1>5, <1>6 DEF Sorted

\* InOrder(S) is such a sequence and leaves out nothing.
LEMMA InOrderSorts ==
  ASSUME key \in [Ids -> Nat], NEW S \in SUBSET Ids, IsFiniteSet(S)
  PROVE  /\ Cardinality(S) \in Nat
         /\ InOrder(S) \in [1..Cardinality(S) -> S]
         /\ \A j, k \in 1..Cardinality(S) : j < k => Before(InOrder(S)[j], InOrder(S)[k])
         /\ \A x \in S : \E k \in 1..Cardinality(S) : InOrder(S)[k] = x
<1> DEFINE n == Cardinality(S)
<1>0. n \in Nat
  BY FS_CardinalityType
<1>1. /\ InOrder(S) \in [1..n -> S]
      /\ \A j, k \in 1..n : j < k => Before(InOrder(S)[j], InOrder(S)[k])
  <2>1. PICK s : Sorted(S, s)
    BY SortedExists
  <2>2. /\ s \in [1..n -> S]
        /\ \A j, k \in DOMAIN s : j < k => Before(s[j], s[k])
    BY <2>1 DEF Sorted
  <2>3. /\ InOrder(S) \in [1..n -> S]
        /\ \A j, k \in DOMAIN InOrder(S) : j < k => Before(InOrder(S)[j], InOrder(S)[k])
    BY <2>2 DEF InOrder
  <2> QED
    BY <2>3
<1> DEFINE s == InOrder(S)
<1> HIDE DEF s
<1>2. s \in Injection(1..n, S)
  <2>1. ASSUME NEW j \in 1..n, NEW k \in 1..n, j # k
        PROVE  s[j] # s[k]
    <3>1. j < k \/ k < j
      BY <1>0, <2>1
    <3>2. Before(s[j], s[k]) \/ Before(s[k], s[j])
      BY <1>1, <3>1 DEF s
    <3>3. s[j] \in Ids /\ s[k] \in Ids
      BY <1>1 DEF s
    <3> QED
      BY <3>2, <3>3, BeforeOrders
  <2> QED
    BY <1>1, <2>1 DEF Injection, IsInjective, s
<1>3. s \in Surjection(1..n, S)
  <2>1. IsFiniteSet(1..n) /\ Cardinality(1..n) = n
    BY <1>0, FS_Interval
  <2> QED
    BY <1>2, <2>1, FS_Injection
<1> QED
  BY <1>0, <1>1, <1>3 DEF Surjection, s

-----------------------------------------------------------------------------
(* Types.  With them go that a pass has an operation while it works, that   *)
(* the queue is finite, which counting it needs, and that only operations   *)
(* of the ledger are confirmed, which the version adopted for them needs.   *)

AllIds == Ids \cup PartnerIds

Working == {"mark", "marking", "post", "reply", "settle", "compact"}

Answers == [kind : {"none", "ack", "stale", "refused", "limited", "network"}, version : Nat]

Listed == [id : Ids, retries : Nat]

Passes ==
  [at : {"idle", "read", "mark", "marking", "post", "reply", "settle", "compact", "finish"},
   list : Seq(Listed), row : Row, reply : Answers, failed : BOOLEAN]

SavingType == [id : Ids, push : BOOLEAN]

LegacyType == [id : Ids, at : {"sent", "kept", "gone"}]

ServerType == ledger \in Seq(AllIds) /\ open \in BOOLEAN

QueueType ==
  /\ store \in [Ids -> Row] /\ key \in [Ids -> Nat]
  /\ drawn \in Seq(Ids) /\ saved \subseteq Ids /\ wire \subseteq Ids

PageType ==
  /\ mode \in [Tabs -> {"closed", "booting", "unseeded", "up"}]
  /\ recovering \in [Tabs -> SUBSET Ids]
  /\ saving \in [Tabs -> Seq(SavingType)]
  /\ confirming \in [Tabs -> SUBSET [id : Ids, row : Row]]
  /\ legacy \in [Tabs -> Seq(LegacyType)]
  /\ live \in [Tabs -> BOOLEAN] /\ liveVersion \in [Tabs -> Nat]

EngineType ==
  /\ anchor \in [Tabs -> Nat] /\ timer \in [Tabs -> BOOLEAN]
  /\ pass \in [Tabs -> Passes]
  /\ phase \in [Tabs -> {"idle", "pending", "syncing", "synced", "error"}]
  /\ count \in [Tabs -> Nat]

BoundType ==
  /\ trim \in {"idle", "found", "dropped"} /\ gaveUp \subseteq Ids
  /\ faults \in 0..MaxFaults /\ opens \in 0..MaxOpens

ShapeInv ==
  /\ \A t \in Tabs : pass[t].at \in Working => pass[t].list # <<>>
  /\ \A t \in Tabs : \A c \in confirming[t] : c.id \in InLedger
  /\ IsFiniteSet(Queued)

TypeInv == ServerType /\ QueueType /\ PageType /\ EngineType /\ BoundType /\ ShapeInv

LEMMA TypeParts == TypeInv => TypeOK
BY DEF TypeInv, TypeOK, ServerType, QueueType, PageType, EngineType, BoundType, AllIds,
       Passes, Answers, Listed, SavingType, LegacyType

LEMMA LedgerFacts ==
  ASSUME ServerType
  PROVE  /\ Len(ledger) \in Nat /\ DOMAIN ledger = 1..Len(ledger)
         /\ InLedger \subseteq AllIds
         /\ \A id \in InLedger : Sequence(id) \in 1..Len(ledger) /\ ledger[Sequence(id)] = id
         /\ \A id \in InLedger : Sequence(id) \in Nat
<1>1. Len(ledger) \in Nat /\ DOMAIN ledger = 1..Len(ledger)
  BY LenProperties DEF ServerType
<1>2. \A k \in 1..Len(ledger) : ledger[k] \in AllIds
  BY ElementOfSeq DEF ServerType
<1>3. ASSUME NEW id \in InLedger
      PROVE  Sequence(id) \in DOMAIN ledger /\ ledger[Sequence(id)] = id
  <2>1. \E k \in DOMAIN ledger : ledger[k] = id
    BY DEF InLedger
  <2> QED
    BY <2>1 DEF Sequence
<1> QED
  BY <1>1, <1>2, <1>3 DEF InLedger

\* The ledger stays as it is, or one new operation follows.
LedgerStep ==
  \/ ledger' = ledger
  \/ \E id \in AllIds : id \notin InLedger /\ ledger' = Append(ledger, id)

LEMMA LedgerKept ==
  ASSUME ServerType, LedgerStep
  PROVE  /\ ledger' \in Seq(AllIds)
         /\ Len(ledger) <= Len(ledger') /\ Len(ledger') \in Nat
         /\ DOMAIN ledger' = 1..Len(ledger')
         /\ \A k \in 1..Len(ledger) : ledger'[k] = ledger[k]
         /\ InLedger \subseteq InLedger'
<1>0. ledger \in Seq(AllIds) /\ Len(ledger) \in Nat /\ DOMAIN ledger = 1..Len(ledger)
  BY LedgerFacts DEF ServerType
<1>1. CASE ledger' = ledger
  BY <1>0, <1>1 DEF InLedger
<1>2. CASE \E id \in AllIds : id \notin InLedger /\ ledger' = Append(ledger, id)
  <2>1. PICK id \in AllIds : ledger' = Append(ledger, id)
    BY <1>2
  <2>2. /\ ledger' \in Seq(AllIds) /\ Len(ledger') = Len(ledger) + 1
        /\ \A k \in 1..Len(ledger) : ledger'[k] = ledger[k]
    BY <1>0, <2>1, AppendProperties
  <2>3. DOMAIN ledger' = 1..Len(ledger')
    BY <2>2, LenProperties
  <2>4. InLedger \subseteq InLedger'
    BY <1>0, <2>2, <2>3 DEF InLedger
  <2> QED
    BY <1>0, <2>2, <2>3, <2>4
<1> QED
  BY <1>1, <1>2 DEF LedgerStep

LEMMA ProcessSteps ==
  ASSUME NEW id \in AllIds, NEW base, Process(id, base)
  PROVE  LedgerStep /\ open' = open
BY DEF Process, LedgerStep

LEMMA OutcomeType ==
  ASSUME ServerType, NEW id, NEW base
  PROVE  /\ Outcome(id, base) \in Answers
         /\ Outcome(id, base).kind \in {"ack", "stale", "refused"}
<1>1. Len(ledger) \in Nat /\ Len(ledger) + 1 \in Nat
  BY LedgerFacts
<1>2. id \in InLedger => Sequence(id) \in Nat
  BY LedgerFacts
<1>3. open \in BOOLEAN
  BY DEF ServerType
<1>4. CASE ~open
  BY <1>4 DEF Outcome, Reply, Answers
<1>5. CASE open /\ id \in InLedger
  BY <1>2, <1>5 DEF Outcome, Reply, Answers
<1>6. CASE open /\ id \notin InLedger /\ base = Len(ledger)
  BY <1>1, <1>6 DEF Outcome, Reply, Answers
<1>7. CASE open /\ id \notin InLedger /\ base # Len(ledger)
  BY <1>1, <1>7 DEF Outcome, Reply, Answers
<1> QED
  BY <1>3, <1>4, <1>5, <1>6, <1>7

LEMMA RowTypes == None \in Row /\ Pending \in Row
BY DEF None, Pending, Row

\* A step that changes one row keeps the queue finite.
LEMMA QueuedFinite ==
  ASSUME IsFiniteSet(Queued), NEW x,
         \A i \in Ids : i # x /\ store'[i].status \in Waiting => store[i].status \in Waiting
  PROVE  IsFiniteSet(Queued')
<1>1. IsFiniteSet(Queued \cup {x})
  BY FS_AddElement
<1>2. Queued' \subseteq Queued \cup {x}
  BY DEF Queued
<1> QED
  BY <1>1, <1>2, FS_Subset

\* What the confirmed operations need is kept as the ledger grows.
LEMMA ConfirmingKept ==
  ASSUME ServerType, LedgerStep, ShapeInv,
         \A t \in Tabs : confirming'[t] \subseteq confirming[t]
  PROVE  \A t \in Tabs : \A c \in confirming'[t] : c.id \in InLedger'
BY LedgerKept DEF ShapeInv

LEMMA TypeInit == Init => TypeInv
<1> SUFFICES ASSUME Init PROVE TypeInv
  OBVIOUS
<1>1. /\ <<>> \in Seq(AllIds) /\ <<>> \in Seq(Ids) /\ <<>> \in Seq(SavingType)
      /\ <<>> \in Seq(LegacyType) /\ <<>> \in Seq(Listed)
  BY EmptySeq
<1>2. Idle \in Passes /\ Idle.at = "idle"
  BY <1>1, RowTypes DEF Idle, Passes, Answers, NoReply
<1>3. ServerType /\ QueueType /\ PageType /\ EngineType
  BY <1>1, <1>2, RowTypes DEF Init, ServerType, QueueType, PageType, EngineType
<1>4. BoundType
  BY BoundsAssumption DEF Init, BoundType
<1>5. Queued = {}
  BY DEF Init, Queued, Waiting, None
<1>6. ShapeInv
  BY <1>2, <1>5, FS_EmptySet DEF Init, ShapeInv, Working
<1> QED
  BY <1>3, <1>4, <1>6 DEF TypeInv

\* The user's steps.
LEMMA AuthorType ==
  ASSUME TypeInv, NEW t \in Tabs, NEW id \in Ids, NEW tick \in Ticks, Author(t, id, tick)
  PROVE  /\ key' \in [Ids -> Nat] /\ drawn' \in Seq(Ids) /\ wire' \subseteq Ids
         /\ UNCHANGED <<serverVars, store, saved, mode, recovering, confirming,
                        live, liveVersion, anchor, timer, pass, count, boundVars>>
<1> USE DEF TypeInv
<1>1. ClientSequence(tick) \in Nat
  <2>1. tick \in Nat
    BY TicksAssumption
  <2>2. CASE drawn = <<>>
    BY <2>1, <2>2 DEF ClientSequence
  <2>3. CASE drawn # <<>>
    <3>1. Len(drawn) \in 1..Len(drawn)
      BY <2>3, EmptySeq, LenProperties DEF QueueType
    <3>2. drawn[Len(drawn)] \in Ids
      BY <3>1, ElementOfSeq DEF QueueType
    <3> QED
      BY <2>1, <2>3, <3>2 DEF ClientSequence, QueueType
  <2> QED
    BY <2>2, <2>3
<1>2. Append(drawn, id) \in Seq(Ids)
  BY AppendProperties DEF QueueType
<1> QED
  BY <1>1, <1>2 DEF Author, QueueType

LEMMA UserType ==
  ASSUME TypeInv, NEW t \in Tabs, User(t)
  PROVE  TypeInv'
<1> USE DEF TypeInv, serverVars, storeVars, pageVars, engineVars, boundVars
<1>1. ASSUME NEW id \in Ids, NEW tick \in Ticks, Draw(t, id, tick) \/ DrawEarly(t, id, tick)
      PROVE  TypeInv'
  <2>1. /\ key' \in [Ids -> Nat] /\ drawn' \in Seq(Ids) /\ wire' \subseteq Ids
        /\ UNCHANGED <<serverVars, store, saved, mode, recovering, confirming,
                       live, liveVersion, anchor, timer, pass, count, boundVars>>
    BY <1>1, AuthorType DEF Draw, DrawEarly
  <2>2. saving' \in [Tabs -> Seq(SavingType)] /\ legacy' \in [Tabs -> Seq(LegacyType)]
    <3>1. [id |-> id, push |-> ~live[t]] \in SavingType
      BY DEF SavingType, PageType
    <3>2. Append(saving[t], [id |-> id, push |-> ~live[t]]) \in Seq(SavingType)
      BY <3>1, AppendProperties DEF PageType
    <3>3. [id |-> id, at |-> "sent"] \in LegacyType
      BY DEF LegacyType
    <3>4. Append(legacy[t], [id |-> id, at |-> "sent"]) \in Seq(LegacyType)
      BY <3>3, AppendProperties DEF PageType
    <3>5. CASE Draw(t, id, tick)
      BY <3>2, <3>5 DEF Draw, PageType
    <3>6. CASE DrawEarly(t, id, tick)
      BY <3>4, <3>6 DEF DrawEarly, PageType
    <3> QED
      BY <1>1, <3>5, <3>6
  <2>3. phase' \in [Tabs -> {"idle", "pending", "syncing", "synced", "error"}]
    BY <1>1 DEF Draw, DrawEarly, EngineType
  <2>4. ServerType' /\ QueueType' /\ PageType' /\ EngineType' /\ BoundType'
    BY <2>1, <2>2, <2>3 DEF ServerType, QueueType, PageType, EngineType, BoundType
  <2>5. ShapeInv'
    BY <2>1 DEF ShapeInv, InLedger, Queued
  <2> QED
    BY <2>4, <2>5
<1>2. CASE Trigger(t)
  <2>1. ServerType' /\ QueueType' /\ PageType' /\ EngineType' /\ BoundType'
    BY <1>2 DEF Trigger, ServerType, QueueType, PageType, EngineType, BoundType
  <2>2. ShapeInv'
    BY <1>2 DEF Trigger, ShapeInv, InLedger, Queued
  <2> QED
    BY <2>1, <2>2
<1> QED
  BY <1>1, <1>2 DEF User

\* The server's steps, and the messages on the wire.
LEMMA ServerStepType ==
  ASSUME TypeInv,
         \/ \E id \in wire : WireCommit(id) \/ WireLoss(id)
         \/ \E id \in PartnerIds : Partner(id)
         \/ SetOpen(~open)
  PROVE  TypeInv'
<1> USE DEF TypeInv, serverVars, storeVars, pageVars, engineVars, boundVars
<1>1. /\ LedgerStep
      /\ open' \in BOOLEAN /\ wire' \subseteq wire
      /\ UNCHANGED <<storeVars, pageVars, engineVars, boundVars>>
  <2>1. ASSUME NEW id \in wire, WireCommit(id)
        PROVE  LedgerStep /\ open' = open
    <3>1. id \in AllIds /\ Process(id, Len(ledger))
      BY <2>1 DEF WireCommit, QueueType, AllIds
    <3> QED
      BY <3>1, ProcessSteps
  <2>2. ASSUME NEW id \in PartnerIds, Partner(id)
        PROVE  LedgerStep /\ open' = open
    BY <2>2 DEF Partner, LedgerStep, AllIds
  <2> QED
    BY <2>1, <2>2 DEF WireCommit, WireLoss, Partner, SetOpen, LedgerStep, ServerType
<1>2. ServerType' /\ QueueType' /\ PageType' /\ EngineType' /\ BoundType'
  BY <1>1, LedgerKept DEF ServerType, QueueType, PageType, EngineType, BoundType
<1>3. \A t \in Tabs : \A c \in confirming'[t] : c.id \in InLedger'
  BY <1>1, ConfirmingKept
<1>4. ShapeInv'
  BY <1>1, <1>3 DEF ShapeInv, Queued
<1> QED
  BY <1>2, <1>4

\* Counting what is left of the queue gives a number.
LEMMA CountType ==
  ASSUME TypeInv, NEW t \in Tabs, NEW S, IsFiniteSet(S)
  PROVE  Recounted(t, S) \in Nat /\ Cardinality(S) \in Nat
BY FS_CardinalityType DEF Recounted

LEMMA SaveType ==
  ASSUME TypeInv, NEW t \in Tabs, Save(t)
  PROVE  TypeInv'
<1> USE DEF TypeInv, serverVars, storeVars, pageVars, engineVars, boundVars
<1>1. /\ saving[t] # <<>>
      /\ saving' = [saving EXCEPT ![t] = Tail(saving[t])]
      /\ store' = [store EXCEPT ![Head(saving[t]).id] = Pending]
      /\ saved' = saved \cup {Head(saving[t]).id}
      /\ phase' = [phase EXCEPT ![t] = "pending"]
      /\ count' = [count EXCEPT ![t] = Recounted(t, Queued \cup {Head(saving[t]).id})]
      /\ timer' = [timer EXCEPT ![t] = timer[t] \/ Head(saving[t]).push]
      /\ UNCHANGED <<serverVars, key, drawn, wire, mode, recovering, confirming, legacy,
                     live, liveVersion, anchor, pass, boundVars>>
  BY DEF Save
<1>2. Head(saving[t]) \in SavingType /\ Tail(saving[t]) \in Seq(SavingType)
  BY <1>1, HeadTailProperties DEF PageType
<1>3. Head(saving[t]).id \in Ids /\ Head(saving[t]).push \in BOOLEAN
  BY <1>2 DEF SavingType
<1>4. IsFiniteSet(Queued \cup {Head(saving[t]).id})
  BY FS_AddElement DEF ShapeInv
<1>5. count' \in [Tabs -> Nat]
  BY <1>1, <1>4, CountType DEF EngineType
<1>6. QueueType'
  BY <1>1, <1>3, RowTypes DEF QueueType
<1>7. ServerType' /\ PageType' /\ BoundType'
  BY <1>1, <1>2 DEF ServerType, PageType, BoundType
<1>8. timer' \in [Tabs -> BOOLEAN]
  BY <1>1, <1>3 DEF EngineType
<1>9. EngineType'
  BY <1>1, <1>5, <1>8 DEF EngineType
<1>10. IsFiniteSet(Queued')
  BY <1>1, QueuedFinite DEF ShapeInv, QueueType
<1>11. ShapeInv'
  BY <1>1, <1>10 DEF ShapeInv, InLedger
<1> QED
  BY <1>6, <1>7, <1>9, <1>11

LEMMA LegacyPostType ==
  ASSUME TypeInv, NEW t \in Tabs, NEW k \in DOMAIN legacy[t], LegacyPost(t, k)
  PROVE  TypeInv'
<1> USE DEF TypeInv, serverVars, storeVars, pageVars, engineVars, boundVars
<1>1. PICK kept \in {"gone", "kept"} :
        legacy' = [legacy EXCEPT ![t][k].at = kept]
  BY DEF LegacyPost
<1>2. legacy[t] \in Seq(LegacyType) /\ k \in 1..Len(legacy[t])
  BY LenProperties DEF PageType
<1>3. legacy[t][k] \in LegacyType
  BY <1>2, ElementOfSeq
<1>4. [legacy[t][k] EXCEPT !.at = kept] \in LegacyType
  BY <1>3 DEF LegacyType
<1>5. [legacy[t] EXCEPT ![k] = [legacy[t][k] EXCEPT !.at = kept]] \in Seq(LegacyType)
  BY <1>2, <1>4, ExceptSeq
<1>6. legacy' \in [Tabs -> Seq(LegacyType)]
  BY <1>1, <1>5 DEF PageType
<1>7. LedgerStep /\ open' = open
  <2>1. legacy[t][k].id \in AllIds
    BY <1>3 DEF LegacyType, AllIds
  <2> QED
    BY <2>1, ProcessSteps DEF LegacyPost
<1>8. UNCHANGED <<storeVars, wire, mode, recovering, saving, confirming,
                  live, liveVersion, engineVars, boundVars>>
  BY DEF LegacyPost
<1>9. ServerType' /\ QueueType' /\ PageType' /\ EngineType' /\ BoundType'
  BY <1>6, <1>7, <1>8, LedgerKept DEF ServerType, QueueType, PageType, EngineType, BoundType
<1>10. \A u \in Tabs : \A c \in confirming'[u] : c.id \in InLedger'
  BY <1>7, <1>8, ConfirmingKept
<1>11. ShapeInv'
  BY <1>8, <1>10 DEF ShapeInv, Queued
<1> QED
  BY <1>9, <1>11

LEMMA FireType ==
  ASSUME TypeInv, NEW t \in Tabs, Fire(t)
  PROVE  TypeInv'
<1> USE DEF TypeInv, serverVars, storeVars, pageVars, engineVars, boundVars
<1>1. PICK p : /\ pass' = [pass EXCEPT ![t] = p]
               /\ p = pass[t] \/ p = [Idle EXCEPT !.at = "read"]
  BY DEF Fire, Step
<1>2. p \in Passes /\ (p.at \in Working => p.list # <<>>)
  <2>1. [Idle EXCEPT !.at = "read"] \in Passes /\ [Idle EXCEPT !.at = "read"].at = "read"
    BY EmptySeq, RowTypes DEF Idle, Passes, Answers, NoReply
  <2>2. pass[t] \in Passes
    BY DEF EngineType
  <2> QED
    BY <1>1, <2>1, <2>2 DEF ShapeInv, Working
<1>3. ServerType' /\ QueueType' /\ PageType' /\ EngineType' /\ BoundType'
  BY <1>1, <1>2 DEF Fire, ServerType, QueueType, PageType, EngineType, BoundType
<1>4. ShapeInv'
  BY <1>1, <1>2 DEF Fire, ShapeInv, InLedger, Queued, EngineType
<1> QED
  BY <1>3, <1>4

\* Marking an operation as confirmed adopts its place in the ledger.
LEMMA ConfirmedType ==
  ASSUME TypeInv, NEW t \in Tabs, NEW id \in InLedger, NEW rows,
         IsFiniteSet({i \in Ids : rows[i].status \in Waiting}), Confirmed(t, id, rows)
  PROVE  /\ anchor' \in [Tabs -> Nat] /\ count' \in [Tabs -> Nat]
         /\ phase' \in [Tabs -> {"idle", "pending", "syncing", "synced", "error"}]
<1> USE DEF TypeInv
<1>1. Sequence(id) \in Nat
  BY LedgerFacts
<1>2. Adopted(anchor[t], Sequence(id)) \in Nat
  BY <1>1 DEF Adopted, Larger, EngineType
<1>3. Recounted(t, {i \in Ids : rows[i].status \in Waiting}) \in Nat
  BY CountType
<1> QED
  BY <1>2, <1>3 DEF Confirmed, EngineType

LEMMA SocketType ==
  ASSUME TypeInv, NEW t \in Tabs, Socket(t)
  PROVE  TypeInv'
<1> USE DEF TypeInv, serverVars, storeVars, pageVars, engineVars, boundVars
<1>1. CASE GoLive(t) \/ GoDown(t)
  <2>1. ServerType' /\ QueueType' /\ PageType' /\ EngineType' /\ BoundType'
    BY <1>1, LedgerFacts, ZenonT(30)
    DEF GoLive, GoDown, ServerType, QueueType, PageType, EngineType, BoundType
  <2>2. ShapeInv'
    <3>1. UNCHANGED <<ledger, store, pass, confirming>>
      BY <1>1 DEF GoLive, GoDown
    <3>2. InLedger' = InLedger /\ Queued' = Queued
      BY <3>1 DEF InLedger, Queued
    <3> QED
      BY <3>1, <3>2 DEF ShapeInv
  <2> QED
    BY <2>1, <2>2
<1>2. ASSUME NEW id \in Ids \cup PartnerIds, Hear(t, id)
      PROVE  TypeInv'
  <2>1. /\ id \in InLedger
        /\ liveVersion' = [liveVersion EXCEPT ![t] = Sequence(id)]
        /\ UNCHANGED <<serverVars, storeVars, wire, mode, recovering, saving, legacy, live,
                       timer, pass, boundVars>>
    BY <1>2 DEF Hear
  <2>2. /\ anchor' \in [Tabs -> Nat] /\ count' \in [Tabs -> Nat]
        /\ phase' \in [Tabs -> {"idle", "pending", "syncing", "synced", "error"}]
        /\ \/ confirming' = confirming
           \/ id \in Ids /\ confirming' = [confirming EXCEPT ![t] =
                                confirming[t] \cup {[id |-> id, row |-> store[id]]}]
    <3>1. CASE id \in Ids /\ store[id] # None
      BY <1>2, <3>1 DEF Hear, EngineType
    <3>2. CASE ~(id \in Ids /\ store[id] # None)
      <4>1. Confirmed(t, id, store) /\ confirming' = confirming
        BY <1>2, <3>2 DEF Hear
      <4>2. IsFiniteSet({i \in Ids : store[i].status \in Waiting})
        BY DEF ShapeInv, Queued
      <4> QED
        BY <2>1, <4>1, <4>2, ConfirmedType
    <3> QED
      BY <3>1, <3>2
  <2>3. /\ confirming' \in [Tabs -> SUBSET [id : Ids, row : Row]]
        /\ \A u \in Tabs : \A c \in confirming'[u] : c.id \in InLedger
    <3>1. id \in Ids => [id |-> id, row |-> store[id]] \in [id : Ids, row : Row]
      BY DEF QueueType
    <3>2. CASE confirming' = confirming
      BY <3>2 DEF PageType, ShapeInv
    <3>3. CASE id \in Ids /\ confirming' = [confirming EXCEPT ![t] =
                                confirming[t] \cup {[id |-> id, row |-> store[id]]}]
      <4>1. PICK c : c = [id |-> id, row |-> store[id]]
        OBVIOUS
      <4>2. c \in [id : Ids, row : Row] /\ c.id \in InLedger
        BY <2>1, <3>1, <3>3, <4>1
      <4>3. confirming' = [confirming EXCEPT ![t] = confirming[t] \cup {c}]
        BY <3>3, <4>1
      <4> QED
        BY <4>2, <4>3 DEF PageType, ShapeInv
    <3> QED
      BY <2>2, <3>2, <3>3
  <2>4. liveVersion' \in [Tabs -> Nat]
    BY <2>1, LedgerFacts DEF PageType
  <2>5. ServerType' /\ QueueType' /\ PageType' /\ EngineType' /\ BoundType'
    BY <2>1, <2>2, <2>3, <2>4 DEF ServerType, QueueType, PageType, EngineType, BoundType
  <2>6. InLedger' = InLedger /\ Queued' = Queued
    BY <2>1 DEF InLedger, Queued
  <2>7. ShapeInv'
    BY <2>1, <2>3, <2>6 DEF ShapeInv
  <2> QED
    BY <2>5, <2>7
<1> QED
  BY <1>1, <1>2 DEF Socket

LEMMA ConfirmPutType ==
  ASSUME TypeInv, NEW t \in Tabs, NEW c \in confirming[t], ConfirmPut(t, c)
  PROVE  TypeInv'
<1> USE DEF TypeInv, serverVars, storeVars, pageVars, engineVars, boundVars
<1>1. /\ confirming' = [confirming EXCEPT ![t] = confirming[t] \ {c}]
      /\ store' = [store EXCEPT ![c.id] = [c.row EXCEPT !.status = "CONFIRMED"]]
      /\ Confirmed(t, c.id, store')
      /\ UNCHANGED <<serverVars, key, drawn, saved, wire, mode, recovering, saving, legacy,
                     live, liveVersion, timer, pass, boundVars>>
  BY DEF ConfirmPut
<1>2. c \in [id : Ids, row : Row] /\ c.id \in InLedger
  BY DEF PageType, ShapeInv
<1>3. [c.row EXCEPT !.status = "CONFIRMED"] \in Row
  BY <1>2 DEF Row
<1>4. store' \in [Ids -> Row]
  BY <1>1, <1>2, <1>3 DEF QueueType
<1>5. IsFiniteSet(Queued')
  BY <1>1, QueuedFinite DEF ShapeInv, QueueType
<1>6. IsFiniteSet({i \in Ids : store'[i].status \in Waiting})
  BY <1>5 DEF Queued
<1>7. /\ anchor' \in [Tabs -> Nat] /\ count' \in [Tabs -> Nat]
      /\ phase' \in [Tabs -> {"idle", "pending", "syncing", "synced", "error"}]
  BY <1>1, <1>2, <1>6, ConfirmedType
<1>8. ServerType' /\ QueueType' /\ PageType' /\ EngineType' /\ BoundType'
  BY <1>1, <1>4, <1>7 DEF ServerType, QueueType, PageType, EngineType, BoundType
<1>9. \A u \in Tabs : confirming'[u] \subseteq confirming[u]
  BY <1>1 DEF PageType
<1>10. ShapeInv'
  BY <1>1, <1>5, <1>9 DEF ShapeInv, InLedger
<1> QED
  BY <1>8, <1>10

\* Opening a page, up to the pass that follows.
LEMMA BootType ==
  ASSUME TypeInv, NEW t \in Tabs,
         Open(t) \/ (\E id \in recovering[t] : Recover(t, id)) \/ Ready(t) \/ Seed(t)
  PROVE  TypeInv'
<1> USE DEF TypeInv, serverVars, storeVars, pageVars, engineVars, boundVars
<1>1. CASE Open(t)
  <2>1. opens' \in 0..MaxOpens
    BY <1>1, BoundsAssumption DEF Open, BoundType
  <2>2. ServerType' /\ QueueType' /\ PageType' /\ EngineType' /\ BoundType'
    BY <1>1, <2>1 DEF Open, ServerType, QueueType, PageType, EngineType, BoundType
  <2>3. ShapeInv'
    BY <1>1 DEF Open, ShapeInv, InLedger, Queued
  <2> QED
    BY <2>2, <2>3
<1>2. ASSUME NEW id \in recovering[t], Recover(t, id)
      PROVE  TypeInv'
  <2>1. /\ recovering' = [recovering EXCEPT ![t] = recovering[t] \ {id}]
        /\ store' = [store EXCEPT ![id] = [store[id] EXCEPT !.status = "PENDING"]]
        /\ UNCHANGED <<serverVars, key, drawn, saved, wire, mode, saving, confirming, legacy,
                       live, liveVersion, engineVars, boundVars>>
    BY <1>2 DEF Recover, RecoverRow
  <2>2. id \in Ids
    BY DEF PageType
  <2>3. [store[id] EXCEPT !.status = "PENDING"] \in Row
    BY <2>2 DEF QueueType, Row
  <2>4. store' \in [Ids -> Row]
    BY <2>1, <2>2, <2>3 DEF QueueType
  <2>5. ServerType' /\ QueueType' /\ PageType' /\ EngineType' /\ BoundType'
    BY <2>1, <2>4 DEF ServerType, QueueType, PageType, EngineType, BoundType
  <2>6. IsFiniteSet(Queued')
    BY <2>1, QueuedFinite DEF ShapeInv, QueueType
  <2>7. ShapeInv'
    BY <2>1, <2>6 DEF ShapeInv, InLedger
  <2> QED
    BY <2>5, <2>7
<1>3. CASE Ready(t) \/ Seed(t)
  <2>1. Cardinality(Queued) \in Nat
    BY CountType DEF ShapeInv
  <2>2. /\ mode' \in [Tabs -> {"closed", "booting", "unseeded", "up"}]
        /\ count' \in [Tabs -> Nat]
        /\ phase' \in [Tabs -> {"idle", "pending", "syncing", "synced", "error"}]
        /\ timer' \in [Tabs -> BOOLEAN]
        /\ UNCHANGED <<serverVars, storeVars, wire, recovering, saving, confirming, legacy,
                       live, liveVersion, pass, boundVars>>
    <3>1. CASE Ready(t)
      BY <2>1, <3>1 DEF Ready, PageType, EngineType
    <3>2. CASE Seed(t)
      BY <2>1, <3>2 DEF Seed, PageType, EngineType
    <3> QED
      BY <1>3, <3>1, <3>2
  <2>3. anchor' \in [Tabs -> Nat]
    <3>1. CASE Ready(t)
      BY <3>1 DEF Ready, EngineType
    <3>2. CASE Seed(t)
      <4>1. PICK v \in 0..Len(ledger) : anchor' = [anchor EXCEPT ![t] = Adopted(anchor[t], v)]
        BY <3>2 DEF Seed
      <4>2. Adopted(anchor[t], v) \in Nat
        BY <4>1, LedgerFacts DEF Adopted, Larger, EngineType
      <4> QED
        BY <4>1, <4>2 DEF EngineType
    <3> QED
      BY <1>3, <3>1, <3>2
  <2>4. ServerType' /\ QueueType' /\ PageType' /\ EngineType' /\ BoundType'
    BY <2>2, <2>3 DEF ServerType, QueueType, PageType, EngineType, BoundType
  <2>5. InLedger' = InLedger /\ Queued' = Queued
    BY <2>2 DEF InLedger, Queued
  <2>6. ShapeInv'
    BY <2>2, <2>5 DEF ShapeInv
  <2> QED
    BY <2>4, <2>6
<1> QED
  BY <1>1, <1>2, <1>3

LEMMA CrashType ==
  ASSUME TypeInv, NEW t \in Tabs, Crash(t)
  PROVE  TypeInv'
<1> USE DEF TypeInv, serverVars, storeVars, pageVars, engineVars, boundVars
<1>1. <<>> \in Seq(SavingType) /\ <<>> \in Seq(LegacyType) /\ <<>> \in Seq(Listed)
  BY EmptySeq
<1>2. Idle \in Passes /\ Idle.at = "idle"
  BY <1>1, RowTypes DEF Idle, Passes, Answers, NoReply
<1>3. PageType'
  BY <1>1 DEF Crash, PageType
<1>4. EngineType'
  BY <1>2 DEF Crash, Step, EngineType
<1>5. ServerType' /\ QueueType' /\ BoundType'
  BY DEF Crash, ServerType, QueueType, BoundType
<1>6. /\ pass' = [pass EXCEPT ![t] = Idle]
      /\ confirming' = [confirming EXCEPT ![t] = {}]
      /\ InLedger' = InLedger /\ Queued' = Queued
  BY DEF Crash, Step, InLedger, Queued
<1>7. ShapeInv'
  BY <1>2, <1>6 DEF ShapeInv, Working, EngineType, PageType
<1> QED
  BY <1>3, <1>4, <1>5, <1>7

LEMMA TrimType ==
  ASSUME TypeInv, TrimCheck \/ TrimDelete
  PROVE  TypeInv'
<1> USE DEF TypeInv, serverVars, storeVars, pageVars, engineVars, boundVars
<1>1. /\ UNCHANGED <<serverVars, key, drawn, saved, wire, pageVars, engineVars, gaveUp,
                     faults, opens>>
      /\ trim' \in {"idle", "found", "dropped"}
      /\ store' = store \/ store' = [id \in Ids |-> None]
  BY DEF TrimCheck, TrimDelete
<1>2. ServerType' /\ QueueType' /\ PageType' /\ EngineType' /\ BoundType'
  BY <1>1, RowTypes DEF ServerType, QueueType, PageType, EngineType, BoundType
<1>3. Queued' \subseteq Queued
  BY <1>1 DEF Queued, Waiting, None
<1>4. IsFiniteSet(Queued')
  BY <1>3, FS_Subset DEF ShapeInv
<1>5. ShapeInv'
  BY <1>1, <1>4 DEF ShapeInv, InLedger
<1> QED
  BY <1>2, <1>5

\* A pass at work has a current operation.
LEMMA PassFacts ==
  ASSUME TypeInv, NEW t \in Tabs
  PROVE  /\ pass[t] \in Passes
         /\ pass[t].at \in Working =>
              /\ Current(t) \in Listed /\ Current(t).id \in Ids /\ Current(t).retries \in Nat
              /\ Tail(pass[t].list) \in Seq(Listed)
              /\ Len(pass[t].list) > 1 => Tail(pass[t].list) # <<>>
              /\ pass[t].reply \in Answers /\ pass[t].row \in Row
<1>1. pass[t] \in Passes
  BY DEF TypeInv, EngineType
<1>2. ASSUME pass[t].at \in Working
      PROVE  /\ Current(t) \in Listed
             /\ Tail(pass[t].list) \in Seq(Listed)
             /\ Len(pass[t].list) > 1 => Tail(pass[t].list) # <<>>
  <2>1. pass[t].list \in Seq(Listed) /\ pass[t].list # <<>>
    BY <1>1, <1>2 DEF Passes, TypeInv, ShapeInv
  <2>2. Len(pass[t].list) > 1 => Len(Tail(pass[t].list)) # 0
    <3>1. Len(Tail(pass[t].list)) = Len(pass[t].list) - 1
      BY <2>1, HeadTailProperties
    <3>2. Len(pass[t].list) \in Nat
      BY <2>1, LenProperties
    <3>3. \A m \in Nat : m > 1 => m - 1 # 0
      OBVIOUS
    <3> QED
      BY <3>1, <3>2, <3>3
  <2> QED
    BY <2>1, <2>2, HeadTailProperties, EmptySeq DEF Current
<1> QED
  BY <1>1, <1>2 DEF Listed, Passes

\* A step of a pass keeps the types if the pass it leads to has one.
LEMMA StepType ==
  ASSUME TypeInv, NEW t \in Tabs, NEW p \in Passes, p.at \in Working => p.list # <<>>,
         Step(t, p), LedgerStep, confirming' = confirming, IsFiniteSet(Queued')
  PROVE  pass' \in [Tabs -> Passes] /\ ShapeInv' /\ ledger' \in Seq(AllIds)
<1>1. pass' = [pass EXCEPT ![t] = p] /\ pass \in [Tabs -> Passes]
  BY DEF Step, TypeInv, EngineType
<1>2. InLedger \subseteq InLedger' /\ ledger' \in Seq(AllIds)
  BY LedgerKept DEF TypeInv
<1> QED
  BY <1>1, <1>2 DEF ShapeInv, TypeInv

\* The steps that leave the ledger and the rows alone.
LEMMA QuietPushType ==
  ASSUME TypeInv, NEW t \in Tabs,
         ReadQueue(t) \/ Mark(t) \/ PostFails(t) \/ Receive(t) \/ Finish(t)
  PROVE  TypeInv'
<1> USE DEF TypeInv, serverVars, storeVars, pageVars, engineVars, boundVars
<1>0. /\ UNCHANGED <<serverVars, storeVars, wire, pageVars, anchor, trim, gaveUp, opens>>
      /\ LedgerStep /\ confirming' = confirming
  BY DEF ReadQueue, Mark, PostFails, Receive, Finish, LedgerStep
<1>1. Queued' = Queued /\ IsFiniteSet(Queued')
  BY <1>0 DEF Queued, ShapeInv
<1>2. ASSUME NEW p \in Passes, p.at \in Working => p.list # <<>>, Step(t, p),
             /\ timer' \in [Tabs -> BOOLEAN]
             /\ phase' \in [Tabs -> {"idle", "pending", "syncing", "synced", "error"}]
             /\ count' \in [Tabs -> Nat]
             /\ faults' \in 0..MaxFaults
      PROVE  TypeInv'
  <2>1. pass' \in [Tabs -> Passes] /\ ShapeInv'
    BY <1>0, <1>1, <1>2, StepType
  <2>2. ServerType' /\ QueueType' /\ PageType' /\ EngineType' /\ BoundType'
    BY <1>0, <1>2, <2>1 DEF ServerType, QueueType, PageType, EngineType, BoundType
  <2> QED
    BY <2>1, <2>2
<1>3. CASE ReadQueue(t)
  <2> DEFINE ids == InOrder(Queued)
             list == [k \in DOMAIN ids |-> [id |-> ids[k], retries |-> store[ids[k]].retries]]
  <2>1. /\ Cardinality(Queued) \in Nat
        /\ ids \in [1..Cardinality(Queued) -> Queued]
    BY InOrderSorts DEF ShapeInv, QueueType, Queued
  <2>2. list \in Seq(Listed) /\ Len(list) \in Nat
    <3>1. ASSUME NEW k \in DOMAIN ids
          PROVE  [id |-> ids[k], retries |-> store[ids[k]].retries] \in Listed
      <4>1. ids[k] \in Ids
        BY <2>1 DEF Queued
      <4>2. store[ids[k]] \in Row
        BY <4>1 DEF QueueType
      <4> QED
        BY <4>1, <4>2 DEF Listed, Row
    <3>2. list \in [1..Cardinality(Queued) -> Listed]
      BY <2>1, <3>1
    <3> HIDE DEF list
    <3>3. list \in UNION {[1..n -> Listed] : n \in Nat}
      BY <2>1, <3>2
    <3>4. list \in Seq(Listed)
      BY <3>3, SeqDef
    <3> QED
      BY <3>4, LenProperties
  <2>3. /\ count' = [count EXCEPT ![t] = Len(list)]
        /\ \/ Step(t, Idle) /\ phase' = [phase EXCEPT ![t] = "synced"]
           \/ /\ list # <<>>
              /\ Step(t, [pass[t] EXCEPT !.at = "mark", !.list = list])
              /\ phase' = [phase EXCEPT ![t] = "syncing"]
        /\ timer' = timer /\ faults' = faults
    BY <1>3 DEF ReadQueue
  <2> HIDE DEF list
  <2>4. Idle \in Passes /\ Idle.at = "idle"
    BY EmptySeq, RowTypes DEF Idle, Passes, Answers, NoReply
  <2>5. [pass[t] EXCEPT !.at = "mark", !.list = list] \in Passes
    BY <2>2, PassFacts DEF Passes
  <2>6. [pass[t] EXCEPT !.at = "mark", !.list = list].list = list
    BY PassFacts DEF Passes
  <2>7. /\ timer' \in [Tabs -> BOOLEAN]
        /\ phase' \in [Tabs -> {"idle", "pending", "syncing", "synced", "error"}]
        /\ count' \in [Tabs -> Nat]
        /\ faults' \in 0..MaxFaults
    BY <2>2, <2>3 DEF EngineType, BoundType
  <2> QED
    BY <1>2, <2>3, <2>4, <2>5, <2>6, <2>7 DEF Working
<1>4. CASE Mark(t)
  <2>1. PICK p : /\ Step(t, p)
                 /\ p = [pass[t] EXCEPT !.at = IF store[Current(t).id] = None THEN "post"
                                               ELSE "marking",
                                        !.row = store[Current(t).id]]
    BY <1>4 DEF Mark
  <2>2. pass[t].at \in Working
    BY <1>4 DEF Mark, Working
  <2>3. store[Current(t).id] \in Row
    BY <2>2, PassFacts DEF QueueType
  <2>4. p \in Passes /\ p.list = pass[t].list
    BY <2>1, <2>3, PassFacts DEF Passes
  <2>5. p.list # <<>>
    BY <2>2, <2>4 DEF ShapeInv
  <2> QED
    BY <1>2, <1>4, <2>1, <2>4, <2>5 DEF Mark, EngineType, BoundType
<1>5. CASE PostFails(t)
  <2>1. PICK kind \in {"network", "limited"} : Answered(t, Reply(kind, 0))
    BY <1>5 DEF PostFails
  <2>2. PICK p : Step(t, p) /\ p = [pass[t] EXCEPT !.at = "reply", !.reply = Reply(kind, 0)]
    BY <2>1 DEF Answered
  <2>3. p \in Passes /\ p.list = pass[t].list
    BY <2>2, PassFacts DEF Passes, Reply, Answers
  <2>4. p.list # <<>>
    BY <1>5, <2>3 DEF PostFails, ShapeInv, Working
  <2>5. faults' \in 0..MaxFaults
    BY <1>5, BoundsAssumption DEF PostFails, BoundType
  <2> QED
    BY <1>2, <1>5, <2>2, <2>3, <2>4, <2>5 DEF PostFails, EngineType
<1>6. CASE Receive(t)
  <2>1. PICK p : /\ Step(t, p)
                 /\ p = [pass[t] EXCEPT !.at = "settle", !.row = store[Current(t).id]]
    BY <1>6 DEF Receive
  <2>2. pass[t].at \in Working
    BY <1>6 DEF Receive, Working
  <2>3. store[Current(t).id] \in Row
    BY <2>2, PassFacts DEF QueueType
  <2>4. p \in Passes /\ p.list = pass[t].list
    BY <2>1, <2>3, PassFacts DEF Passes
  <2>5. p.list # <<>>
    BY <2>2, <2>4 DEF ShapeInv
  <2> QED
    BY <1>2, <1>6, <2>1, <2>4, <2>5 DEF Receive, EngineType, BoundType
<1>7. CASE Finish(t)
  <2>1. Idle \in Passes /\ Idle.at = "idle"
    BY EmptySeq, RowTypes DEF Idle, Passes, Answers, NoReply
  <2> QED
    BY <1>2, <1>7, <2>1 DEF Finish, EngineType, BoundType, Working
<1> QED
  BY <1>3, <1>4, <1>5, <1>6, <1>7

LEMMA PostType ==
  ASSUME TypeInv, NEW t \in Tabs, Post(t)
  PROVE  TypeInv'
<1> USE DEF TypeInv, serverVars, storeVars, pageVars, engineVars, boundVars
<1>1. PICK reply :
        /\ Answered(t, reply)
        /\ \/ reply = Outcome(Current(t).id, anchor[t]) /\ faults' = faults
           \/ reply = Reply("network", 0) /\ faults < MaxFaults /\ faults' = faults + 1
  BY DEF Post
<1>2. reply \in Answers /\ faults' \in 0..MaxFaults
  <2>1. Outcome(Current(t).id, anchor[t]) \in Answers /\ Reply("network", 0) \in Answers
    BY OutcomeType DEF Reply, Answers
  <2>2. faults \in 0..MaxFaults /\ MaxFaults \in Nat
    BY BoundsAssumption DEF BoundType
  <2> QED
    BY <1>1, <2>1, <2>2
<1>3. PICK p : Step(t, p) /\ p = [pass[t] EXCEPT !.at = "reply", !.reply = reply]
  BY <1>1 DEF Answered
<1>4. p \in Passes /\ p.list = pass[t].list
  BY <1>2, <1>3, PassFacts DEF Passes
<1>5. pass[t].at \in Working /\ p.list # <<>>
  BY <1>4 DEF Post, ShapeInv, Working
<1>6. LedgerStep /\ open' = open
  <2>1. Current(t).id \in AllIds
    BY <1>5, PassFacts DEF AllIds
  <2> QED
    BY <2>1, ProcessSteps DEF Post
<1>7. UNCHANGED <<storeVars, wire, pageVars, anchor, timer, phase, count, trim, gaveUp, opens>>
  BY DEF Post
<1>8. IsFiniteSet(Queued') /\ confirming' = confirming
  BY <1>7 DEF Queued, ShapeInv
<1>9. pass' \in [Tabs -> Passes] /\ ShapeInv' /\ ledger' \in Seq(AllIds)
  BY <1>3, <1>4, <1>5, <1>6, <1>8, StepType
<1>10. ServerType' /\ QueueType' /\ PageType' /\ EngineType' /\ BoundType'
  BY <1>2, <1>6, <1>7, <1>9 DEF ServerType, QueueType, PageType, EngineType, BoundType
<1> QED
  BY <1>9, <1>10

\* The row that is settled is a row, and a row that was found is put back.
LEMMA SettledType ==
  ASSUME NEW row \in Row, NEW reply \in Answers, NEW retries \in Nat, reply.kind # "none"
  PROVE  /\ Settled(row, reply, retries) \in Row
         /\ Settled(row, reply, retries).status \in {"CONFIRMED", "PENDING", "FAILED"}
         /\ Settled(row, reply, retries).status = "CONFIRMED" <=> reply.kind = "ack"
         /\ reply.kind = "refused" => Settled(row, reply, retries).status = "FAILED"
<1>1. retries + 1 \in Nat /\ (retries < MaxRetries \/ retries >= MaxRetries)
  BY BoundsAssumption
<1>2. CASE reply.kind = "ack"
  BY <1>2 DEF Settled, Row
<1>3. CASE reply.kind \in {"stale", "limited"}
  BY <1>1, <1>3 DEF Settled, Row
<1>4. CASE reply.kind = "network" /\ retries < MaxRetries
  BY <1>1, <1>4 DEF Settled, Row
<1>5. CASE reply.kind = "network" /\ retries >= MaxRetries
  <2>1. ~(retries < MaxRetries)
    BY <1>5, BoundsAssumption
  <2> QED
    BY <1>5, <2>1 DEF Settled, Row
<1>6. CASE reply.kind = "refused"
  BY <1>1, <1>6 DEF Settled, Row
<1> QED
  BY <1>1, <1>2, <1>3, <1>4, <1>5, <1>6 DEF Answers

\* What PutSettled does to the rows: at most the current one changes, and it
\* is confirmed only by an acknowledgement.
LEMMA PutSettledFacts ==
  ASSUME TypeInv, NEW t \in Tabs, pass[t].at = "settle", pass[t].reply.kind # "none",
         PutSettled(t)
  PROVE  /\ store' \in [Ids -> Row] /\ gaveUp' \subseteq Ids /\ gaveUp \subseteq gaveUp'
         /\ \A i \in Ids : i # Current(t).id => store'[i] = store[i]
         /\ pass[t].row = None => store' = store
         /\ pass[t].row # None =>
              /\ store'[Current(t).id].status \in {"CONFIRMED", "PENDING", "FAILED"}
              /\ store'[Current(t).id].status = "CONFIRMED" <=> pass[t].reply.kind = "ack"
              /\ store'[Current(t).id].status = "FAILED" => Current(t).id \in gaveUp'
              /\ pass[t].reply.kind = "refused" => store'[Current(t).id].status = "FAILED"
<1> DEFINE row == Settled(pass[t].row, pass[t].reply, Current(t).retries)
<1>1. /\ Current(t).id \in Ids /\ Current(t).retries \in Nat
      /\ pass[t].reply \in Answers /\ pass[t].row \in Row
  BY PassFacts DEF Working
<1>2. /\ row \in Row /\ row.status \in {"CONFIRMED", "PENDING", "FAILED"}
      /\ row.status = "CONFIRMED" <=> pass[t].reply.kind = "ack"
      /\ pass[t].reply.kind = "refused" => row.status = "FAILED"
  BY <1>1, SettledType
<1>3. store \in [Ids -> Row] /\ gaveUp \subseteq Ids
  BY DEF TypeInv, QueueType, BoundType
<1>4. IF pass[t].row = None THEN store' = store /\ gaveUp' = gaveUp
      ELSE /\ store' = [store EXCEPT ![Current(t).id] = row]
           /\ gaveUp' = IF row.status = "FAILED" THEN gaveUp \cup {Current(t).id} ELSE gaveUp
  BY DEF PutSettled
<1> HIDE DEF row
<1> QED
  BY <1>1, <1>2, <1>3, <1>4

\* The passes a settled operation leads to.
LEMMA NextOperationType ==
  ASSUME TypeInv, NEW t \in Tabs, pass[t].at \in Working
  PROVE  /\ NextOperation(pass[t]) \in Passes /\ Break(pass[t]) \in Passes
         /\ NextOperation(pass[t]).at \in {"mark", "finish"}
         /\ NextOperation(pass[t]).at = "mark" => Tail(pass[t].list) # <<>>
         /\ NextOperation(pass[t]).list = Tail(pass[t].list)
         /\ Break(pass[t]).at = "finish" /\ Break(pass[t]).list = <<>>
<1>1. /\ pass[t] \in Passes /\ Tail(pass[t].list) \in Seq(Listed)
      /\ Len(pass[t].list) > 1 => Tail(pass[t].list) # <<>>
  BY PassFacts
<1>2. <<>> \in Seq(Listed)
  BY EmptySeq
<1>3. NoReply \in Answers /\ None \in Row
  BY RowTypes DEF NoReply, Answers
<1> QED
  BY <1>1, <1>2, <1>3 DEF NextOperation, Break, Passes

Settle(t) == SettleAck(t) \/ SettleStale(t) \/ SettleTransient(t) \/ SettleRefused(t)

\* What the four ways to settle an operation have in common.
LEMMA SettleFacts ==
  ASSUME TypeInv, NEW t \in Tabs, Settle(t)
  PROVE  /\ pass[t].at = "settle" /\ pass[t].reply.kind # "none" /\ PutSettled(t)
         /\ UNCHANGED <<serverVars, key, drawn, saved, wire, pageVars, phase, count, trim,
                        faults, opens>>
         /\ timer' \in [Tabs -> BOOLEAN]
<1> USE DEF TypeInv, serverVars, storeVars, pageVars, engineVars, boundVars
<1>1. CASE SettleAck(t)
  BY <1>1 DEF SettleAck, EngineType
<1>2. CASE SettleStale(t)
  BY <1>2 DEF SettleStale, EngineType
<1>3. CASE SettleTransient(t)
  BY <1>3 DEF SettleTransient, EngineType
<1>4. CASE SettleRefused(t)
  BY <1>4 DEF SettleRefused, EngineType
<1> QED
  BY <1>1, <1>2, <1>3, <1>4 DEF Settle

LEMMA SettleType ==
  ASSUME TypeInv, NEW t \in Tabs, Settle(t)
  PROVE  TypeInv'
<1> USE DEF TypeInv, serverVars, storeVars, pageVars, engineVars, boundVars
<1>1. /\ pass[t].at = "settle" /\ pass[t].reply.kind # "none" /\ PutSettled(t)
      /\ UNCHANGED <<serverVars, key, drawn, saved, wire, pageVars, phase, count, trim,
                     faults, opens>>
      /\ timer' \in [Tabs -> BOOLEAN]
  BY SettleFacts
<1>2. /\ store' \in [Ids -> Row] /\ gaveUp' \subseteq Ids
      /\ \A i \in Ids : i # Current(t).id => store'[i] = store[i]
  BY <1>1, PutSettledFacts
<1>3. IsFiniteSet(Queued') /\ LedgerStep /\ confirming' = confirming
  BY <1>1, <1>2, QueuedFinite DEF ShapeInv, LedgerStep
<1>4. /\ pass[t] \in Passes /\ pass[t].at \in Working /\ pass[t].list # <<>>
      /\ pass[t].reply.version \in Nat
  BY <1>1, PassFacts DEF Working, ShapeInv, Passes, Answers
<1>5. /\ NextOperation(pass[t]) \in Passes /\ Break(pass[t]) \in Passes
      /\ NextOperation(pass[t]).at \in {"mark", "finish"}
      /\ NextOperation(pass[t]).at = "mark" => Tail(pass[t].list) # <<>>
      /\ NextOperation(pass[t]).list = Tail(pass[t].list)
      /\ Break(pass[t]).at = "finish"
  BY <1>4, NextOperationType
<1>6. PICK p : Step(t, p) /\ p \in Passes /\ (p.at \in Working => p.list # <<>>)
  <2>1. CASE SettleAck(t)
    <3>1. PICK p : Step(t, p) /\ p = [pass[t] EXCEPT !.at = "compact", !.row = None]
      BY <2>1 DEF SettleAck
    <3>2. p \in Passes /\ p.list = pass[t].list
      BY <1>4, <3>1, RowTypes DEF Passes
    <3> QED
      BY <1>4, <3>1, <3>2
  <2>2. CASE SettleStale(t)
    BY <1>5, <2>2 DEF SettleStale, Working
  <2>3. CASE SettleTransient(t)
    <3>1. PICK b \in BOOLEAN : Step(t, [Break(pass[t]) EXCEPT !.failed = b])
      <4>1. Break(pass[t]).failed \in BOOLEAN
        BY <1>5 DEF Passes
      <4> QED
        BY <2>3, <4>1 DEF SettleTransient
    <3>2. PICK p : p = [Break(pass[t]) EXCEPT !.failed = b]
      OBVIOUS
    <3>3. p \in Passes /\ p.at = "finish"
      BY <1>5, <3>2 DEF Passes
    <3> QED
      BY <3>1, <3>2, <3>3 DEF Working
  <2>4. CASE SettleRefused(t)
    <3>1. PICK p : Step(t, p) /\ p = [NextOperation(pass[t]) EXCEPT !.failed = TRUE]
      BY <2>4 DEF SettleRefused
    <3>2. /\ p \in Passes /\ p.at = NextOperation(pass[t]).at
          /\ p.list = Tail(pass[t].list)
      BY <1>5, <3>1 DEF Passes
    <3> QED
      BY <1>5, <3>1, <3>2 DEF Working
  <2> QED
    BY <2>1, <2>2, <2>3, <2>4 DEF Settle
<1>7. pass' \in [Tabs -> Passes] /\ ShapeInv'
  BY <1>3, <1>6, StepType
<1>8. anchor' \in [Tabs -> Nat]
  <2>1. Adopted(anchor[t], pass[t].reply.version) \in Nat
    BY <1>4 DEF Adopted, Larger, EngineType
  <2> QED
    BY <1>4, <2>1 DEF Settle, SettleAck, SettleStale, SettleTransient, SettleRefused, EngineType
<1>9. ServerType' /\ QueueType' /\ PageType' /\ EngineType' /\ BoundType'
  BY <1>1, <1>2, <1>7, <1>8 DEF ServerType, QueueType, PageType, EngineType, BoundType
<1> QED
  BY <1>7, <1>9

LEMMA RowsType ==
  ASSUME TypeInv, NEW t \in Tabs, MarkPut(t) \/ Compact(t)
  PROVE  TypeInv'
<1> USE DEF TypeInv, serverVars, storeVars, pageVars, engineVars, boundVars
<1>1. /\ UNCHANGED <<serverVars, key, drawn, saved, wire, pageVars, anchor, timer, phase,
                     count, boundVars>>
      /\ pass[t].at \in Working /\ LedgerStep /\ confirming' = confirming
  BY DEF MarkPut, Compact, Working, LedgerStep
<1>2. /\ pass[t] \in Passes /\ pass[t].list # <<>> /\ Current(t).id \in Ids
      /\ pass[t].row \in Row
  BY <1>1, PassFacts DEF ShapeInv, Passes
<1>3. store' \in [Ids -> Row] /\ IsFiniteSet(Queued')
  <2>1. CASE MarkPut(t)
    <3>1. store' = [store EXCEPT ![Current(t).id] = [pass[t].row EXCEPT !.status = "SUBMITTING"]]
      BY <2>1 DEF MarkPut
    <3>2. [pass[t].row EXCEPT !.status = "SUBMITTING"] \in Row
      BY <1>2 DEF Row
    <3>3. \A i \in Ids : i # Current(t).id => store'[i] = store[i]
      BY <3>1 DEF QueueType
    <3> QED
      BY <1>2, <3>1, <3>2, <3>3, QueuedFinite DEF QueueType, ShapeInv
  <2>2. CASE Compact(t)
    <3>1. PICK gone : store' = [id \in Ids |-> IF id \in gone THEN None ELSE store[id]]
      BY <2>2 DEF Compact
    <3>2. Queued' \subseteq Queued
      BY <3>1 DEF Queued, Waiting, None
    <3>3. IsFiniteSet(Queued')
      BY <3>2, FS_Subset DEF ShapeInv
    <3> QED
      BY <3>1, <3>3, RowTypes DEF QueueType
  <2> QED
    BY <2>1, <2>2
<1>4. PICK p : Step(t, p) /\ p \in Passes /\ (p.at \in Working => p.list # <<>>)
  <2>1. CASE MarkPut(t)
    <3>1. PICK p : Step(t, p) /\ p = [pass[t] EXCEPT !.at = "post", !.row = None]
      BY <2>1 DEF MarkPut
    <3>2. p \in Passes /\ p.list = pass[t].list
      BY <1>2, <3>1, RowTypes DEF Passes
    <3> QED
      BY <1>2, <3>1, <3>2
  <2>2. CASE Compact(t)
    BY <1>1, <2>2, NextOperationType DEF Compact, Working
  <2> QED
    BY <2>1, <2>2
<1>5. pass' \in [Tabs -> Passes] /\ ShapeInv'
  BY <1>1, <1>3, <1>4, StepType
<1>6. ServerType' /\ QueueType' /\ PageType' /\ EngineType' /\ BoundType'
  BY <1>1, <1>3, <1>5 DEF ServerType, QueueType, PageType, EngineType, BoundType
<1> QED
  BY <1>5, <1>6

\* Every disjunct of Next, in the groups of the lemmas.
LEMMA Cases ==
  ASSUME [Next]_vars
  PROVE  \/ \E t \in Tabs :
              \/ User(t) \/ Save(t) \/ Fire(t) \/ Socket(t) \/ Crash(t)
              \/ \E k \in DOMAIN legacy[t] : LegacyPost(t, k)
              \/ \E c \in confirming[t] : ConfirmPut(t, c)
              \/ Open(t) \/ (\E id \in recovering[t] : Recover(t, id)) \/ Ready(t) \/ Seed(t)
              \/ ReadQueue(t) \/ Mark(t) \/ PostFails(t) \/ Receive(t) \/ Finish(t)
              \/ Post(t) \/ Settle(t) \/ MarkPut(t) \/ Compact(t)
         \/ \E id \in wire : WireCommit(id) \/ WireLoss(id)
         \/ \E id \in PartnerIds : Partner(id)
         \/ SetOpen(~open)
         \/ TrimCheck \/ TrimDelete
         \/ UNCHANGED vars
BY DEF Next, Page, Push, Settle

LEMMA TypeStep == TypeInv /\ [Next]_vars => TypeInv'
<1> SUFFICES ASSUME TypeInv, [Next]_vars PROVE TypeInv'
  OBVIOUS
<1>1. CASE UNCHANGED vars
  <2> USE <1>1 DEF vars, serverVars, storeVars, pageVars, engineVars, boundVars, TypeInv
  <2>1. ServerType' /\ QueueType' /\ PageType' /\ EngineType' /\ BoundType'
    BY DEF ServerType, QueueType, PageType, EngineType, BoundType
  <2>2. InLedger' = InLedger /\ Queued' = Queued /\ pass' = pass /\ confirming' = confirming
    BY DEF InLedger, Queued
  <2>3. ShapeInv'
    BY <2>2 DEF ShapeInv
  <2> QED
    BY <2>1, <2>3
<1> QED
  BY <1>1, Cases, UserType, SaveType, FireType, SocketType, CrashType, LegacyPostType,
     ConfirmPutType, BootType, QuietPushType, PostType, SettleType, RowsType,
     ServerStepType, TrimType

LEMMA TypeInvariant == Spec => []TypeInv
<1> QED
  BY TypeInit, TypeStep, PTL DEF Spec

\* Every variable keeps a value of its kind: a pass always has an operation to
\* work on, the queue read from IndexedDB is an ordered list of all that waits,
\* and a version is adopted only for an operation of the ledger.
THEOREM TypeCorrect == Spec => []TypeOK
<1> QED
  BY TypeParts, TypeInvariant, PTL

-----------------------------------------------------------------------------
(* Which steps touch what.                                                  *)

LEMMA LedgerMoves ==
  ASSUME TypeInv, [Next]_vars
  PROVE  LedgerStep
<1> USE DEF serverVars, storeVars, pageVars, engineVars, boundVars
<1>1. ASSUME NEW t \in Tabs,
             \/ User(t) \/ Save(t) \/ Fire(t) \/ Socket(t) \/ Crash(t)
             \/ \E c \in confirming[t] : ConfirmPut(t, c)
             \/ Open(t) \/ (\E id \in recovering[t] : Recover(t, id)) \/ Ready(t) \/ Seed(t)
             \/ ReadQueue(t) \/ Mark(t) \/ PostFails(t) \/ Receive(t) \/ Finish(t)
             \/ Settle(t) \/ MarkPut(t) \/ Compact(t)
      PROVE  ledger' = ledger
  <2>1. CASE User(t) \/ Save(t) \/ Fire(t) \/ Socket(t) \/ Crash(t)
    BY <2>1 DEF User, Draw, DrawEarly, Author, Trigger, Save, Fire, Socket, GoLive, GoDown,
                Hear, Crash
  <2>2. CASE \/ \E c \in confirming[t] : ConfirmPut(t, c)
             \/ Open(t) \/ (\E id \in recovering[t] : Recover(t, id)) \/ Ready(t) \/ Seed(t)
    BY <2>2 DEF ConfirmPut, Open, Recover, Ready, Seed
  <2>3. CASE ReadQueue(t) \/ Mark(t) \/ PostFails(t) \/ Receive(t) \/ Finish(t)
    BY <2>3 DEF ReadQueue, Mark, PostFails, Receive, Finish
  <2>4. CASE Settle(t) \/ MarkPut(t) \/ Compact(t)
    BY <2>4 DEF Settle, SettleAck, SettleStale, SettleTransient, SettleRefused, MarkPut, Compact
  <2> QED
    BY <1>1, <2>1, <2>2, <2>3, <2>4
<1>2. ASSUME NEW t \in Tabs, Post(t) PROVE LedgerStep
  <2>1. Current(t).id \in AllIds
    BY <1>2, PassFacts DEF Post, Working, AllIds
  <2> QED
    BY <1>2, <2>1, ProcessSteps DEF Post
<1>3. ASSUME NEW t \in Tabs, NEW k \in DOMAIN legacy[t], LegacyPost(t, k) PROVE LedgerStep
  <2>1. legacy[t] \in Seq(LegacyType)
    BY DEF TypeInv, PageType
  <2>2. legacy[t][k] \in LegacyType
    BY <2>1, LenProperties, ElementOfSeq
  <2>3. legacy[t][k].id \in AllIds
    BY <2>2 DEF LegacyType, AllIds
  <2> QED
    BY <1>3, <2>3, ProcessSteps DEF LegacyPost
<1>4. ASSUME NEW id \in wire, WireCommit(id) PROVE LedgerStep
  <2>1. id \in AllIds
    BY DEF TypeInv, QueueType, AllIds
  <2> QED
    BY <1>4, <2>1, ProcessSteps DEF WireCommit
<1>5. CASE \/ \E id \in wire : WireLoss(id)
           \/ SetOpen(~open) \/ TrimCheck \/ TrimDelete \/ UNCHANGED vars
  BY <1>5 DEF WireLoss, SetOpen, TrimCheck, TrimDelete, vars, LedgerStep
<1>6. ASSUME NEW id \in PartnerIds, Partner(id) PROVE LedgerStep
  BY <1>6 DEF Partner, LedgerStep, AllIds
<1> QED
  BY <1>1, <1>2, <1>3, <1>4, <1>5, <1>6, Cases DEF LedgerStep

LEMMA AnchorMoves ==
  ASSUME [Next]_vars
  PROVE  \/ anchor' = anchor
         \/ \E t \in Tabs : SettleAck(t) \/ SettleStale(t) \/ Seed(t) \/ Crash(t)
         \/ \E t \in Tabs : \E id \in Ids \cup PartnerIds : Hear(t, id)
         \/ \E t \in Tabs : \E c \in confirming[t] : ConfirmPut(t, c)
<1> USE DEF serverVars, storeVars, pageVars, engineVars, boundVars
<1>1. ASSUME NEW t \in Tabs,
             \/ User(t) \/ Save(t) \/ Fire(t) \/ GoLive(t) \/ GoDown(t)
             \/ \E k \in DOMAIN legacy[t] : LegacyPost(t, k)
             \/ Open(t) \/ (\E id \in recovering[t] : Recover(t, id)) \/ Ready(t)
      PROVE  anchor' = anchor
  BY <1>1 DEF User, Draw, DrawEarly, Author, Trigger, Save, Fire, GoLive, GoDown, LegacyPost,
              Open, Recover, Ready
<1>2. ASSUME NEW t \in Tabs,
             \/ ReadQueue(t) \/ Mark(t) \/ PostFails(t) \/ Receive(t) \/ Finish(t)
             \/ Post(t) \/ SettleTransient(t) \/ SettleRefused(t) \/ MarkPut(t) \/ Compact(t)
      PROVE  anchor' = anchor
  BY <1>2 DEF ReadQueue, Mark, PostFails, Receive, Finish, Post, SettleTransient,
              SettleRefused, MarkPut, Compact
<1>3. CASE \/ \E id \in wire : WireCommit(id) \/ WireLoss(id)
           \/ \E id \in PartnerIds : Partner(id)
           \/ SetOpen(~open) \/ TrimCheck \/ TrimDelete \/ UNCHANGED vars
  BY <1>3 DEF WireCommit, WireLoss, Partner, SetOpen, TrimCheck, TrimDelete, vars
<1> QED
  BY <1>1, <1>2, <1>3, Cases DEF Socket, Settle

LEMMA RowMoves ==
  ASSUME [Next]_vars
  PROVE  \/ UNCHANGED <<store, saved, trim, gaveUp>>
         \/ \E t \in Tabs : Save(t) \/ MarkPut(t) \/ Settle(t) \/ Compact(t)
         \/ \E t \in Tabs : \E id \in recovering[t] : Recover(t, id)
         \/ \E t \in Tabs : \E c \in confirming[t] : ConfirmPut(t, c)
         \/ TrimCheck \/ TrimDelete
<1> USE DEF serverVars, storeVars, pageVars, engineVars, boundVars
<1>1. ASSUME NEW t \in Tabs,
             \/ User(t) \/ Fire(t) \/ Socket(t) \/ Crash(t)
             \/ \E k \in DOMAIN legacy[t] : LegacyPost(t, k)
             \/ Open(t) \/ Ready(t) \/ Seed(t)
      PROVE  UNCHANGED <<store, saved, trim, gaveUp>>
  BY <1>1 DEF User, Draw, DrawEarly, Author, Trigger, Fire, Socket, GoLive, GoDown, Hear,
              Crash, LegacyPost, Open, Ready, Seed
<1>2. ASSUME NEW t \in Tabs,
             \/ ReadQueue(t) \/ Mark(t) \/ PostFails(t) \/ Receive(t) \/ Finish(t) \/ Post(t)
      PROVE  UNCHANGED <<store, saved, trim, gaveUp>>
  BY <1>2 DEF ReadQueue, Mark, PostFails, Receive, Finish, Post
<1>3. CASE \/ \E id \in wire : WireCommit(id) \/ WireLoss(id)
           \/ \E id \in PartnerIds : Partner(id)
           \/ SetOpen(~open) \/ UNCHANGED vars
  BY <1>3 DEF WireCommit, WireLoss, Partner, SetOpen, vars
<1> QED
  BY <1>1, <1>2, <1>3, Cases

LEMMA PassMoves ==
  ASSUME [Next]_vars
  PROVE  \/ pass' = pass
         \/ \E t \in Tabs :
              \/ Fire(t) \/ Crash(t) \/ ReadQueue(t) \/ Mark(t) \/ MarkPut(t) \/ Post(t)
              \/ PostFails(t) \/ Receive(t) \/ Settle(t) \/ Compact(t) \/ Finish(t)
<1> USE DEF serverVars, storeVars, pageVars, engineVars, boundVars
<1>1. ASSUME NEW t \in Tabs,
             \/ User(t) \/ Save(t) \/ Socket(t)
             \/ \E k \in DOMAIN legacy[t] : LegacyPost(t, k)
             \/ \E c \in confirming[t] : ConfirmPut(t, c)
             \/ Open(t) \/ (\E id \in recovering[t] : Recover(t, id)) \/ Ready(t) \/ Seed(t)
      PROVE  pass' = pass
  BY <1>1 DEF User, Draw, DrawEarly, Author, Trigger, Save, Socket, GoLive, GoDown, Hear,
              LegacyPost, ConfirmPut, Open, Recover, Ready, Seed
<1>2. CASE \/ \E id \in wire : WireCommit(id) \/ WireLoss(id)
           \/ \E id \in PartnerIds : Partner(id)
           \/ SetOpen(~open) \/ TrimCheck \/ TrimDelete \/ UNCHANGED vars
  BY <1>2 DEF WireCommit, WireLoss, Partner, SetOpen, TrimCheck, TrimDelete, vars
<1> QED
  BY <1>1, <1>2, Cases

-----------------------------------------------------------------------------
(* Nothing is lost, and no base is ahead of the board; for any tabs,        *)
(* sockets, faults and trims.  Along with them go that only an operation    *)
(* of the ledger has a confirmed row, and that the answer a pass holds is   *)
(* true of the ledger: an acknowledged operation is there, a version that   *)
(* is named exists.                                                         *)

ConfirmedInv == \A id \in Ids : store[id].status = "CONFIRMED" => id \in InLedger

Answering == {"reply", "settle", "compact"}

\* What a pass that has an answer may rely on.
Truthful(p) ==
  p.at \in Answering =>
    /\ p.reply.kind # "none" /\ p.reply.version <= Len(ledger)
    /\ p.reply.kind = "ack" => Head(p.list).id \in InLedger
    /\ p.at = "compact" => p.reply.kind = "ack"

AnswerInv == \A t \in Tabs : Truthful(pass[t])

SafeInv == TypeInv /\ ConfirmedInv /\ AnswerInv /\ AnchorBehindBoard /\ NothingLost

\* What every step does to the rows: one is confirmed only for the ledger, and
\* one that waits or failed is kept unless the ledger has it, or the trim says
\* what it dropped.
RowsGood ==
  /\ \A id \in Ids : store'[id].status = "CONFIRMED" =>
       store[id].status = "CONFIRMED" \/ id \in InLedger'
  /\ trim' # "dropped" =>
       /\ trim # "dropped"
       /\ \A id \in Ids : (id \in saved' \ saved) \/ id \in Unacknowledged =>
            id \in Unacknowledged' \/ id \in InLedger'

LEMMA RowsSafe ==
  ASSUME SafeInv, [Next]_vars, RowsGood
  PROVE  ConfirmedInv' /\ NothingLost'
<1>1. InLedger \subseteq InLedger'
  BY LedgerMoves, LedgerKept DEF SafeInv, TypeInv
<1>2. ConfirmedInv'
  BY <1>1 DEF SafeInv, ConfirmedInv, RowsGood
<1>3. TypeInv'
  BY TypeStep DEF SafeInv
<1>4. saved' \subseteq Ids
  BY <1>3 DEF TypeInv, QueueType
<1>5. ASSUME trim' # "dropped", NEW id \in saved', id \notin InLedger'
      PROVE  id \in Unacknowledged'
  <2>1. id \in Ids /\ id \notin InLedger /\ trim # "dropped"
    BY <1>1, <1>4, <1>5 DEF RowsGood
  <2>2. id \in saved' \ saved \/ id \in Unacknowledged
    BY <2>1, <1>5 DEF SafeInv, NothingLost
  <2> QED
    BY <2>1, <2>2, <1>5 DEF RowsGood
<1>6. NothingLost'
  BY <1>5 DEF NothingLost
<1> QED
  BY <1>2, <1>6

\* A step that changes one row, and neither the ledger nor what is saved.
LEMMA OneRowGood ==
  ASSUME NEW x, UNCHANGED <<saved, trim>>,
         \A i \in Ids : i # x => store'[i] = store[i],
         x \in Ids => \/ store'[x] = store[x]
                      \/ store'[x].status \in {"PENDING", "SUBMITTING", "FAILED"}
                      \/ x \in InLedger'
  PROVE  RowsGood
BY DEF RowsGood, Unacknowledged, Waiting

LEMMA RowsStep ==
  ASSUME SafeInv, [Next]_vars
  PROVE  RowsGood
<1> USE DEF serverVars, storeVars, pageVars, engineVars, boundVars
<1>0. TypeInv /\ ConfirmedInv /\ AnswerInv /\ NothingLost
  BY DEF SafeInv
<1>l. InLedger \subseteq InLedger'
  BY <1>0, LedgerMoves, LedgerKept DEF TypeInv
<1>s. store \in [Ids -> Row]
  BY <1>0 DEF TypeInv, QueueType
<1>1. CASE UNCHANGED <<store, saved, trim, gaveUp>>
  BY <1>1, <1>l DEF RowsGood, Unacknowledged
<1>2. ASSUME NEW t \in Tabs, Save(t) PROVE RowsGood
  <2>1. PICK id : /\ store' = [store EXCEPT ![id] = Pending] /\ saved' = saved \cup {id}
                  /\ trim' = trim
    BY <1>2 DEF Save
  <2>2. \A i \in Ids : i # id => store'[i] = store[i]
    BY <2>1, <1>s
  <2>3. id \in Ids => store'[id].status = "PENDING"
    BY <2>1, <1>s DEF Pending
  <2> QED
    BY <2>1, <2>2, <2>3 DEF RowsGood, Unacknowledged, Waiting
<1>3. ASSUME NEW t \in Tabs, MarkPut(t) PROVE RowsGood
  <2>1. /\ store' = [store EXCEPT ![Current(t).id] = [pass[t].row EXCEPT !.status = "SUBMITTING"]]
        /\ saved' = saved /\ trim' = trim
    BY <1>3 DEF MarkPut
  <2>2. pass[t].row \in Row
    BY <1>0, <1>3, PassFacts DEF MarkPut, Working
  <2>3. PICK x, r : x = Current(t).id /\ r = [pass[t].row EXCEPT !.status = "SUBMITTING"]
    OBVIOUS
  <2>4. r.status = "SUBMITTING"
    BY <2>2, <2>3 DEF Row
  <2>5. /\ \A i \in Ids : i # x => store'[i] = store[i]
        /\ x \in Ids => store'[x].status = "SUBMITTING"
    BY ONLY <2>1, <2>3, <2>4, <1>s
  <2> QED
    BY <2>1, <2>5, OneRowGood
<1>4. ASSUME NEW t \in Tabs, Settle(t) PROVE RowsGood
  <2>1. /\ pass[t].at = "settle" /\ pass[t].reply.kind # "none" /\ PutSettled(t)
        /\ saved' = saved /\ trim' = trim
    BY <1>0, <1>4, SettleFacts
  <2>2. pass[t].reply.kind = "ack" => Current(t).id \in InLedger
    BY <1>0, <2>1 DEF AnswerInv, Truthful, Answering, Current
  <2>3. PICK x : x = Current(t).id
    OBVIOUS
  <2>4. /\ \A i \in Ids : i # x => store'[i] = store[i]
        /\ pass[t].row = None => store' = store
        /\ pass[t].row # None =>
             /\ store'[x].status \in {"CONFIRMED", "PENDING", "FAILED"}
             /\ store'[x].status = "CONFIRMED" => x \in InLedger
    BY <1>0, <2>1, <2>2, <2>3, PutSettledFacts
  <2> QED
    BY <1>l, <2>1, <2>4, OneRowGood
<1>5. ASSUME NEW t \in Tabs, Compact(t) PROVE RowsGood
  <2>1. PICK gone :
          /\ \A id \in gone : store[id].status = "CONFIRMED"
          /\ store' = [id \in Ids |-> IF id \in gone THEN None ELSE store[id]]
          /\ saved' = saved /\ trim' = trim
    <3> DEFINE v == pass[t].reply.version
               gone == {id \in Ids : /\ store[id].status \in Compactable(v)
                                     /\ id \in InLedger => Sequence(id) <= v}
    <3>1. \A id \in gone : store[id].status = "CONFIRMED"
      BY DEF Compactable
    <3>2. /\ store' = [id \in Ids |-> IF id \in gone THEN None ELSE store[id]]
          /\ saved' = saved /\ trim' = trim
      BY <1>5 DEF Compact
    <3> QED
      BY <3>1, <3>2
  <2> QED
    BY <2>1 DEF RowsGood, Unacknowledged, Waiting, None
<1>6. ASSUME NEW t \in Tabs, NEW id \in recovering[t], Recover(t, id) PROVE RowsGood
  <2>1. /\ store' = [store EXCEPT ![id] = [store[id] EXCEPT !.status = "PENDING"]]
        /\ saved' = saved /\ trim' = trim
    BY <1>6 DEF Recover, RecoverRow
  <2>2. id \in Ids => store[id] \in Row
    BY <1>s
  <2>3. \A i \in Ids : i # id => store'[i] = store[i]
    BY <2>1, <1>s
  <2>4. id \in Ids => store'[id].status = "PENDING"
    BY <2>1, <2>2, <1>s DEF Row
  <2> QED
    BY <2>1, <2>3, <2>4, OneRowGood
<1>7. ASSUME NEW t \in Tabs, NEW c \in confirming[t], ConfirmPut(t, c) PROVE RowsGood
  <2>1. /\ store' = [store EXCEPT ![c.id] = [c.row EXCEPT !.status = "CONFIRMED"]]
        /\ saved' = saved /\ trim' = trim
    BY <1>7 DEF ConfirmPut
  <2>2. c.id \in InLedger
    BY <1>0 DEF TypeInv, ShapeInv
  <2>3. \A i \in Ids : i # c.id => store'[i] = store[i]
    BY <2>1, <1>s
  <2> QED
    BY <1>l, <2>1, <2>2, <2>3, OneRowGood
<1>8. CASE TrimCheck
  BY <1>8, <1>l DEF TrimCheck, RowsGood, Unacknowledged
<1>9. CASE TrimDelete
  BY <1>9 DEF TrimDelete, RowsGood, None
<1> QED
  BY <1>1, <1>2, <1>3, <1>4, <1>5, <1>6, <1>7, <1>8, <1>9, RowMoves

\* The answer of the server is true when it is given.
LEMMA OutcomeTruthful ==
  ASSUME ServerType, NEW id \in AllIds, NEW base, Process(id, base)
  PROVE  /\ Outcome(id, base).version <= Len(ledger')
         /\ Outcome(id, base).kind = "ack" => id \in InLedger'
<1>1. /\ Len(ledger) \in Nat /\ Len(ledger) <= Len(ledger')
      /\ InLedger \subseteq InLedger' /\ Len(ledger') \in Nat /\ DOMAIN ledger' = 1..Len(ledger')
  BY ProcessSteps, LedgerKept, LedgerFacts
<1>2. open \in BOOLEAN
  BY DEF ServerType
<1>3. CASE ~open
  BY <1>1, <1>3 DEF Outcome, Reply
<1>4. CASE open /\ id \in InLedger
  <2>1. Outcome(id, base).version = Sequence(id)
    BY <1>4 DEF Outcome, Reply
  <2>2. Sequence(id) \in 1..Len(ledger)
    BY <1>4, LedgerFacts
  <2> QED
    BY <1>1, <1>4, <2>1, <2>2
<1>5. CASE open /\ id \notin InLedger /\ base = Len(ledger)
  <2>1. Outcome(id, base) = Reply("ack", Len(ledger) + 1)
    BY <1>5 DEF Outcome
  <2>2. ledger' = Append(ledger, id)
    BY <1>5, <2>1 DEF Process, Reply
  <2>3. Len(ledger') = Len(ledger) + 1 /\ ledger'[Len(ledger) + 1] = id
    BY <2>2, AppendProperties DEF ServerType
  <2>4. Len(ledger) + 1 \in DOMAIN ledger'
    BY <1>1, <2>3
  <2>5. id \in InLedger'
    BY <2>3, <2>4 DEF InLedger
  <2> QED
    BY <1>1, <2>1, <2>3, <2>5 DEF Reply
<1>6. CASE open /\ id \notin InLedger /\ base # Len(ledger)
  <2>1. Outcome(id, base) = Reply("stale", Len(ledger))
    BY <1>6 DEF Outcome
  <2> QED
    BY <1>1, <2>1 DEF Reply
<1> QED
  BY <1>2, <1>3, <1>4, <1>5, <1>6

\* What a step of a pass leaves to show: the pass it leads to has a true
\* answer, or needs none.
LEMMA PassAnswers ==
  ASSUME SafeInv, [Next]_vars, NEW t \in Tabs, NEW p, Step(t, p), Truthful(p)'
  PROVE  AnswerInv'
<1>1. /\ pass \in [Tabs -> Passes] /\ ServerType /\ LedgerStep
  BY LedgerMoves DEF SafeInv, TypeInv, EngineType
<1>2. /\ Len(ledger) \in Nat /\ Len(ledger') \in Nat /\ Len(ledger) <= Len(ledger')
      /\ InLedger \subseteq InLedger'
  BY <1>1, LedgerKept, LedgerFacts
<1>3. ASSUME NEW u \in Tabs, u # t PROVE Truthful(pass[u])'
  <2>1. pass'[u] = pass[u] /\ pass[u].reply.version \in Nat
    BY <1>1, <1>3 DEF Step, Passes, Answers
  <2>2. Truthful(pass[u])
    BY DEF SafeInv, AnswerInv
  <2> QED
    BY <1>2, <2>1, <2>2 DEF Truthful
<1>4. pass'[t] = p
  BY <1>1 DEF Step
<1> QED
  BY <1>3, <1>4 DEF AnswerInv, Truthful

\* A step that leaves the passes alone leaves their answers true.
LEMMA AnswersKept ==
  ASSUME SafeInv, [Next]_vars, pass' = pass
  PROVE  AnswerInv'
<1>1. /\ pass \in [Tabs -> Passes] /\ ServerType /\ LedgerStep
  BY LedgerMoves DEF SafeInv, TypeInv, EngineType
<1>2. /\ Len(ledger) \in Nat /\ Len(ledger') \in Nat /\ Len(ledger) <= Len(ledger')
      /\ InLedger \subseteq InLedger'
  BY <1>1, LedgerKept, LedgerFacts
<1>3. ASSUME NEW u \in Tabs PROVE Truthful(pass[u])'
  <2>1. pass[u].reply.version \in Nat
    BY <1>1 DEF Passes, Answers
  <2>2. Truthful(pass[u])
    BY DEF SafeInv, AnswerInv
  <2> QED
    BY <1>2, <2>1, <2>2 DEF Truthful
<1> QED
  BY <1>3 DEF AnswerInv, Truthful

LEMMA AnswersStep ==
  ASSUME SafeInv, [Next]_vars
  PROVE  AnswerInv'
<1> USE DEF serverVars, storeVars, pageVars, engineVars, boundVars
<1>0. TypeInv /\ AnswerInv
  BY DEF SafeInv
<1>l. /\ InLedger \subseteq InLedger' /\ Len(ledger) <= Len(ledger')
      /\ Len(ledger) \in Nat /\ Len(ledger') \in Nat
  BY <1>0, LedgerMoves, LedgerKept, LedgerFacts DEF TypeInv
<1>1. ASSUME NEW t \in Tabs, Fire(t) PROVE AnswerInv'
  <2>1. PICK p : Step(t, p) /\ (p = pass[t] \/ p = [Idle EXCEPT !.at = "read"])
    BY <1>1 DEF Fire
  <2>2. CASE p = pass[t]
    <3>1. pass' = pass
      BY <1>0, <2>1, <2>2 DEF Step, TypeInv, EngineType
    <3> QED
      BY <3>1, AnswersKept
  <2>3. CASE p = [Idle EXCEPT !.at = "read"]
    <3>1. p.at = "read"
      BY <2>3 DEF Idle
    <3>2. Truthful(p)'
      BY <3>1 DEF Truthful, Answering
    <3> QED
      BY <2>1, <3>2, PassAnswers
  <2> QED
    BY <2>1, <2>2, <2>3
<1>2. ASSUME NEW t \in Tabs,
             Crash(t) \/ ReadQueue(t) \/ Mark(t) \/ MarkPut(t) \/ Compact(t) \/ Finish(t)
      PROVE  AnswerInv'
  <2>1. PICK p : Step(t, p) /\ p.at \notin Answering
    <3>1. /\ Idle.at \notin Answering /\ pass[t] \in Passes
      BY <1>0, PassFacts DEF Idle, Answering
    <3>2. CASE Crash(t) \/ Finish(t)
      BY <3>1, <3>2 DEF Crash, Finish
    <3>3. CASE ReadQueue(t)
      <4>1. PICK l : Step(t, Idle) \/ Step(t, [pass[t] EXCEPT !.at = "mark", !.list = l])
        BY <3>3 DEF ReadQueue
      <4>2. [pass[t] EXCEPT !.at = "mark", !.list = l].at = "mark"
        BY <3>1 DEF Passes
      <4> QED
        BY <3>1, <4>1, <4>2 DEF Answering
    <3>4. CASE Mark(t)
      <4>1. PICK r : \/ Step(t, [pass[t] EXCEPT !.at = "post", !.row = r])
                     \/ Step(t, [pass[t] EXCEPT !.at = "marking", !.row = r])
        BY <3>4 DEF Mark
      <4>2. /\ [pass[t] EXCEPT !.at = "post", !.row = r].at = "post"
            /\ [pass[t] EXCEPT !.at = "marking", !.row = r].at = "marking"
        BY <3>1 DEF Passes
      <4> QED
        BY <4>1, <4>2 DEF Answering
    <3>5. CASE MarkPut(t)
      <4>1. [pass[t] EXCEPT !.at = "post", !.row = None].at = "post"
        BY <3>1 DEF Passes
      <4> QED
        BY <3>5, <4>1 DEF MarkPut, Answering
    <3>6. CASE Compact(t)
      BY <1>0, <3>6, NextOperationType DEF Compact, Working, Answering
    <3> QED
      BY <1>2, <3>2, <3>3, <3>4, <3>5, <3>6
  <2>2. Truthful(p)'
    BY <2>1 DEF Truthful
  <2> QED
    BY <2>1, <2>2, PassAnswers
<1>3. ASSUME NEW t \in Tabs, Post(t) \/ PostFails(t) PROVE AnswerInv'
  <2>1. pass[t].at = "post" /\ pass[t] \in Passes /\ Current(t).id \in AllIds
    BY <1>0, <1>3, PassFacts DEF Post, PostFails, Working, AllIds
  <2>2. PICK reply : /\ Answered(t, reply)
                     /\ reply.kind # "none" /\ reply.version <= Len(ledger')
                     /\ reply.kind = "ack" => Current(t).id \in InLedger'
    <3>1. CASE Post(t)
      <4>1. /\ Outcome(Current(t).id, anchor[t]).kind # "none"
            /\ Outcome(Current(t).id, anchor[t]).version <= Len(ledger')
            /\ Outcome(Current(t).id, anchor[t]).kind = "ack" => Current(t).id \in InLedger'
        BY <1>0, <2>1, <3>1, OutcomeTruthful, OutcomeType DEF Post, TypeInv
      <4>2. /\ Reply("network", 0).kind = "network" /\ Reply("network", 0).version = 0
        BY DEF Reply
      <4>3. 0 <= Len(ledger')
        BY <1>l
      <4>4. Answered(t, Outcome(Current(t).id, anchor[t])) \/ Answered(t, Reply("network", 0))
        BY <3>1 DEF Post
      <4> QED
        BY <4>1, <4>2, <4>3, <4>4
    <3>2. CASE PostFails(t)
      <4>1. PICK kind \in {"network", "limited"} : Answered(t, Reply(kind, 0))
        BY <3>2 DEF PostFails
      <4>2. Reply(kind, 0).kind = kind /\ Reply(kind, 0).version = 0
        BY DEF Reply
      <4>3. 0 <= Len(ledger')
        BY <1>l
      <4> QED
        BY <4>1, <4>2, <4>3
    <3> QED
      BY <1>3, <3>1, <3>2
  <2>3. PICK p : Step(t, p) /\ p = [pass[t] EXCEPT !.at = "reply", !.reply = reply]
    BY <2>2 DEF Answered
  <2>4. p.at = "reply" /\ p.reply = reply /\ p.list = pass[t].list
    BY <2>1, <2>3 DEF Passes
  <2>5. Truthful(p)'
    BY <2>2, <2>4 DEF Truthful, Current
  <2> QED
    BY <2>3, <2>5, PassAnswers
<1>4. ASSUME NEW t \in Tabs, Receive(t) PROVE AnswerInv'
  <2>1. PICK p : Step(t, p) /\ p = [pass[t] EXCEPT !.at = "settle", !.row = store[Current(t).id]]
    BY <1>4 DEF Receive
  <2>2. /\ p.at = "settle" /\ p.list = pass[t].list /\ p.reply = pass[t].reply
        /\ pass[t].at = "reply" /\ p.reply.version \in Nat
    BY <1>0, <1>4, <2>1, PassFacts DEF Receive, Passes, Answers
  <2>3. Truthful(pass[t])
    BY <1>0 DEF AnswerInv
  <2>4. Truthful(p)'
    BY <1>l, <2>2, <2>3 DEF Truthful, Answering
  <2> QED
    BY <2>1, <2>4, PassAnswers
<1>5. ASSUME NEW t \in Tabs, Settle(t) PROVE AnswerInv'
  <2>1. pass[t] \in Passes /\ pass[t].at = "settle"
    BY <1>0, <1>5, PassFacts, SettleFacts
  <2>2. CASE SettleAck(t)
    <3>1. PICK p : Step(t, p) /\ p = [pass[t] EXCEPT !.at = "compact", !.row = None]
      BY <2>2 DEF SettleAck
    <3>2. /\ p.at = "compact" /\ p.list = pass[t].list /\ p.reply = pass[t].reply
          /\ p.reply.kind = "ack" /\ p.reply.version \in Nat
      BY <2>1, <2>2, <3>1 DEF SettleAck, Passes, Answers
    <3>3. Truthful(pass[t])
      BY <1>0 DEF AnswerInv
    <3>4. Truthful(p)'
      BY <1>l, <2>1, <3>2, <3>3 DEF Truthful, Answering
    <3> QED
      BY <3>1, <3>4, PassAnswers
  <2>3. CASE SettleStale(t) \/ SettleTransient(t) \/ SettleRefused(t)
    <3>1. PICK p, b : /\ Step(t, p)
                      /\ \/ p = Break(pass[t])
                         \/ p = [Break(pass[t]) EXCEPT !.failed = b]
                         \/ p = [NextOperation(pass[t]) EXCEPT !.failed = b]
      BY <2>3 DEF SettleStale, SettleTransient, SettleRefused
    <3>2. /\ NextOperation(pass[t]) \in Passes /\ Break(pass[t]) \in Passes
          /\ NextOperation(pass[t]).at \in {"mark", "finish"} /\ Break(pass[t]).at = "finish"
      BY <1>0, <2>1, NextOperationType DEF Working
    <3>3. p.at \in {"mark", "finish"}
      BY <3>1, <3>2 DEF Passes
    <3>4. Truthful(p)'
      BY <3>3 DEF Truthful, Answering
    <3> QED
      BY <3>1, <3>4, PassAnswers
  <2> QED
    BY <1>5, <2>2, <2>3 DEF Settle
<1> QED
  BY <1>1, <1>2, <1>3, <1>4, <1>5, PassMoves, AnswersKept

\* A version is adopted only if the board has come so far.
LEMMA AnchorStep ==
  ASSUME SafeInv, [Next]_vars
  PROVE  AnchorBehindBoard'
<1> USE DEF serverVars, storeVars, pageVars, engineVars, boundVars
<1>0. /\ TypeInv /\ AnswerInv /\ AnchorBehindBoard /\ anchor \in [Tabs -> Nat]
  BY DEF SafeInv, TypeInv, EngineType
<1>l. /\ Len(ledger) <= Len(ledger') /\ Len(ledger) \in Nat /\ Len(ledger') \in Nat
  BY <1>0, LedgerMoves, LedgerKept, LedgerFacts DEF TypeInv
<1>1. ASSUME NEW t \in Tabs, NEW v \in Nat, v <= Len(ledger),
             anchor' = [anchor EXCEPT ![t] = v] \/ anchor' = [anchor EXCEPT ![t] = Adopted(@, v)]
      PROVE  AnchorBehindBoard'
  <2>1. anchor[t] \in Nat /\ anchor[t] <= Len(ledger)
    BY <1>0 DEF AnchorBehindBoard
  <2>2. Adopted(anchor[t], v) <= Len(ledger)
    BY <1>1, <2>1 DEF Adopted, Larger
  <2>3. \A u \in Tabs : anchor'[u] \in {anchor[u], v, Adopted(anchor[t], v)}
                        /\ (anchor'[u] = anchor[u] \/ anchor'[u] <= Len(ledger))
    BY <1>0, <1>1, <2>2
  <2>4. \A u \in Tabs : anchor[u] \in Nat /\ anchor[u] <= Len(ledger)
    BY <1>0 DEF AnchorBehindBoard
  <2>5. Adopted(anchor[t], v) \in Nat
    BY <2>1 DEF Adopted, Larger
  <2> QED
    BY <1>l, <2>3, <2>4, <2>5 DEF AnchorBehindBoard
<1>2. CASE anchor' = anchor
  BY <1>0, <1>l, <1>2 DEF AnchorBehindBoard
<1>3. ASSUME NEW t \in Tabs, SettleAck(t) \/ SettleStale(t) PROVE AnchorBehindBoard'
  <2>1. Truthful(pass[t]) /\ pass[t] \in Passes /\ pass[t].at = "settle"
    BY <1>0, <1>3, PassFacts DEF AnswerInv, SettleAck, SettleStale
  <2>2. pass[t].reply.version \in Nat /\ pass[t].reply.version <= Len(ledger)
    BY <2>1 DEF Truthful, Answering, Passes, Answers
  <2> QED
    BY <1>1, <1>3, <2>2 DEF SettleAck, SettleStale
<1>4. ASSUME NEW t \in Tabs, Seed(t) PROVE AnchorBehindBoard'
  <2>1. PICK v \in 0..Len(ledger) : anchor' = [anchor EXCEPT ![t] = Adopted(@, v)]
    BY <1>4 DEF Seed
  <2>2. v \in Nat /\ v <= Len(ledger)
    BY <1>l
  <2> QED
    BY <1>1, <2>1, <2>2
<1>5. ASSUME NEW t \in Tabs, Crash(t) PROVE AnchorBehindBoard'
  <2>1. anchor' = [anchor EXCEPT ![t] = 0] /\ 0 \in Nat /\ 0 <= Len(ledger)
    BY <1>5, <1>l DEF Crash
  <2> QED
    BY <1>1, <2>1
<1>6. ASSUME NEW t \in Tabs, NEW id \in InLedger, NEW rows, Confirmed(t, id, rows)
      PROVE  AnchorBehindBoard'
  <2>1. Sequence(id) \in Nat /\ Sequence(id) <= Len(ledger)
    BY <1>0, <1>l, LedgerFacts DEF TypeInv
  <2> QED
    BY <1>1, <1>6, <2>1 DEF Confirmed
<1>7. ASSUME NEW t \in Tabs, NEW id \in Ids \cup PartnerIds, Hear(t, id)
      PROVE  AnchorBehindBoard'
  <2>1. anchor' = anchor \/ (id \in InLedger /\ Confirmed(t, id, store))
    BY <1>7 DEF Hear
  <2> QED
    BY <1>2, <1>6, <2>1
<1>8. ASSUME NEW t \in Tabs, NEW c \in confirming[t], ConfirmPut(t, c)
      PROVE  AnchorBehindBoard'
  <2>1. c.id \in InLedger
    BY <1>0 DEF TypeInv, ShapeInv
  <2> QED
    BY <1>6, <1>8, <2>1 DEF ConfirmPut
<1> QED
  BY <1>2, <1>3, <1>4, <1>5, <1>7, <1>8, AnchorMoves

LEMMA SafeInit == Init => SafeInv
<1> SUFFICES ASSUME Init PROVE SafeInv
  OBVIOUS
<1>1. TypeInv
  BY TypeInit
<1>2. ConfirmedInv /\ AnswerInv
  BY DEF Init, ConfirmedInv, AnswerInv, Truthful, Answering, Idle, None
<1>3. NothingLost
  BY DEF Init, NothingLost
<1>4. AnchorBehindBoard
  <2>1. Len(ledger) \in Nat
    BY <1>1, LedgerFacts DEF TypeInv
  <2> QED
    BY <2>1 DEF Init, AnchorBehindBoard
<1> QED
  BY <1>1, <1>2, <1>3, <1>4 DEF SafeInv

LEMMA SafeStep == SafeInv /\ [Next]_vars => SafeInv'
<1> SUFFICES ASSUME SafeInv, [Next]_vars PROVE SafeInv'
  OBVIOUS
<1>1. TypeInv'
  BY TypeStep DEF SafeInv
<1>2. ConfirmedInv' /\ NothingLost'
  BY RowsStep, RowsSafe
<1>3. AnswerInv' /\ AnchorBehindBoard'
  BY AnswersStep, AnchorStep
<1> QED
  BY <1>1, <1>2, <1>3 DEF SafeInv

LEMMA SafeInvariant == Spec => []SafeInv
<1> QED
  BY SafeInit, SafeStep, PTL DEF Spec

\* An operation whose saveOperation has resolved waits on the device or says
\* FAILED until the ledger has it, whatever pages crash, recover, retry,
\* compact or trim in between: only an acknowledgement the server really gave,
\* or a trim that says so, takes it off the device.
THEOREM SavedIsKept == Spec => []NothingLost
<1>1. SafeInv => NothingLost
  BY DEF SafeInv
<1> QED
  BY <1>1, SafeInvariant, PTL

\* No base is ever ahead of the board, with any number of tabs, of sockets that
\* report commits out of turn, of lost answers and of pages seeded with an old
\* state.
THEOREM BasesExist == Spec => []AnchorBehindBoard
<1>1. SafeInv => AnchorBehindBoard
  BY DEF SafeInv
<1> QED
  BY <1>1, SafeInvariant, PTL

-----------------------------------------------------------------------------
(* One page without a socket.  What the page says of its queue is true:     *)
(* while it works the operations it has listed are waiting, and its count   *)
(* is zero only when none is.                                               *)

Solo == LiveTabs = {} /\ \A s, t \in Tabs : s = t

Quiet == wire = {} /\ \A t \in Tabs : ~live[t] /\ confirming[t] = {}

BootInv == \A t \in Tabs : recovering[t] # {} => mode[t] = "booting"

\* A pass at work lists different operations, all of which wait (but for the
\* one that has just been acknowledged).
Listing(p) ==
  p.at \in Working =>
    /\ \A j, k \in 1..Len(p.list) : j # k => p.list[j].id # p.list[k].id
    /\ \A k \in 1..Len(p.list) : (p.at = "compact" /\ k = 1) \/ p.list[k].id \in Queued
    /\ p.at = "settle" => p.row # None

Counts(t) == mode[t] \in {"unseeded", "up"} /\ count[t] = 0 => Queued = {}

WorkInv == trim # "dropped" => \A t \in Tabs : Listing(pass[t]) /\ Counts(t)

SoloInv == SafeInv /\ Quiet /\ BootInv /\ WorkInv

LEMMA SoloCases ==
  ASSUME Solo, Quiet, TypeInv, [Next]_vars
  PROVE  \/ \E t \in Tabs :
              \/ User(t) \/ Save(t) \/ Fire(t) \/ Crash(t)
              \/ \E k \in DOMAIN legacy[t] : LegacyPost(t, k)
              \/ Open(t) \/ (\E id \in recovering[t] : Recover(t, id)) \/ Ready(t) \/ Seed(t)
              \/ ReadQueue(t) \/ Mark(t) \/ PostFails(t) \/ Receive(t) \/ Finish(t)
              \/ Post(t) \/ Settle(t) \/ MarkPut(t) \/ Compact(t)
         \/ \E id \in PartnerIds : Partner(id)
         \/ SetOpen(~open)
         \/ TrimCheck \/ TrimDelete
         \/ UNCHANGED vars
<1>1. ASSUME NEW t \in Tabs PROVE ~Socket(t)
  BY DEF Solo, Quiet, Socket, GoLive, GoDown, Hear
<1> QED
  BY <1>1, Cases DEF Quiet

LEMMA QuietStep ==
  ASSUME Solo, Quiet, TypeInv, [Next]_vars
  PROVE  Quiet'
<1> USE DEF serverVars, storeVars, pageVars, engineVars, boundVars
<1>1. ASSUME NEW t \in Tabs,
             \/ User(t) \/ Save(t) \/ Fire(t)
             \/ \E k \in DOMAIN legacy[t] : LegacyPost(t, k)
             \/ Open(t) \/ (\E id \in recovering[t] : Recover(t, id)) \/ Ready(t) \/ Seed(t)
      PROVE  UNCHANGED <<wire, live, confirming>>
  BY <1>1 DEF Quiet, User, Draw, DrawEarly, Author, Trigger, Save, Fire, LegacyPost, Open,
              Recover, Ready, Seed
<1>2. ASSUME NEW t \in Tabs,
             \/ ReadQueue(t) \/ Mark(t) \/ PostFails(t) \/ Receive(t) \/ Finish(t)
             \/ Post(t) \/ Settle(t) \/ MarkPut(t) \/ Compact(t)
      PROVE  UNCHANGED <<wire, live, confirming>>
  BY <1>2 DEF ReadQueue, Mark, PostFails, Receive, Finish, Post, Settle, SettleAck, SettleStale,
              SettleTransient, SettleRefused, MarkPut, Compact
<1>3. CASE \/ \E id \in PartnerIds : Partner(id)
           \/ SetOpen(~open) \/ TrimCheck \/ TrimDelete \/ UNCHANGED vars
  BY <1>3 DEF Quiet, Partner, SetOpen, TrimCheck, TrimDelete, vars
<1>4. ASSUME NEW t \in Tabs, Crash(t) PROVE Quiet'
  BY <1>4 DEF Crash, Quiet, TypeInv, PageType
<1> QED
  BY <1>1, <1>2, <1>3, <1>4, SoloCases DEF Quiet

LEMMA BootStep ==
  ASSUME Solo, Quiet, BootInv, TypeInv, [Next]_vars
  PROVE  BootInv'
<1> USE DEF serverVars, storeVars, pageVars, engineVars, boundVars
<1>0. /\ recovering \in [Tabs -> SUBSET Ids]
      /\ mode \in [Tabs -> {"closed", "booting", "unseeded", "up"}]
  BY DEF TypeInv, PageType
<1>1. ASSUME NEW t \in Tabs,
             \/ User(t) \/ Save(t) \/ Fire(t)
             \/ \E k \in DOMAIN legacy[t] : LegacyPost(t, k)
      PROVE  UNCHANGED <<mode, recovering>>
  BY <1>1 DEF User, Draw, DrawEarly, Author, Trigger, Save, Fire, LegacyPost
<1>2. ASSUME NEW t \in Tabs,
             \/ ReadQueue(t) \/ Mark(t) \/ PostFails(t) \/ Receive(t) \/ Finish(t)
             \/ Post(t) \/ Settle(t) \/ MarkPut(t) \/ Compact(t)
      PROVE  UNCHANGED <<mode, recovering>>
  BY <1>2 DEF ReadQueue, Mark, PostFails, Receive, Finish, Post, Settle, SettleAck, SettleStale,
              SettleTransient, SettleRefused, MarkPut, Compact
<1>3. CASE \/ \E id \in PartnerIds : Partner(id)
           \/ SetOpen(~open) \/ TrimCheck \/ TrimDelete \/ UNCHANGED vars
  BY <1>3 DEF BootInv, Partner, SetOpen, TrimCheck, TrimDelete, vars
<1>4. ASSUME NEW t \in Tabs, Open(t) \/ Ready(t) \/ Seed(t) \/ Crash(t) PROVE BootInv'
  BY <1>0, <1>4 DEF Open, Ready, Seed, Crash, BootInv
<1>5. ASSUME NEW t \in Tabs, NEW id \in recovering[t], Recover(t, id) PROVE BootInv'
  BY <1>0, <1>5 DEF Recover, BootInv
<1> QED
  BY <1>1, <1>2, <1>3, <1>4, <1>5, SoloCases DEF BootInv

LEMMA SameLength ==
  ASSUME NEW m \in Nat, NEW n \in Nat, 1..m = 1..n
  PROVE  m = n
<1>1. m < n => n \in 1..n /\ n \notin 1..m
  OBVIOUS
<1>2. n < m => m \in 1..m /\ m \notin 1..n
  OBVIOUS
<1> QED
  BY <1>1, <1>2

\* What a pass reads is the whole queue, in order.
LEMMA ReadFacts ==
  ASSUME TypeInv, NEW t \in Tabs, ReadQueue(t)
  PROVE  /\ count' = [count EXCEPT ![t] = Cardinality(Queued)]
         /\ \E p \in Passes :
              /\ Step(t, p)
              /\ \/ p.at = "idle"
                 \/ /\ p.at = "mark" /\ Len(p.list) = Cardinality(Queued)
                    /\ \A k \in 1..Len(p.list) : p.list[k].id \in Queued
                    /\ \A j, k \in 1..Len(p.list) :
                         j < k => Before(p.list[j].id, p.list[k].id)
                    /\ \A x \in Queued : \E k \in 1..Len(p.list) : p.list[k].id = x
<1> DEFINE n == Cardinality(Queued)
           ids == InOrder(Queued)
           list == [k \in DOMAIN ids |-> [id |-> ids[k], retries |-> store[ids[k]].retries]]
<1>1. /\ n \in Nat /\ ids \in [1..n -> Queued]
      /\ \A j, k \in 1..n : j < k => Before(ids[j], ids[k])
      /\ \A x \in Queued : \E k \in 1..n : ids[k] = x
  BY InOrderSorts DEF TypeInv, ShapeInv, QueueType, Queued
<1>2. list \in [1..n -> Listed] /\ \A k \in 1..n : list[k].id = ids[k]
  <2>1. ASSUME NEW k \in 1..n
        PROVE  [id |-> ids[k], retries |-> store[ids[k]].retries] \in Listed
    <3>1. ids[k] \in Ids
      BY <1>1 DEF Queued
    <3>2. store[ids[k]] \in Row
      BY <3>1 DEF TypeInv, QueueType
    <3> QED
      BY <3>1, <3>2 DEF Listed, Row
  <2> QED
    BY <1>1, <2>1
<1>3. /\ count' = [count EXCEPT ![t] = Len(list)]
      /\ \/ Step(t, Idle)
         \/ Step(t, [pass[t] EXCEPT !.at = "mark", !.list = list])
  BY DEF ReadQueue
<1> HIDE DEF list, n
<1>4. list \in Seq(Listed) /\ Len(list) = n
  <2>1. list \in UNION {[1..m -> Listed] : m \in Nat}
    BY <1>1, <1>2
  <2>2. list \in Seq(Listed)
    BY <2>1, SeqDef
  <2>3. Len(list) \in Nat /\ DOMAIN list = 1..Len(list)
    BY <2>2, LenProperties
  <2>4. DOMAIN list = 1..n
    BY <1>2
  <2> QED
    BY <1>1, <2>2, <2>3, <2>4, SameLength
<1> HIDE DEF ids
<1>5. Idle \in Passes /\ Idle.at = "idle"
  BY EmptySeq, RowTypes DEF Idle, Passes, Answers, NoReply
<1>6. PICK q : q = [pass[t] EXCEPT !.at = "mark", !.list = list]
  OBVIOUS
<1>7. q \in Passes /\ q.at = "mark" /\ q.list = list
  BY <1>4, <1>6, PassFacts DEF Passes
<1>8. CASE Step(t, q)
  <2>1. Len(q.list) = n
    BY <1>4, <1>7
  <2>2. \A k \in 1..n : q.list[k].id = ids[k] /\ ids[k] \in Queued
    BY <1>1, <1>2, <1>7
  <2>3. \A x \in Queued : \E k \in 1..n : q.list[k].id = x
    BY <1>1, <2>2
  <2>4. \A j, k \in 1..n : j < k => Before(q.list[j].id, q.list[k].id)
    BY <1>1, <2>2
  <2>5. count' = [count EXCEPT ![t] = n]
    BY <1>3, <1>4
  <2> QED
    BY <1>7, <1>8, <2>1, <2>2, <2>3, <2>4, <2>5 DEF n
<1>9. CASE Step(t, Idle)
  BY <1>3, <1>4, <1>5, <1>9 DEF n
<1> QED
  BY <1>3, <1>6, <1>8, <1>9

LEMMA ListFacts ==
  ASSUME TypeInv, NEW t \in Tabs, pass[t].at \in Working
  PROVE  /\ Len(pass[t].list) \in Nat /\ 1 \in 1..Len(pass[t].list)
         /\ pass[t].list[1] = Current(t)
         /\ Len(Tail(pass[t].list)) = Len(pass[t].list) - 1
         /\ \A k \in 1..Len(Tail(pass[t].list)) :
              k + 1 \in 1..Len(pass[t].list) /\ k + 1 # 1
              /\ Tail(pass[t].list)[k] = pass[t].list[k + 1]
<1>1. pass[t].list \in Seq(Listed) /\ pass[t].list # <<>>
  BY PassFacts DEF TypeInv, ShapeInv, Passes
<1>2. Len(pass[t].list) \in Nat /\ Len(pass[t].list) # 0
  BY <1>1, LenProperties, EmptySeq
<1>3. /\ Len(Tail(pass[t].list)) = Len(pass[t].list) - 1
      /\ pass[t].list[1] = Current(t)
      /\ \A k \in 1..Len(pass[t].list) - 1 : Tail(pass[t].list)[k] = pass[t].list[k + 1]
  BY <1>1, HeadTailProperties DEF Current
<1>4. \A m \in Nat : m # 0 => 1 \in 1..m /\ \A k \in 1..m - 1 : k + 1 \in 1..m /\ k + 1 # 1
  OBVIOUS
<1> QED
  BY <1>2, <1>3, <1>4

\* The pass goes on with the rest of its list, of which nothing has changed.
LEMMA NextListing ==
  ASSUME TypeInv, NEW t \in Tabs, pass[t].at \in Working, Listing(pass[t]),
         \A i \in Queued : i # Current(t).id => i \in Queued',
         NEW p, p.at \in {"mark", "finish"}, p.list = Tail(pass[t].list)
  PROVE  Listing(p)'
<1>1. \A k \in 1..Len(p.list) :
        /\ k + 1 \in 1..Len(pass[t].list) /\ k + 1 # 1
        /\ p.list[k] = pass[t].list[k + 1]
  BY ListFacts
<1>2. /\ 1 \in 1..Len(pass[t].list) /\ pass[t].list[1] = Current(t)
      /\ Len(pass[t].list) \in Nat /\ Len(p.list) = Len(pass[t].list) - 1
  BY ListFacts
<1>3. ASSUME NEW k \in 1..Len(p.list) PROVE p.list[k].id \in Queued'
  <2>1. pass[t].list[k + 1].id # pass[t].list[1].id
    BY <1>1, <1>2 DEF Listing
  <2>2. pass[t].list[k + 1].id \in Queued
    BY <1>1 DEF Listing
  <2> QED
    BY <1>1, <1>2, <2>1, <2>2
<1>4. ASSUME NEW j \in 1..Len(p.list), NEW k \in 1..Len(p.list), j # k
      PROVE  p.list[j].id # p.list[k].id
  <2>1. j + 1 # k + 1
    BY <1>2, <1>4
  <2> QED
    BY <1>1, <2>1 DEF Listing
<1> QED
  BY <1>3, <1>4 DEF Listing, Working

LEMMA ListingKept ==
  ASSUME NEW p, Listing(p), Queued \subseteq Queued'
  PROVE  Listing(p)'
BY DEF Listing

\* The current operation of a pass at work waits, until it is acknowledged.
LEMMA CurrentWaits ==
  ASSUME TypeInv, NEW t \in Tabs, pass[t].at \in Working, Listing(pass[t])
  PROVE  /\ pass[t].at # "compact" => Current(t).id \in Queued
         /\ \A k \in 1..Len(pass[t].list) :
              k # 1 => pass[t].list[k].id \in Queued /\ pass[t].list[k].id # Current(t).id
<1>1. 1 \in 1..Len(pass[t].list) /\ pass[t].list[1] = Current(t)
  BY ListFacts
<1> QED
  BY <1>1 DEF Listing

\* The steps that leave the rows of the queue, the count and the mode alone.
LEMMA WorkSame ==
  ASSUME SoloInv, NEW t \in Tabs, trim # "dropped",
         UNCHANGED <<store, count, mode>>, NEW p, pass'[t] = p,
         Listing(p) \/ p.at \notin Working
  PROVE  Listing(pass[t])' /\ Counts(t)'
<1>1. Queued' = Queued
  BY DEF Queued
<1>2. Listing(p)'
  BY <1>1 DEF Listing
<1>3. Listing(pass[t])'
  BY <1>2 DEF Listing
<1>4. Counts(t)'
  BY <1>1 DEF SoloInv, WorkInv, Counts
<1> QED
  BY <1>3, <1>4

\* A pass that goes on with the same list.
LEMMA SameListing ==
  ASSUME NEW p, NEW q, Listing(p), p.at \in Working \ {"compact"}, q.at \in Working,
         q.list = p.list, q.at = "settle" => q.row # None
  PROVE  Listing(q)
BY DEF Listing

LEMMA WorkPage ==
  ASSUME Solo, SoloInv, [Next]_vars, trim # "dropped", NEW t \in Tabs,
         \/ User(t) \/ Save(t) \/ Fire(t) \/ Crash(t)
         \/ \E k \in DOMAIN legacy[t] : LegacyPost(t, k)
         \/ Open(t) \/ (\E id \in recovering[t] : Recover(t, id)) \/ Ready(t) \/ Seed(t)
  PROVE  Listing(pass[t])' /\ Counts(t)'
<1> USE DEF serverVars, storeVars, pageVars, engineVars, boundVars
<1>0. /\ TypeInv /\ pass \in [Tabs -> Passes] /\ count \in [Tabs -> Nat]
      /\ mode \in [Tabs -> {"closed", "booting", "unseeded", "up"}]
      /\ store \in [Ids -> Row] /\ saving \in [Tabs -> Seq(SavingType)]
      /\ recovering \in [Tabs -> SUBSET Ids]
  BY DEF SoloInv, SafeInv, TypeInv, EngineType, PageType, QueueType
<1>1. Listing(pass[t]) /\ Counts(t) /\ IsFiniteSet(Queued)
  BY <1>0 DEF SoloInv, WorkInv, TypeInv, ShapeInv
<1>2. ASSUME pass' = pass, Queued \subseteq Queued' PROVE Listing(pass[t])'
  <2>1. PICK p : p = pass[t]
    OBVIOUS
  <2>2. Listing(p)'
    BY <1>1, <1>2, <2>1, ListingKept
  <2> QED
    BY <1>2, <2>1, <2>2 DEF Listing
<1>3. CASE User(t) \/ \E k \in DOMAIN legacy[t] : LegacyPost(t, k)
  <2>1. UNCHANGED <<store, count, mode, pass>>
    BY <1>3 DEF User, Draw, DrawEarly, Author, Trigger, LegacyPost
  <2> QED
    BY <1>1, <2>1, WorkSame
<1>4. CASE Fire(t)
  <2>1. PICK p : Step(t, p) /\ (p = pass[t] \/ p = [Idle EXCEPT !.at = "read"])
    BY <1>4 DEF Fire
  <2>2. Listing(p) \/ p.at \notin Working
    BY <1>1, <2>1 DEF Idle, Working
  <2>3. pass'[t] = p /\ UNCHANGED <<store, count, mode>>
    BY <1>0, <1>4, <2>1 DEF Step, Fire
  <2> QED
    BY <2>2, <2>3, WorkSame
<1>5. CASE Save(t)
  <2>1. PICK id : /\ store' = [store EXCEPT ![id] = Pending]
                  /\ count' = [count EXCEPT ![t] = Cardinality(Queued \cup {id})]
                  /\ pass' = pass
    BY <1>5 DEF Save, Recounted
  <2>2. IsFiniteSet(Queued \cup {id})
    BY <1>1, FS_AddElement
  <2>3. Cardinality(Queued \cup {id}) # 0
    BY <2>2, FS_EmptySet
  <2>4. count'[t] # 0
    BY <1>0, <2>1, <2>3
  <2>5. Queued \subseteq Queued'
    BY <1>0, <2>1 DEF Queued, Pending, Waiting
  <2> QED
    BY <1>2, <2>1, <2>4, <2>5 DEF Counts
<1>6. CASE Crash(t)
  <2>1. pass'[t] = Idle /\ mode'[t] = "closed"
    BY <1>0, <1>6 DEF Crash, Step
  <2> QED
    BY <2>1 DEF Listing, Counts, Idle, Working
<1>7. CASE Open(t)
  <2>1. mode'[t] = "booting" /\ UNCHANGED <<store, pass>>
    BY <1>0, <1>7 DEF Open
  <2>2. Queued' = Queued
    BY <2>1 DEF Queued
  <2> QED
    BY <1>2, <2>1, <2>2 DEF Counts
<1>8. ASSUME NEW id \in recovering[t], Recover(t, id) PROVE Listing(pass[t])' /\ Counts(t)'
  <2>1. mode'[t] = "booting" /\ pass' = pass
    BY <1>8 DEF Recover, SoloInv, BootInv
  <2>2. id \in Ids /\ store' = [store EXCEPT ![id] = [store[id] EXCEPT !.status = "PENDING"]]
    BY <1>0, <1>8 DEF Recover, RecoverRow
  <2>3. store'[id].status = "PENDING" /\ \A i \in Ids : i # id => store'[i] = store[i]
    BY <1>0, <2>2 DEF Row
  <2>4. Queued \subseteq Queued'
    BY <2>3 DEF Queued, Waiting
  <2> QED
    BY <1>2, <2>1, <2>4 DEF Counts
<1>9. CASE Ready(t) \/ Seed(t)
  <2>1. UNCHANGED <<store, pass>> /\ count'[t] = Cardinality(Queued)
    BY <1>0, <1>9 DEF Ready, Seed
  <2>2. Queued' = Queued
    BY <2>1 DEF Queued
  <2>3. Counts(t)'
    BY <1>1, <2>1, <2>2, FS_EmptySet DEF Counts
  <2> QED
    BY <1>2, <2>1, <2>2, <2>3
<1> QED
  BY <1>3, <1>4, <1>5, <1>6, <1>7, <1>8, <1>9

LEMMA WorkPass ==
  ASSUME Solo, SoloInv, [Next]_vars, trim # "dropped", NEW t \in Tabs,
         \/ ReadQueue(t) \/ Mark(t) \/ PostFails(t) \/ Receive(t) \/ Finish(t)
         \/ Post(t) \/ Settle(t) \/ MarkPut(t) \/ Compact(t)
  PROVE  Listing(pass[t])' /\ Counts(t)'
<1> USE DEF serverVars, storeVars, pageVars, engineVars, boundVars
<1>0. /\ TypeInv /\ pass \in [Tabs -> Passes] /\ count \in [Tabs -> Nat]
      /\ store \in [Ids -> Row] /\ key \in [Ids -> Nat]
  BY DEF SoloInv, SafeInv, TypeInv, EngineType, QueueType
<1>1. Listing(pass[t]) /\ Counts(t) /\ IsFiniteSet(Queued) /\ pass[t] \in Passes
  BY <1>0 DEF SoloInv, WorkInv, TypeInv, ShapeInv
<1>2. ASSUME Queued' \subseteq Queued, UNCHANGED <<count, mode>> PROVE Counts(t)'
  BY <1>1, <1>2 DEF Counts
<1>3. ASSUME NEW p, pass'[t] = p, Listing(p)' PROVE Listing(pass[t])'
  BY <1>3 DEF Listing
<1>4. CASE ReadQueue(t)
  <2>1. PICK p : /\ Step(t, p)
                 /\ p.at = "mark" =>
                      /\ Len(p.list) = Cardinality(Queued)
                      /\ \A k \in 1..Len(p.list) : p.list[k].id \in Queued
                      /\ \A j, k \in 1..Len(p.list) : j < k => Before(p.list[j].id, p.list[k].id)
                 /\ p.at \in {"idle", "mark"}
    BY <1>0, <1>4, ReadFacts
  <2>2. /\ count'[t] = Cardinality(Queued) /\ pass'[t] = p
        /\ Queued' = Queued /\ UNCHANGED mode
    BY <1>0, <1>4, <2>1, ReadFacts DEF ReadQueue, Step, Queued
  <2>3. Counts(t)'
    BY <1>1, <2>2, FS_EmptySet DEF Counts
  <2>4. Listing(p)'
    <3>1. ASSUME p.at = "mark", NEW j \in 1..Len(p.list), NEW k \in 1..Len(p.list), j # k
          PROVE  p.list[j].id # p.list[k].id
      <4>1. j < k \/ k < j
        BY <2>1, <3>1, <1>1, FS_CardinalityType
      <4>2. Before(p.list[j].id, p.list[k].id) \/ Before(p.list[k].id, p.list[j].id)
        BY <2>1, <3>1, <4>1
      <4>3. p.list[j].id \in Ids
        BY <2>1, <3>1 DEF Queued
      <4> QED
        BY <1>0, <4>2, <4>3, BeforeOrders
    <3>2. ASSUME p.at = "mark", NEW k \in 1..Len(p.list) PROVE p.list[k].id \in Queued'
      BY <2>1, <2>2, <3>2
    <3> QED
      BY <2>1, <3>1, <3>2 DEF Listing, Working
  <2> QED
    BY <1>3, <2>2, <2>3, <2>4
<1>5. CASE Mark(t) \/ PostFails(t) \/ Receive(t) \/ Post(t) \/ Finish(t)
  <2>1. UNCHANGED <<store, count, mode>>
    BY <1>5 DEF Mark, PostFails, Receive, Post, Finish
  <2>2. CASE Finish(t)
    <3>1. pass'[t] = Idle
      BY <1>0, <2>2 DEF Finish, Step
    <3>2. Idle.at \notin Working
      BY DEF Idle, Working
    <3> QED
      BY <2>1, <3>1, <3>2, WorkSame
  <2>3. CASE Mark(t) \/ PostFails(t) \/ Receive(t) \/ Post(t)
    <3>1. pass[t].at \in Working \ {"compact"}
      BY <2>3 DEF Mark, PostFails, Receive, Post, Working
    <3>2. store[Current(t).id] # None
      <4>1. Current(t).id \in Queued
        BY <1>0, <1>1, <3>1, CurrentWaits
      <4> QED
        BY <4>1 DEF Queued, Waiting, None
    <3>3. PICK p, q : p = pass[t] /\ q = pass'[t]
      OBVIOUS
    <3>4. /\ q.at \in Working /\ q.list = p.list
          /\ q.at = "settle" => q.row # None
      <4>1. CASE Mark(t)
        <5>1. PICK r : \/ q = [p EXCEPT !.at = "post", !.row = r]
                       \/ q = [p EXCEPT !.at = "marking", !.row = r]
          BY <1>0, <3>3, <4>1 DEF Mark, Step
        <5> QED
          BY <1>1, <3>3, <5>1 DEF Working, Passes
      <4>2. CASE Receive(t)
        <5>1. q = [p EXCEPT !.at = "settle", !.row = store[Current(t).id]]
          BY <1>0, <3>3, <4>2 DEF Receive, Step
        <5> QED
          BY <1>1, <3>2, <3>3, <5>1 DEF Working, Passes
      <4>3. CASE Post(t) \/ PostFails(t)
        <5>1. PICK y : q = [p EXCEPT !.at = "reply", !.reply = y]
          BY <1>0, <3>3, <4>3 DEF Post, PostFails, Answered, Step
        <5> QED
          BY <1>1, <3>3, <5>1 DEF Working, Passes
      <4> QED
        BY <2>3, <4>1, <4>2, <4>3
    <3>5. Listing(p) /\ p.at \in Working \ {"compact"}
      BY <1>1, <3>1, <3>3
    <3>6. Listing(q)
      BY <3>4, <3>5, SameListing
    <3> QED
      BY <2>1, <3>3, <3>6, WorkSame
  <2> QED
    BY <1>5, <2>2, <2>3
<1>6. CASE MarkPut(t)
  <2>1. pass[t].at = "marking" /\ Current(t).id \in Queued
    BY <1>0, <1>1, <1>6, CurrentWaits DEF MarkPut, Working
  <2>2. PICK p : pass'[t] = p /\ p = [pass[t] EXCEPT !.at = "post", !.row = None]
    BY <1>0, <1>6 DEF MarkPut, Step
  <2>3. p.at = "post" /\ p.list = pass[t].list
    BY <1>1, <2>2 DEF Passes
  <2>4. Listing(p)
    <3>1. PICK q : q = pass[t]
      OBVIOUS
    <3> QED
      BY <1>1, <2>1, <2>3, <3>1, SameListing DEF Working
  <2>5. Queued' = Queued
    <3>1. store' = [store EXCEPT ![Current(t).id] = [pass[t].row EXCEPT !.status = "SUBMITTING"]]
      BY <1>6 DEF MarkPut
    <3>2. pass[t].row \in Row
      BY <1>1 DEF Passes
    <3>3. store'[Current(t).id].status = "SUBMITTING"
      BY <1>0, <2>1, <3>1, <3>2 DEF Queued, Row
    <3>4. \A i \in Ids : i # Current(t).id => store'[i] = store[i]
      BY <1>0, <3>1
    <3> QED
      BY <2>1, <3>3, <3>4 DEF Queued, Waiting
  <2>6. Listing(p)'
    BY <2>4, <2>5, ListingKept
  <2>7. UNCHANGED <<count, mode>>
    BY <1>6 DEF MarkPut
  <2> QED
    BY <1>2, <1>3, <2>2, <2>5, <2>6, <2>7
<1>7. CASE Settle(t)
  <2>1. /\ pass[t].at = "settle" /\ pass[t].reply.kind # "none" /\ PutSettled(t)
        /\ UNCHANGED <<count, mode>>
    BY <1>0, <1>7, SettleFacts
  <2>2. pass[t].at \in Working \ {"compact"} /\ Current(t).id \in Queued
    BY <1>0, <1>1, <2>1, CurrentWaits DEF Working
  <2>3. \A i \in Ids : i # Current(t).id => store'[i] = store[i]
    BY <1>0, <2>1, PutSettledFacts
  <2>4. /\ Queued' \subseteq Queued
        /\ \A i \in Queued : i # Current(t).id => i \in Queued'
    BY <2>2, <2>3 DEF Queued
  <2>5. PICK p : pass'[t] = p
    OBVIOUS
  <2>6. Listing(p)'
    <3>1. CASE SettleAck(t)
      <4>1. p = [pass[t] EXCEPT !.at = "compact", !.row = None]
        BY <1>0, <2>5, <3>1 DEF SettleAck, Step
      <4>2. p.at = "compact" /\ p.list = pass[t].list
        BY <1>1, <4>1 DEF Passes
      <4>3. \A k \in 1..Len(p.list) : k # 1 => p.list[k].id \in Queued'
        BY <1>0, <1>1, <2>2, <2>4, <4>2, CurrentWaits
      <4>4. \A j, k \in 1..Len(p.list) : j # k => p.list[j].id # p.list[k].id
        BY <1>1, <2>2, <4>2 DEF Listing
      <4> QED
        BY <4>2, <4>3, <4>4 DEF Listing
    <3>2. CASE SettleStale(t) \/ SettleTransient(t)
      <4>1. PICK b : p = Break(pass[t]) \/ p = [Break(pass[t]) EXCEPT !.failed = b]
        BY <1>0, <2>5, <3>2 DEF SettleStale, SettleTransient, Step
      <4>2. Break(pass[t]) \in Passes /\ Break(pass[t]).at = "finish"
        BY <1>0, <2>2, NextOperationType
      <4>3. p.at = "finish"
        BY <4>1, <4>2 DEF Passes
      <4> QED
        BY <4>3 DEF Listing, Working
    <3>3. CASE SettleRefused(t)
      <4>1. p = [NextOperation(pass[t]) EXCEPT !.failed = TRUE]
        BY <1>0, <2>5, <3>3 DEF SettleRefused, Step
      <4>2. /\ NextOperation(pass[t]) \in Passes
            /\ NextOperation(pass[t]).at \in {"mark", "finish"}
            /\ NextOperation(pass[t]).list = Tail(pass[t].list)
        BY <1>0, <2>2, NextOperationType
      <4>3. p.at \in {"mark", "finish"} /\ p.list = Tail(pass[t].list)
        BY <4>1, <4>2 DEF Passes
      <4> QED
        BY <1>0, <1>1, <2>2, <2>4, <4>3, NextListing
    <3> QED
      BY <1>7, <3>1, <3>2, <3>3 DEF Settle
  <2> QED
    BY <1>2, <1>3, <2>1, <2>4, <2>5, <2>6
<1>8. CASE Compact(t)
  <2>1. PICK gone :
          /\ \A id \in gone : store[id].status = "CONFIRMED"
          /\ store' = [id \in Ids |-> IF id \in gone THEN None ELSE store[id]]
    <3> DEFINE v == pass[t].reply.version
               gone == {id \in Ids : /\ store[id].status \in Compactable(v)
                                     /\ id \in InLedger => Sequence(id) <= v}
    <3>1. \A id \in gone : store[id].status = "CONFIRMED"
      BY DEF Compactable
    <3>2. store' = [id \in Ids |-> IF id \in gone THEN None ELSE store[id]]
      BY <1>8 DEF Compact
    <3> QED
      BY <3>1, <3>2
  <2>2. Queued' = Queued
    BY <2>1 DEF Queued, Waiting, None
  <2>3. pass[t].at \in Working /\ UNCHANGED <<count, mode>>
    BY <1>8 DEF Compact, Working
  <2>4. PICK p : pass'[t] = p /\ p = NextOperation(pass[t])
    BY <1>0, <1>8 DEF Compact, Step
  <2>5. p.at \in {"mark", "finish"} /\ p.list = Tail(pass[t].list)
    BY <1>0, <2>3, <2>4, NextOperationType
  <2>6. Listing(p)'
    BY <1>0, <1>1, <2>2, <2>3, <2>5, NextListing
  <2> QED
    BY <1>2, <1>3, <2>2, <2>3, <2>4, <2>6
<1> QED
  BY <1>4, <1>5, <1>6, <1>7, <1>8

LEMMA WorkStep ==
  ASSUME Solo, SoloInv, [Next]_vars
  PROVE  WorkInv'
<1> USE DEF serverVars, storeVars, pageVars, engineVars, boundVars
<1> SUFFICES ASSUME trim' # "dropped", NEW t \in Tabs
             PROVE  Listing(pass[t])' /\ Counts(t)'
  BY DEF WorkInv
<1>0. TypeInv /\ trim # "dropped" /\ Quiet
  BY RowsStep DEF RowsGood, SoloInv, SafeInv
<1>1. Listing(pass[t])
  BY <1>0 DEF SoloInv, WorkInv
<1>2. CASE \/ \E id \in PartnerIds : Partner(id)
           \/ SetOpen(~open) \/ TrimCheck \/ UNCHANGED vars
  <2>1. UNCHANGED <<store, count, mode, pass>>
    BY <1>2 DEF Partner, SetOpen, TrimCheck, vars
  <2> QED
    BY <1>0, <1>1, <2>1, WorkSame
<1>3. CASE TrimDelete
  <2>1. Unacknowledged = {} /\ pass' = pass
    BY <1>3 DEF TrimDelete
  <2>2. Queued = {} /\ Queued' = {}
    BY <1>3, <2>1 DEF TrimDelete, Unacknowledged, Queued, Waiting, None
  <2>3. PICK p : p = pass[t]
    OBVIOUS
  <2>4. Listing(p)'
    BY <1>1, <2>2, <2>3, ListingKept
  <2> QED
    BY <2>1, <2>2, <2>3, <2>4 DEF Listing, Counts
<1>4. ASSUME NEW u \in Tabs,
             \/ User(u) \/ Save(u) \/ Fire(u) \/ Crash(u)
             \/ \E k \in DOMAIN legacy[u] : LegacyPost(u, k)
             \/ Open(u) \/ (\E id \in recovering[u] : Recover(u, id)) \/ Ready(u) \/ Seed(u)
             \/ ReadQueue(u) \/ Mark(u) \/ PostFails(u) \/ Receive(u) \/ Finish(u)
             \/ Post(u) \/ Settle(u) \/ MarkPut(u) \/ Compact(u)
      PROVE  Listing(pass[t])' /\ Counts(t)'
  <2>1. u = t
    BY DEF Solo
  <2>2. Listing(pass[u])' /\ Counts(u)'
    BY <1>0, <1>4, WorkPage, WorkPass
  <2> QED
    BY <2>1, <2>2
<1> QED
  BY <1>0, <1>2, <1>3, <1>4, SoloCases

LEMMA SoloInit == Init => SoloInv
<1> SUFFICES ASSUME Init PROVE SoloInv
  OBVIOUS
<1>1. SafeInv
  BY SafeInit
<1>2. Quiet /\ BootInv
  BY DEF Init, Quiet, BootInv
<1>3. WorkInv
  BY DEF Init, WorkInv, Listing, Counts, Idle, Working
<1> QED
  BY <1>1, <1>2, <1>3 DEF SoloInv

LEMMA SoloStep ==
  ASSUME Solo, SoloInv, [Next]_vars
  PROVE  SoloInv'
<1>1. SafeInv' /\ TypeInv
  BY SafeStep DEF SoloInv, SafeInv
<1>2. Quiet' /\ BootInv'
  BY <1>1, QuietStep, BootStep DEF SoloInv
<1> QED
  BY <1>1, <1>2, WorkStep DEF SoloInv

LEMMA SoloInvariant ==
  ASSUME Solo
  PROVE  Spec => []SoloInv
<1>1. Init => SoloInv
  BY SoloInit
<1>2. SoloInv /\ [Next]_vars => SoloInv'
  BY SoloStep
<1> QED
  BY <1>1, <1>2, PTL DEF Spec

\* With one page and no socket, a page that shows no pending operation tells
\* the truth: each row it ever counted has been acknowledged or has failed,
\* through crashes, recoveries and passes that overlap the start of the page.
THEOREM EmptyIsEmpty ==
  ASSUME Solo
  PROVE  Spec => []SyncedIsTrue
<1>1. SoloInv => SyncedIsTrue
  BY DEF SoloInv, WorkInv, Counts, SyncedIsTrue
<1> QED
  BY <1>1, SoloInvariant, PTL

-----------------------------------------------------------------------------
(* The order of the queue, for one page without a socket, no trims, and     *)
(* operations at least a millisecond apart.  client_sequence follows the    *)
(* order in which the user drew; what is still to be saved comes after all  *)
(* that was saved; and before an operation is posted all the saved ones     *)
(* that come before it are in the ledger, as long as none has failed.       *)

Apart == \A tick \in Ticks : tick > 0

LedgerOnce == \A j, k \in 1..Len(ledger) : ledger[j] = ledger[k] => j = k

DrawnInv ==
  \A j, k \in 1..Len(drawn) : j < k => key[drawn[j]] < key[drawn[k]]

\* What is on the device was saved, what is listed or recovered too.
RowInv ==
  /\ saved \subseteq Members(drawn)
  /\ \A id \in Ids : store[id].status # "NONE" => id \in saved
  /\ \A id \in Ids : store[id].status = "FAILED" => id \in gaveUp
  /\ \A t \in Tabs : recovering[t] \subseteq saved

ListsSaved(p) ==
  p.at \in Working => \A k \in 1..Len(p.list) : p.list[k].id \in saved

SavingInv(t) ==
  \A k \in 1..Len(saving[t]) :
    /\ saving[t][k].id \in Members(drawn) /\ saving[t][k].id \notin InLedger
    /\ \A a \in saved : key[a] < key[saving[t][k].id]
    /\ \A j \in 1..Len(saving[t]) : j < k => key[saving[t][j].id] < key[saving[t][k].id]

\* What was drawn before the store was open never comes to the queue.
LegacyInv(t) ==
  \A k \in 1..Len(legacy[t]) :
    /\ legacy[t][k].id \in Members(drawn) /\ legacy[t][k].id \notin saved
    /\ \A j \in 1..Len(saving[t]) : saving[t][j].id # legacy[t][k].id

\* The ledger has no operation that was not drawn.
LedgerOwn == \A id \in InLedger : id \in Ids => id \in Members(drawn)

LedgerOrder ==
  \A a, b \in saved : key[a] < key[b] /\ b \in InLedger =>
    a \in InLedger /\ Sequence(a) < Sequence(b)

\* Each saved operation that comes before one on the list is in the ledger or
\* before it on the list.
Behind(p) ==
  p.at \in Working =>
    \A k \in 1..Len(p.list) : \A a \in saved : key[a] < key[p.list[k].id] =>
      a \in InLedger \/ \E m \in 1..Len(p.list) : m < k /\ p.list[m].id = a

OrderInv == gaveUp = {} => LedgerOrder /\ \A t \in Tabs : Behind(pass[t])

PlaceInv == \A t \in Tabs : SavingInv(t) /\ LegacyInv(t) /\ ListsSaved(pass[t])

AuthorInv ==
  /\ SoloInv /\ trim = "idle" /\ LedgerOnce /\ DrawnInv
  /\ RowInv /\ PlaceInv /\ LedgerOwn /\ OrderInv

LEMMA AppendedOnce ==
  ASSUME ServerType, LedgerOnce, NEW id \in AllIds, id \notin InLedger,
         ledger' = Append(ledger, id)
  PROVE  /\ LedgerOnce' /\ InLedger' = InLedger \cup {id}
         /\ \A x \in InLedger : Sequence(x)' = Sequence(x)
         /\ Sequence(id)' = Len(ledger) + 1
<1>1. /\ Len(ledger) \in Nat /\ DOMAIN ledger = 1..Len(ledger)
      /\ DOMAIN ledger' = 1..Len(ledger')
      /\ Len(ledger') = Len(ledger) + 1 /\ ledger'[Len(ledger) + 1] = id
      /\ \A k \in 1..Len(ledger) : ledger'[k] = ledger[k]
  <2>1. ledger \in Seq(AllIds)
    BY DEF ServerType
  <2>2. Append(ledger, id) \in Seq(AllIds)
    BY <2>1, AppendProperties
  <2> QED
    BY <2>1, <2>2, AppendProperties, LenProperties
<1>2. \A n \in Nat : 1..(n + 1) = (1..n) \cup {n + 1} /\ n + 1 \notin 1..n
  OBVIOUS
<1>3. /\ DOMAIN ledger' = (1..Len(ledger)) \cup {Len(ledger) + 1}
      /\ Len(ledger) + 1 \notin 1..Len(ledger)
  BY <1>1, <1>2
<1>4. InLedger' = InLedger \cup {id}
  BY <1>1, <1>3 DEF InLedger
<1>5. \A k \in 1..Len(ledger) : ledger[k] # id
  BY <1>1 DEF InLedger
<1>6. LedgerOnce'
  BY <1>1, <1>3, <1>5 DEF LedgerOnce
<1>7. ASSUME NEW x, NEW k \in DOMAIN ledger', ledger'[k] = x PROVE Sequence(x)' = k
  <2>1. Sequence(x)' \in DOMAIN ledger' /\ ledger'[Sequence(x)'] = x
    BY <1>7 DEF Sequence
  <2> QED
    BY <1>1, <1>6, <1>7, <2>1 DEF LedgerOnce
<1>8. \A x \in InLedger : Sequence(x) \in DOMAIN ledger' /\ ledger'[Sequence(x)] = x
  BY <1>1, <1>3, LedgerFacts
<1>9. Len(ledger) + 1 \in DOMAIN ledger'
  BY <1>3
<1> QED
  BY <1>1, <1>4, <1>6, <1>7, <1>8, <1>9

LEMMA OnceStep ==
  ASSUME TypeInv, LedgerOnce, [Next]_vars
  PROVE  LedgerOnce'
<1>1. LedgerStep /\ ServerType
  BY LedgerMoves DEF TypeInv
<1>2. CASE ledger' = ledger
  BY <1>2 DEF LedgerOnce
<1> QED
  BY <1>1, <1>2, AppendedOnce DEF LedgerStep

\* Where an operation that is new to the ledger came from.
LEMMA Sources ==
  ASSUME Solo, SoloInv, [Next]_vars
  PROVE  \/ ledger' = ledger
         \/ /\ UNCHANGED <<key, drawn, saved, saving>>
            /\ \E id \in AllIds :
                 /\ id \notin InLedger /\ ledger' = Append(ledger, id)
                 /\ \/ id \in PartnerIds
                    \/ \E t \in Tabs : pass[t].at = "post" /\ id = Current(t).id
                    \/ \E t \in Tabs : \E k \in 1..Len(legacy[t]) : id = legacy[t][k].id
<1> USE DEF serverVars, storeVars, pageVars, engineVars, boundVars
<1>0. Quiet /\ TypeInv
  BY DEF SoloInv, SafeInv
<1>1. ASSUME NEW t \in Tabs,
             \/ User(t) \/ Save(t) \/ Fire(t) \/ Crash(t)
             \/ Open(t) \/ (\E id \in recovering[t] : Recover(t, id)) \/ Ready(t) \/ Seed(t)
             \/ ReadQueue(t) \/ Mark(t) \/ PostFails(t) \/ Receive(t) \/ Finish(t)
             \/ Settle(t) \/ MarkPut(t) \/ Compact(t)
      PROVE  ledger' = ledger
  <2>1. CASE \/ User(t) \/ Save(t) \/ Fire(t) \/ Crash(t)
             \/ Open(t) \/ (\E id \in recovering[t] : Recover(t, id)) \/ Ready(t) \/ Seed(t)
    BY <2>1 DEF User, Draw, DrawEarly, Author, Trigger, Save, Fire, Crash, Open, Recover,
                Ready, Seed
  <2>2. CASE \/ ReadQueue(t) \/ Mark(t) \/ PostFails(t) \/ Receive(t) \/ Finish(t)
             \/ Settle(t) \/ MarkPut(t) \/ Compact(t)
    BY <2>2 DEF ReadQueue, Mark, PostFails, Receive, Finish, Settle, SettleAck, SettleStale,
                SettleTransient, SettleRefused, MarkPut, Compact
  <2> QED
    BY <1>1, <2>1, <2>2
<1>2. ASSUME NEW t \in Tabs, Post(t)
      PROVE  \/ ledger' = ledger
             \/ /\ UNCHANGED <<key, drawn, saved, saving>>
                /\ Current(t).id \in AllIds /\ Current(t).id \notin InLedger
                /\ ledger' = Append(ledger, Current(t).id) /\ pass[t].at = "post"
  <2>1. Current(t).id \in AllIds
    BY <1>0, <1>2, PassFacts DEF Post, Working, AllIds
  <2> QED
    BY <1>2, <2>1 DEF Post, Process
<1>3. ASSUME NEW t \in Tabs, NEW k \in DOMAIN legacy[t], LegacyPost(t, k)
      PROVE  \/ ledger' = ledger
             \/ /\ UNCHANGED <<key, drawn, saved, saving>>
                /\ k \in 1..Len(legacy[t])
                /\ legacy[t][k].id \in AllIds /\ legacy[t][k].id \notin InLedger
                /\ ledger' = Append(ledger, legacy[t][k].id)
  <2>1. legacy[t] \in Seq(LegacyType)
    BY <1>0 DEF TypeInv, PageType
  <2>2. legacy[t][k] \in LegacyType /\ k \in 1..Len(legacy[t])
    BY <2>1, LenProperties, ElementOfSeq
  <2>3. legacy[t][k].id \in AllIds
    BY <2>2 DEF LegacyType, AllIds
  <2> QED
    BY <1>3, <2>2, <2>3 DEF LegacyPost, Process
<1>4. ASSUME NEW id \in PartnerIds, Partner(id)
      PROVE  /\ UNCHANGED <<key, drawn, saved, saving>>
             /\ id \in AllIds /\ id \notin InLedger /\ ledger' = Append(ledger, id)
  BY <1>4 DEF Partner, AllIds
<1>5. CASE SetOpen(~open) \/ TrimCheck \/ TrimDelete \/ UNCHANGED vars
  BY <1>5 DEF SetOpen, TrimCheck, TrimDelete, vars
<1>6. CASE \E t \in Tabs : Post(t)
  BY <1>2, <1>6
<1>7. CASE \E t \in Tabs : \E k \in DOMAIN legacy[t] : LegacyPost(t, k)
  <2>1. PICK t \in Tabs : \E k \in DOMAIN legacy[t] : LegacyPost(t, k)
    BY <1>7
  <2>2. PICK k \in DOMAIN legacy[t] : LegacyPost(t, k)
    BY <2>1
  <2> QED
    BY <1>3, <2>2
<1>8. CASE \E id \in PartnerIds : Partner(id)
  BY <1>4, <1>8
<1> QED
  BY <1>0, <1>1, <1>5, <1>6, <1>7, <1>8, SoloCases

\* Who touches what is drawn and what is to be saved.
LEMMA QueueMoves ==
  ASSUME Solo, SoloInv, [Next]_vars
  PROVE  \/ UNCHANGED <<key, drawn, saved, saving, legacy>>
         \/ \E t \in Tabs :
              \/ \E id \in Ids, tick \in Ticks : Draw(t, id, tick) \/ DrawEarly(t, id, tick)
              \/ Save(t) \/ Crash(t)
              \/ \E k \in DOMAIN legacy[t] : LegacyPost(t, k)
<1> USE DEF serverVars, storeVars, pageVars, engineVars, boundVars
<1>0. Quiet /\ TypeInv
  BY DEF SoloInv, SafeInv
<1>1. ASSUME NEW t \in Tabs,
             \/ Trigger(t) \/ Fire(t) \/ Open(t) \/ (\E id \in recovering[t] : Recover(t, id))
             \/ Ready(t) \/ Seed(t)
             \/ ReadQueue(t) \/ Mark(t) \/ PostFails(t) \/ Receive(t) \/ Finish(t)
             \/ Post(t) \/ Settle(t) \/ MarkPut(t) \/ Compact(t)
      PROVE  UNCHANGED <<key, drawn, saved, saving, legacy>>
  <2>1. CASE \/ Trigger(t) \/ Fire(t) \/ Open(t) \/ (\E id \in recovering[t] : Recover(t, id))
             \/ Ready(t) \/ Seed(t)
    BY <2>1 DEF Trigger, Fire, Open, Recover, Ready, Seed
  <2>2. CASE \/ ReadQueue(t) \/ Mark(t) \/ PostFails(t) \/ Receive(t) \/ Finish(t)
             \/ Post(t) \/ MarkPut(t) \/ Compact(t)
    BY <2>2 DEF ReadQueue, Mark, PostFails, Receive, Finish, Post, MarkPut, Compact
  <2>3. CASE Settle(t)
    BY <1>0, <2>3, SettleFacts
  <2> QED
    BY <1>1, <2>1, <2>2, <2>3
<1>2. CASE \/ \E id \in PartnerIds : Partner(id)
           \/ SetOpen(~open) \/ TrimCheck \/ TrimDelete \/ UNCHANGED vars
  BY <1>2 DEF Partner, SetOpen, TrimCheck, TrimDelete, vars
<1> QED
  BY <1>0, <1>1, <1>2, SoloCases DEF User

\* The operation just drawn comes after all others.
LEMMA DrawFacts ==
  ASSUME TypeInv, Apart, DrawnInv, NEW t \in Tabs, NEW id \in Ids, NEW tick \in Ticks,
         Author(t, id, tick)
  PROVE  /\ id \notin Members(drawn) /\ Members(drawn)' = Members(drawn) \cup {id}
         /\ \A x \in Members(drawn) : key'[x] = key[x] /\ key[x] < key'[id]
         /\ DrawnInv'
<1>1. /\ drawn \in Seq(Ids) /\ key \in [Ids -> Nat] /\ tick \in Nat /\ tick > 0
      /\ key' = [key EXCEPT ![id] = ClientSequence(tick)] /\ drawn' = Append(drawn, id)
  BY TicksAssumption DEF Author, TypeInv, QueueType, Apart
<1>2. /\ Len(drawn) \in Nat /\ DOMAIN drawn = 1..Len(drawn) /\ Len(drawn') = Len(drawn) + 1
      /\ \A k \in 1..Len(drawn) : drawn[k] \in Ids /\ drawn'[k] = drawn[k]
      /\ drawn'[Len(drawn) + 1] = id
  BY <1>1, AppendProperties, LenProperties, ElementOfSeq
<1>3. Members(drawn)' = Members(drawn) \cup {id}
  BY <1>1, MembersAppend
<1>4. \A k \in 1..Len(drawn) : drawn[k] # id
  BY <1>2 DEF Author, Fresh
<1>5. id \notin Members(drawn)
  BY <1>4 DEF Members
<1>6. ASSUME NEW k \in 1..Len(drawn)
      PROVE  key'[drawn[k]] = key[drawn[k]] /\ key[drawn[k]] < key'[id]
  <2>1. key'[drawn[k]] = key[drawn[k]] /\ key'[id] = ClientSequence(tick)
    BY <1>1, <1>2, <1>4
  <2>2. drawn # <<>> /\ Len(drawn) \in 1..Len(drawn)
    BY <1>2, EmptySeq
  <2>3. ClientSequence(tick) = key[drawn[Len(drawn)]] + tick
    BY <2>2 DEF ClientSequence
  <2>4. /\ key[drawn[k]] \in Nat /\ key[drawn[Len(drawn)]] \in Nat
        /\ k = Len(drawn) \/ k < Len(drawn)
    <3>1. drawn[k] \in Ids /\ drawn[Len(drawn)] \in Ids
      BY <1>2, <2>2
    <3>2. \A n \in Nat : \A m \in 1..n : m = n \/ m < n
      OBVIOUS
    <3>3. k = Len(drawn) \/ k < Len(drawn)
      BY <1>2, <3>2
    <3> QED
      BY <1>1, <3>1, <3>3
  <2>5. key[drawn[k]] <= key[drawn[Len(drawn)]]
    <3>1. k < Len(drawn) => key[drawn[k]] < key[drawn[Len(drawn)]]
      BY <2>2 DEF DrawnInv
    <3> QED
      BY <2>4, <3>1
  <2> QED
    BY <1>1, <2>1, <2>3, <2>4, <2>5
<1>7. DrawnInv'
  <2> SUFFICES ASSUME NEW j \in 1..Len(drawn'), NEW k \in 1..Len(drawn'), j < k
               PROVE  key'[drawn'[j]] < key'[drawn'[k]]
    BY DEF DrawnInv
  <2>1. \A n \in Nat : \A a, b \in 1..n + 1 : a < b => a \in 1..n /\ (b \in 1..n \/ b = n + 1)
    OBVIOUS
  <2>2. j \in 1..Len(drawn) /\ (k \in 1..Len(drawn) \/ k = Len(drawn) + 1)
    BY <1>2, <2>1
  <2> QED
    BY <1>2, <1>6, <2>2 DEF DrawnInv
<1> QED
  BY <1>3, <1>5, <1>6, <1>7 DEF Members

LEMMA DrawnStep ==
  ASSUME Solo, Apart, SoloInv, DrawnInv, [Next]_vars
  PROVE  DrawnInv'
<1> USE DEF serverVars, storeVars, pageVars, engineVars, boundVars
<1>0. TypeInv
  BY DEF SoloInv, SafeInv
<1>1. ASSUME NEW t \in Tabs,
             Save(t) \/ Crash(t) \/ \E k \in DOMAIN legacy[t] : LegacyPost(t, k)
      PROVE  UNCHANGED <<key, drawn>>
  BY <1>1 DEF Save, Crash, LegacyPost
<1>2. ASSUME NEW t \in Tabs, NEW id \in Ids, NEW tick \in Ticks,
             Draw(t, id, tick) \/ DrawEarly(t, id, tick)
      PROVE  DrawnInv'
  BY <1>0, <1>2, DrawFacts DEF Draw, DrawEarly
<1> QED
  BY <1>1, <1>2, QueueMoves DEF DrawnInv

\* The list of a pass after a step: none, the same, the rest of it, or what
\* the pass has just read.
LEMMA PassLists ==
  ASSUME Solo, SoloInv, [Next]_vars, NEW t \in Tabs
  PROVE  \/ pass'[t].at \notin Working
         \/ pass[t].at \in Working /\ pass'[t].list = pass[t].list
         \/ /\ Compact(t) \/ SettleRefused(t)
            /\ pass[t].at \in Working
            /\ pass'[t].list = Tail(pass[t].list)
         \/ /\ Len(pass'[t].list) \in Nat
            /\ \A k \in 1..Len(pass'[t].list) : pass'[t].list[k].id \in Queued
            /\ \A j, k \in 1..Len(pass'[t].list) :
                 j < k => Before(pass'[t].list[j].id, pass'[t].list[k].id)
            /\ \A x \in Queued : \E k \in 1..Len(pass'[t].list) : pass'[t].list[k].id = x
<1>0. /\ TypeInv /\ pass \in [Tabs -> Passes] /\ pass[t] \in Passes
      /\ \A s, u \in Tabs : s = u
  BY DEF SoloInv, SafeInv, TypeInv, EngineType, Solo
<1>1. CASE pass' = pass
  BY <1>1
<1>2. CASE Fire(t) \/ Crash(t) \/ Finish(t)
  <2>1. PICK q : pass'[t] = q /\ (q = pass[t] \/ q = Idle \/ q = [Idle EXCEPT !.at = "read"])
    BY <1>0, <1>2 DEF Fire, Crash, Finish, Step
  <2> QED
    BY <2>1 DEF Idle, Working
<1>3. CASE Mark(t) \/ MarkPut(t) \/ Receive(t) \/ SettleAck(t)
  <2>1. PICK a, r : pass'[t] = [pass[t] EXCEPT !.at = a, !.row = r]
    <3>1. CASE Mark(t)
      BY <1>0, <3>1 DEF Mark, Step
    <3>2. CASE MarkPut(t)
      BY <1>0, <3>2 DEF MarkPut, Step
    <3>3. CASE Receive(t)
      BY <1>0, <3>3 DEF Receive, Step
    <3>4. CASE SettleAck(t)
      BY <1>0, <3>4 DEF SettleAck, Step
    <3> QED
      BY <1>3, <3>1, <3>2, <3>3, <3>4
  <2>2. pass[t].at \in Working
    BY <1>3 DEF Mark, MarkPut, Receive, SettleAck, Working
  <2>3. PICK q : q = pass[t]
    OBVIOUS
  <2>4. [q EXCEPT !.at = a, !.row = r].list = q.list
    BY <1>0, <2>3 DEF Passes
  <2> QED
    BY <2>1, <2>2, <2>3, <2>4
<1>4. CASE Post(t) \/ PostFails(t)
  <2>1. PICK y : pass'[t] = [pass[t] EXCEPT !.at = "reply", !.reply = y]
    BY <1>0, <1>4 DEF Post, PostFails, Answered, Step
  <2>2. pass[t].at \in Working
    BY <1>4 DEF Post, PostFails, Working
  <2>3. PICK q : q = pass[t]
    OBVIOUS
  <2>4. [q EXCEPT !.at = "reply", !.reply = y].list = q.list
    BY <1>0, <2>3 DEF Passes
  <2> QED
    BY <2>1, <2>2, <2>3, <2>4
<1>5. CASE SettleStale(t) \/ SettleTransient(t)
  <2>1. PICK b : \/ pass'[t] = Break(pass[t])
                 \/ pass'[t] = [Break(pass[t]) EXCEPT !.failed = b]
    BY <1>0, <1>5 DEF SettleStale, SettleTransient, Step
  <2>2. Break(pass[t]) \in Passes /\ Break(pass[t]).at = "finish"
    BY <1>0, <1>5, NextOperationType DEF SettleStale, SettleTransient, Working
  <2>3. pass'[t].at = "finish"
    BY <2>1, <2>2 DEF Passes
  <2> QED
    BY <2>3 DEF Working
<1>6. CASE Compact(t) \/ SettleRefused(t)
  <2>1. \/ pass'[t] = NextOperation(pass[t])
        \/ pass'[t] = [NextOperation(pass[t]) EXCEPT !.failed = TRUE]
    BY <1>0, <1>6 DEF Compact, SettleRefused, Step
  <2>2. pass[t].at \in Working
    BY <1>6 DEF Compact, SettleRefused, Working
  <2>3. /\ NextOperation(pass[t]) \in Passes
        /\ NextOperation(pass[t]).list = Tail(pass[t].list)
    BY <1>0, <2>2, NextOperationType
  <2>4. pass'[t].list = Tail(pass[t].list)
    BY <2>1, <2>3 DEF Passes
  <2> QED
    BY <1>6, <2>2, <2>4
<1>7. CASE ReadQueue(t)
  <2>1. PICK q \in Passes :
           /\ Step(t, q)
           /\ \/ q.at = "idle"
              \/ /\ q.at = "mark" /\ Len(q.list) = Cardinality(Queued)
                 /\ \A k \in 1..Len(q.list) : q.list[k].id \in Queued
                 /\ \A j, k \in 1..Len(q.list) :
                      j < k => Before(q.list[j].id, q.list[k].id)
                 /\ \A x \in Queued : \E k \in 1..Len(q.list) : q.list[k].id = x
    BY <1>0, <1>7, ReadFacts
  <2>2. pass'[t] = q /\ Cardinality(Queued) \in Nat
    BY <1>0, <2>1, FS_CardinalityType DEF Step, TypeInv, ShapeInv
  <2> QED
    BY <2>1, <2>2 DEF Working
<1> QED
  BY <1>0, <1>1, <1>2, <1>3, <1>4, <1>5, <1>6, <1>7, PassMoves DEF Settle

\* What a step may change of what is drawn, saved and given up.
LEMMA Grows ==
  ASSUME Solo, Apart, ~ManyBoards, AuthorInv, [Next]_vars
  PROVE  /\ trim' = "idle" /\ gaveUp \subseteq gaveUp'
         /\ saved \subseteq saved' /\ Members(drawn) \subseteq Members(drawn)'
         /\ \A x \in Members(drawn) : key'[x] = key[x]
         /\ \A a \in saved' : a \notin saved =>
              /\ a \in Members(drawn) /\ a \notin InLedger'
              /\ \A b \in saved : key'[b] < key'[a]
<1> USE DEF serverVars, storeVars, pageVars, engineVars, boundVars
<1>0. TypeInv /\ SoloInv
  BY DEF AuthorInv, SoloInv, SafeInv
<1>1. trim' = "idle" /\ gaveUp \subseteq gaveUp'
  <2>1. CASE UNCHANGED <<store, saved, trim, gaveUp>>
    BY <2>1 DEF AuthorInv
  <2>2. CASE TrimCheck \/ TrimDelete
    BY <2>2 DEF TrimCheck, TrimDelete, AuthorInv
  <2>3. ASSUME NEW t \in Tabs,
               \/ Save(t) \/ MarkPut(t) \/ Compact(t)
               \/ \E id \in recovering[t] : Recover(t, id)
               \/ \E c \in confirming[t] : ConfirmPut(t, c)
        PROVE  trim' = trim /\ gaveUp' = gaveUp
    BY <2>3 DEF Save, MarkPut, Compact, Recover, ConfirmPut
  <2>4. ASSUME NEW t \in Tabs, Settle(t) PROVE trim' = trim /\ gaveUp \subseteq gaveUp'
    BY <1>0, <2>4, SettleFacts, PutSettledFacts
  <2> QED
    BY <2>1, <2>2, <2>3, <2>4, RowMoves DEF AuthorInv
<1>2. ASSUME UNCHANGED <<key, drawn, saved>>
      PROVE  /\ saved \subseteq saved' /\ Members(drawn) \subseteq Members(drawn)'
             /\ \A x \in Members(drawn) : key'[x] = key[x]
             /\ \A a \in saved' : a \in saved
  BY <1>2 DEF Members
<1>3. ASSUME NEW t \in Tabs, Crash(t) \/ \E k \in DOMAIN legacy[t] : LegacyPost(t, k)
      PROVE  UNCHANGED <<key, drawn, saved>>
  BY <1>3 DEF Crash, LegacyPost
<1>4. ASSUME NEW t \in Tabs, NEW id \in Ids, NEW tick \in Ticks,
             Draw(t, id, tick) \/ DrawEarly(t, id, tick)
      PROVE  /\ saved' = saved /\ Members(drawn) \subseteq Members(drawn)'
             /\ \A x \in Members(drawn) : key'[x] = key[x]
  <2>1. Author(t, id, tick)
    BY <1>4 DEF Draw, DrawEarly
  <2> QED
    BY <1>0, <2>1, DrawFacts DEF Author, AuthorInv
<1>5. ASSUME NEW t \in Tabs, Save(t)
      PROVE  /\ UNCHANGED <<key, drawn>> /\ saved \subseteq saved'
             /\ \A a \in saved' : a \notin saved =>
                  /\ a \in Members(drawn) /\ a \notin InLedger'
                  /\ \A b \in saved : key'[b] < key'[a]
  <2>1. /\ saving[t] # <<>> /\ saved' = saved \cup {Head(saving[t]).id}
        /\ UNCHANGED <<key, drawn, ledger>>
    BY <1>5 DEF Save
  <2>2. 1 \in 1..Len(saving[t]) /\ Head(saving[t]) = saving[t][1]
    <3>1. saving[t] \in Seq(SavingType)
      BY <1>0 DEF TypeInv, PageType
    <3>2. Len(saving[t]) \in Nat /\ Len(saving[t]) # 0
      BY <2>1, <3>1, LenProperties, EmptySeq
    <3> QED
      BY <2>1, <3>1, <3>2, HeadTailProperties
  <2>3. SavingInv(t)
    BY DEF AuthorInv, PlaceInv
  <2>4. InLedger' = InLedger
    BY <2>1 DEF InLedger
  <2> QED
    BY <2>1, <2>2, <2>3, <2>4 DEF SavingInv
<1>6. /\ saved \subseteq saved' /\ Members(drawn) \subseteq Members(drawn)'
      /\ \A x \in Members(drawn) : key'[x] = key[x]
      /\ \A a \in saved' : a \notin saved =>
           /\ a \in Members(drawn) /\ a \notin InLedger'
           /\ \A b \in saved : key'[b] < key'[a]
  <2>1. CASE UNCHANGED <<key, drawn, saved>>
    BY <1>2, <2>1
  <2>2. CASE \E t \in Tabs : \E id \in Ids, tick \in Ticks : Draw(t, id, tick) \/ DrawEarly(t, id, tick)
    BY <1>4, <2>2
  <2>3. CASE \E t \in Tabs : Save(t)
    BY <1>5, <2>3 DEF Members
  <2> QED
    BY <1>0, <1>3, <2>1, <2>2, <2>3, QueueMoves
<1> QED
  BY <1>1, <1>6

\* The rows are those of saved operations.
LEMMA RowStep ==
  ASSUME Solo, Apart, ~ManyBoards, AuthorInv, [Next]_vars
  PROVE  RowInv'
<1> USE DEF serverVars, storeVars, pageVars, engineVars, boundVars
<1>0. /\ TypeInv /\ SoloInv /\ RowInv /\ Quiet
      /\ store \in [Ids -> Row] /\ pass \in [Tabs -> Passes]
      /\ recovering \in [Tabs -> SUBSET Ids]
  BY DEF AuthorInv, SoloInv, SafeInv, TypeInv, QueueType, EngineType, PageType
<1>1. /\ saved \subseteq saved' /\ Members(drawn) \subseteq Members(drawn)'
      /\ gaveUp \subseteq gaveUp' /\ \A a \in saved' : a \notin saved => a \in Members(drawn)
  BY Grows
<1>2. saved' \subseteq Members(drawn)'
  BY <1>0, <1>1 DEF RowInv
<1>3. ASSUME NEW t \in Tabs, pass[t].at \in Working PROVE Current(t).id \in saved
  <2>1. ListsSaved(pass[t])
    BY DEF AuthorInv, PlaceInv
  <2> QED
    BY <1>0, <1>3, <2>1, ListFacts DEF ListsSaved
<1>4. ASSUME NEW x, \A i \in Ids : i # x => store'[i] = store[i],
             x \in Ids => \/ store'[x] = store[x]
                          \/ x \in saved' /\ (store'[x].status = "FAILED" => x \in gaveUp')
      PROVE  \A id \in Ids : /\ store'[id].status # "NONE" => id \in saved'
                             /\ store'[id].status = "FAILED" => id \in gaveUp'
  BY <1>0, <1>1, <1>4 DEF RowInv
<1>5. \A id \in Ids : /\ store'[id].status # "NONE" => id \in saved'
                      /\ store'[id].status = "FAILED" => id \in gaveUp'
  <2>1. CASE UNCHANGED <<store, saved, trim, gaveUp>> \/ TrimCheck
    BY <2>1, <1>0, <1>1 DEF RowInv, TrimCheck
  <2>2. CASE TrimDelete
    BY <2>2 DEF TrimDelete, None
  <2>3. ASSUME NEW t \in Tabs, Save(t)
        PROVE  \A id \in Ids : /\ store'[id].status # "NONE" => id \in saved'
                               /\ store'[id].status = "FAILED" => id \in gaveUp'
    <3>1. PICK id : store' = [store EXCEPT ![id] = Pending] /\ saved' = saved \cup {id}
      BY <2>3 DEF Save
    <3>2. id \in Ids => store'[id].status = "PENDING"
      BY <1>0, <3>1 DEF Pending
    <3>3. \A i \in Ids : i # id => store'[i] = store[i]
      BY <1>0, <3>1
    <3> QED
      BY <1>4, <3>1, <3>2, <3>3
  <2>4. ASSUME NEW t \in Tabs, MarkPut(t)
        PROVE  \A id \in Ids : /\ store'[id].status # "NONE" => id \in saved'
                               /\ store'[id].status = "FAILED" => id \in gaveUp'
    <3>1. pass[t].at \in Working /\ pass[t].row \in Row
      BY <1>0, <2>4, PassFacts DEF MarkPut, Working
    <3>2. PICK x, r : x = Current(t).id /\ r = [pass[t].row EXCEPT !.status = "SUBMITTING"]
      OBVIOUS
    <3>3. x \in saved' /\ r.status = "SUBMITTING"
      BY <1>1, <1>3, <3>1, <3>2 DEF Row
    <3>4. store' = [store EXCEPT ![x] = r]
      BY <2>4, <3>2 DEF MarkPut
    <3>5. /\ \A i \in Ids : i # x => store'[i] = store[i]
          /\ x \in Ids => store'[x] = r
      BY <1>0, <3>4
    <3> QED
      BY <1>4, <3>3, <3>5
  <2>5. ASSUME NEW t \in Tabs, Settle(t)
        PROVE  \A id \in Ids : /\ store'[id].status # "NONE" => id \in saved'
                               /\ store'[id].status = "FAILED" => id \in gaveUp'
    <3>1. pass[t].at = "settle" /\ pass[t].reply.kind # "none" /\ PutSettled(t)
      BY <1>0, <2>5, SettleFacts
    <3>2. PICK x : x = Current(t).id
      OBVIOUS
    <3>3. x \in saved'
      BY <1>1, <1>3, <3>1, <3>2 DEF Working
    <3>4. /\ \A i \in Ids : i # x => store'[i] = store[i]
          /\ store' = store \/ (store'[x].status = "FAILED" => x \in gaveUp')
      BY <1>0, <3>1, <3>2, PutSettledFacts
    <3> QED
      BY <1>4, <3>3, <3>4
  <2>6. ASSUME NEW t \in Tabs, Compact(t)
        PROVE  \A id \in Ids : /\ store'[id].status # "NONE" => id \in saved'
                               /\ store'[id].status = "FAILED" => id \in gaveUp'
    <3>1. \A i \in Ids : store'[i] = None \/ store'[i] = store[i]
      BY <2>6 DEF Compact
    <3> QED
      BY <1>0, <1>1, <3>1 DEF RowInv, None
  <2>7. ASSUME NEW t \in Tabs, NEW id \in recovering[t], Recover(t, id)
        PROVE  \A i \in Ids : /\ store'[i].status # "NONE" => i \in saved'
                              /\ store'[i].status = "FAILED" => i \in gaveUp'
    <3>1. id \in Ids /\ id \in saved'
      BY <1>0, <1>1 DEF RowInv
    <3>2. store' = [store EXCEPT ![id] = [store[id] EXCEPT !.status = "PENDING"]]
      BY <2>7 DEF Recover, RecoverRow
    <3>3. /\ \A i \in Ids : i # id => store'[i] = store[i]
          /\ store'[id].status = "PENDING"
      BY <1>0, <3>1, <3>2 DEF Row
    <3> QED
      BY <1>4, <3>1, <3>3
  <2>8. ~ \E t \in Tabs : \E c \in confirming[t] : ConfirmPut(t, c)
    BY <1>0 DEF Quiet
  <2>9. \/ UNCHANGED <<store, saved, trim, gaveUp>> \/ TrimCheck \/ TrimDelete
        \/ \E t \in Tabs : Save(t) \/ MarkPut(t) \/ Settle(t) \/ Compact(t)
        \/ \E t \in Tabs : \E id \in recovering[t] : Recover(t, id)
    BY <2>8, RowMoves
  <2>10. CASE \E t \in Tabs : \E id \in recovering[t] : Recover(t, id)
    BY <2>7, <2>10
  <2>11. CASE \E t \in Tabs : Save(t) \/ MarkPut(t) \/ Settle(t) \/ Compact(t)
    BY <2>3, <2>4, <2>5, <2>6, <2>11
  <2> QED
    BY <2>1, <2>2, <2>9, <2>10, <2>11
<1>6. \A t \in Tabs : recovering'[t] \subseteq saved'
  <2>1. ASSUME NEW t \in Tabs, Open(t) PROVE \A u \in Tabs : recovering'[u] \subseteq saved
    <3>1. {id \in Ids : store[id].status = "SUBMITTING"} \subseteq saved
      BY <1>0 DEF RowInv
    <3> QED
      BY <1>0, <2>1, <3>1 DEF Open, RowInv
  <2>2. ASSUME NEW t \in Tabs, Crash(t) \/ \E id \in recovering[t] : Recover(t, id)
        PROVE  \A u \in Tabs : recovering'[u] \subseteq recovering[u]
    BY <1>0, <2>2 DEF Crash, Recover
  <2>3. ASSUME NEW t \in Tabs,
               \/ User(t) \/ Save(t) \/ Fire(t)
               \/ \E k \in DOMAIN legacy[t] : LegacyPost(t, k)
               \/ Ready(t) \/ Seed(t)
        PROVE  recovering' = recovering
    BY <2>3 DEF User, Draw, DrawEarly, Author, Trigger, Save, Fire, LegacyPost, Ready, Seed
  <2>4. ASSUME NEW t \in Tabs,
               \/ ReadQueue(t) \/ Mark(t) \/ PostFails(t) \/ Receive(t) \/ Finish(t)
               \/ Post(t) \/ Settle(t) \/ MarkPut(t) \/ Compact(t)
        PROVE  recovering' = recovering
    BY <2>4 DEF ReadQueue, Mark, PostFails, Receive, Finish, Post, Settle, SettleAck,
                SettleStale, SettleTransient, SettleRefused, MarkPut, Compact
  <2>5. CASE \/ \E id \in PartnerIds : Partner(id)
             \/ SetOpen(~open) \/ TrimCheck \/ TrimDelete \/ UNCHANGED vars
    BY <2>5, <1>0, <1>1 DEF Partner, SetOpen, TrimCheck, TrimDelete, vars, RowInv
  <2> QED
    BY <1>0, <1>1, <2>1, <2>2, <2>3, <2>4, <2>5, SoloCases DEF RowInv
<1> QED
  BY <1>2, <1>5, <1>6 DEF RowInv

LEMMA ListsStep ==
  ASSUME Solo, Apart, ~ManyBoards, AuthorInv, [Next]_vars, NEW t \in Tabs
  PROVE  ListsSaved(pass[t])'
<1>0. TypeInv /\ SoloInv /\ RowInv
  BY DEF AuthorInv, SoloInv, SafeInv
<1>1. saved \subseteq saved' /\ ListsSaved(pass[t])
  BY Grows DEF AuthorInv, PlaceInv
<1>2. PICK q : q = pass'[t]
  OBVIOUS
<1>3. q.at \in Working => \A k \in 1..Len(q.list) : q.list[k].id \in saved
  <2>1. CASE q.at \notin Working
    BY <2>1
  <2>2. CASE pass[t].at \in Working /\ q.list = pass[t].list
    BY <1>1, <2>2 DEF ListsSaved
  <2>3. CASE pass[t].at \in Working /\ q.list = Tail(pass[t].list)
    <3>1. \A k \in 1..Len(q.list) :
            k + 1 \in 1..Len(pass[t].list) /\ q.list[k] = pass[t].list[k + 1]
      BY <1>0, <2>3, ListFacts
    <3> QED
      BY <1>1, <2>3, <3>1 DEF ListsSaved
  <2>4. CASE \A k \in 1..Len(q.list) : q.list[k].id \in Queued
    BY <1>0, <2>4 DEF Queued, Waiting, RowInv
  <2> QED
    BY <1>0, <1>2, <2>1, <2>2, <2>3, <2>4, PassLists
<1> QED
  BY <1>1, <1>2, <1>3 DEF ListsSaved

\* The current operation of a pass was saved; those to be saved were not.
LEMMA Distinct ==
  ASSUME AuthorInv, NEW t \in Tabs
  PROVE  /\ pass[t].at \in Working => Current(t).id \in saved
         /\ \A k \in 1..Len(saving[t]) :
              saving[t][k].id \in Ids /\ saving[t][k].id \notin saved
         /\ \A k \in 1..Len(legacy[t]) :
              legacy[t][k].id \in Ids /\ legacy[t][k].id \notin saved
<1>0. TypeInv /\ SavingInv(t) /\ LegacyInv(t) /\ ListsSaved(pass[t])
  BY DEF AuthorInv, SoloInv, SafeInv, PlaceInv
<1>1. Members(drawn) \subseteq Ids /\ key \in [Ids -> Nat] /\ saved \subseteq Ids
  BY <1>0, MembersType DEF TypeInv, QueueType
<1>2. \A a \in saved : ~(key[a] < key[a])
  BY <1>1
<1>3. pass[t].at \in Working => Current(t).id \in saved
  BY <1>0, ListFacts DEF ListsSaved
<1>4. \A k \in 1..Len(saving[t]) :
        saving[t][k].id \in Ids /\ saving[t][k].id \notin saved
  BY <1>0, <1>1, <1>2 DEF SavingInv
<1> QED
  BY <1>0, <1>1, <1>3, <1>4 DEF LegacyInv

\* No step puts into the ledger what is still to be saved.
LEMMA SavingNotTold ==
  ASSUME Solo, AuthorInv, [Next]_vars, NEW t \in Tabs, NEW k \in 1..Len(saving[t])
  PROVE  saving[t][k].id \notin InLedger'
<1>0. /\ SoloInv /\ ServerType /\ LedgerOnce /\ SavingInv(t) /\ LegacyInv(t)
      /\ \A s, u \in Tabs : s = u
  BY DEF AuthorInv, SoloInv, SafeInv, TypeInv, PlaceInv, Solo
<1>1. saving[t][k].id \notin InLedger /\ saving[t][k].id \in Ids /\ saving[t][k].id \notin saved
  BY <1>0, Distinct DEF SavingInv
<1>2. CASE ledger' = ledger
  BY <1>1, <1>2 DEF InLedger
<1>3. ASSUME NEW id \in AllIds, id \notin InLedger, ledger' = Append(ledger, id),
             \/ id \in PartnerIds
             \/ \E u \in Tabs : pass[u].at = "post" /\ id = Current(u).id
             \/ \E u \in Tabs : \E m \in 1..Len(legacy[u]) : id = legacy[u][m].id
      PROVE  saving[t][k].id \notin InLedger'
  <2>1. InLedger' = InLedger \cup {id}
    BY <1>0, <1>3, AppendedOnce
  <2>2. CASE id \in PartnerIds
    BY <1>1, <2>1, <2>2, SyncIdsAssumption
  <2>3. CASE \E u \in Tabs : pass[u].at = "post" /\ id = Current(u).id
    <3>1. id \in saved
      BY <2>3, Distinct DEF Working
    <3> QED
      BY <1>1, <2>1, <3>1
  <2>4. CASE \E u \in Tabs : \E m \in 1..Len(legacy[u]) : id = legacy[u][m].id
    <3>1. PICK m \in 1..Len(legacy[t]) : id = legacy[t][m].id
      BY <1>0, <2>4
    <3> QED
      BY <1>0, <1>1, <2>1, <3>1 DEF LegacyInv
  <2> QED
    BY <1>3, <2>2, <2>3, <2>4
<1> QED
  BY <1>0, <1>2, <1>3, Sources

LEMMA OwnStep ==
  ASSUME Solo, Apart, ~ManyBoards, AuthorInv, [Next]_vars
  PROVE  LedgerOwn'
<1>0. /\ SoloInv /\ ServerType /\ LedgerOnce /\ LedgerOwn /\ RowInv
      /\ \A u \in Tabs : LegacyInv(u)
  BY DEF AuthorInv, SoloInv, SafeInv, TypeInv, PlaceInv
<1>1. Members(drawn) \subseteq Members(drawn)'
  BY Grows
<1>2. CASE ledger' = ledger
  BY <1>0, <1>1, <1>2 DEF LedgerOwn, InLedger
<1>3. ASSUME NEW id \in AllIds, id \notin InLedger, ledger' = Append(ledger, id),
             \/ id \in PartnerIds
             \/ \E u \in Tabs : pass[u].at = "post" /\ id = Current(u).id
             \/ \E u \in Tabs : \E m \in 1..Len(legacy[u]) : id = legacy[u][m].id
      PROVE  LedgerOwn'
  <2>1. InLedger' = InLedger \cup {id}
    BY <1>0, <1>3, AppendedOnce
  <2>2. id \in Ids => id \in Members(drawn)
    <3>1. CASE id \in PartnerIds
      BY <3>1, SyncIdsAssumption
    <3>2. CASE \E u \in Tabs : pass[u].at = "post" /\ id = Current(u).id
      <4>1. id \in saved
        BY <3>2, Distinct DEF Working
      <4> QED
        BY <1>0, <4>1 DEF RowInv
    <3>3. CASE \E u \in Tabs : \E m \in 1..Len(legacy[u]) : id = legacy[u][m].id
      BY <1>0, <3>3 DEF LegacyInv
    <3> QED
      BY <1>3, <3>1, <3>2, <3>3
  <2> QED
    BY <1>0, <1>1, <2>1, <2>2 DEF LedgerOwn
<1> QED
  BY <1>0, <1>2, <1>3, Sources

LEMMA PlaceDraw ==
  ASSUME Solo, Apart, AuthorInv, NEW t \in Tabs, NEW id \in Ids, NEW tick \in Ticks,
         Draw(t, id, tick) \/ DrawEarly(t, id, tick)
  PROVE  SavingInv(t)' /\ LegacyInv(t)'
<1> USE DEF serverVars, storeVars, pageVars, engineVars, boundVars
<1>0. /\ TypeInv /\ SavingInv(t) /\ LegacyInv(t) /\ RowInv /\ LedgerOwn /\ DrawnInv
      /\ saving \in [Tabs -> Seq(SavingType)] /\ legacy \in [Tabs -> Seq(LegacyType)]
  BY DEF AuthorInv, SoloInv, SafeInv, TypeInv, PageType, PlaceInv
<1>1. Author(t, id, tick) /\ saved' = saved /\ ledger' = ledger
  BY <1>0 DEF Draw, DrawEarly, Author
<1>2. /\ id \notin Members(drawn) /\ Members(drawn)' = Members(drawn) \cup {id}
      /\ \A x \in Members(drawn) : key'[x] = key[x] /\ key[x] < key'[id]
  BY <1>0, <1>1, DrawFacts
<1>3. InLedger' = InLedger /\ id \notin InLedger /\ saved \subseteq Members(drawn)
  BY <1>0, <1>1, <1>2 DEF InLedger, LedgerOwn, RowInv
<1>4. ASSUME NEW k \in 1..Len(saving[t])
      PROVE  /\ saving[t][k].id \in Members(drawn) /\ saving[t][k].id \notin InLedger
             /\ \A a \in saved : key'[a] < key'[saving[t][k].id]
             /\ \A j \in 1..Len(saving[t]) : j < k => key'[saving[t][j].id] < key'[saving[t][k].id]
             /\ key'[saving[t][k].id] < key'[id] /\ saving[t][k].id # id
  BY <1>0, <1>2, <1>3 DEF SavingInv
<1>5. ASSUME saving' = saving PROVE SavingInv(t)'
  BY <1>1, <1>2, <1>3, <1>4, <1>5 DEF SavingInv
<1>6. ASSUME saving'[t] = Append(saving[t], [id |-> id, push |-> ~live[t]])
      PROVE  /\ SavingInv(t)'
             /\ \A j \in 1..Len(saving'[t]) :
                  \/ saving'[t][j].id = id
                  \/ j \in 1..Len(saving[t]) /\ saving'[t][j] = saving[t][j]
  <2>1. PICK e : e = [id |-> id, push |-> ~live[t]]
    OBVIOUS
  <2>2. e \in SavingType /\ e.id = id
    BY <1>0, <2>1 DEF SavingType, TypeInv, PageType
  <2>3. /\ Len(saving[t]) \in Nat /\ Len(saving'[t]) = Len(saving[t]) + 1
        /\ \A k \in 1..Len(saving[t]) : saving'[t][k] = saving[t][k]
        /\ saving'[t][Len(saving[t]) + 1] = e
    BY <1>0, <1>6, <2>1, <2>2, AppendProperties, LenProperties
  <2>4. \A n \in Nat : \A j, k \in 1..n + 1 :
          (k \in 1..n \/ k = n + 1) /\ (j < k => j \in 1..n)
    OBVIOUS
  <2>5. \A j, k \in 1..Len(saving'[t]) :
          /\ k \in 1..Len(saving[t]) \/ k = Len(saving[t]) + 1
          /\ j < k => j \in 1..Len(saving[t])
    BY <2>3, <2>4
  <2>6. ASSUME NEW k \in 1..Len(saving'[t])
        PROVE  /\ saving'[t][k].id \in Members(drawn)' /\ saving'[t][k].id \notin InLedger'
               /\ \A a \in saved' : key'[a] < key'[saving'[t][k].id]
               /\ \A j \in 1..Len(saving'[t]) :
                    j < k => key'[saving'[t][j].id] < key'[saving'[t][k].id]
    <3>1. CASE k \in 1..Len(saving[t])
      BY <1>1, <1>2, <1>3, <1>4, <2>3, <2>5, <3>1
    <3>2. CASE k = Len(saving[t]) + 1
      <4>1. saving'[t][k].id = id
        BY <2>2, <2>3, <3>2
      <4> QED
        BY <1>1, <1>2, <1>3, <1>4, <2>3, <2>5, <4>1
    <3> QED
      BY <2>5, <3>1, <3>2
  <2> QED
    BY <2>2, <2>3, <2>5, <2>6 DEF SavingInv
<1>7. ASSUME NEW m \in 1..Len(legacy[t])
      PROVE  /\ legacy[t][m].id \in Members(drawn)' /\ legacy[t][m].id \notin saved'
             /\ \A j \in 1..Len(saving[t]) : saving[t][j].id # legacy[t][m].id
             /\ legacy[t][m].id # id
  BY <1>0, <1>1, <1>2 DEF LegacyInv
<1>8. CASE Draw(t, id, tick)
  <2>1. /\ legacy' = legacy
        /\ saving' = saving \/ saving'[t] = Append(saving[t], [id |-> id, push |-> ~live[t]])
    BY <1>0, <1>8 DEF Draw
  <2>2. CASE saving' = saving
    BY <1>5, <1>7, <2>1, <2>2 DEF LegacyInv
  <2>3. CASE saving'[t] = Append(saving[t], [id |-> id, push |-> ~live[t]])
    BY <1>6, <1>7, <2>1, <2>3 DEF LegacyInv
  <2> QED
    BY <2>1, <2>2, <2>3
<1>9. CASE DrawEarly(t, id, tick)
  <2>1. PICK e : e = [id |-> id, at |-> "sent"]
    OBVIOUS
  <2>2. saving' = saving /\ legacy'[t] = Append(legacy[t], e) /\ e.id = id /\ e \in LegacyType
    BY <1>0, <1>9, <2>1 DEF DrawEarly, LegacyType
  <2>3. /\ Len(legacy[t]) \in Nat /\ Len(legacy'[t]) = Len(legacy[t]) + 1
        /\ \A k \in 1..Len(legacy[t]) : legacy'[t][k] = legacy[t][k]
        /\ legacy'[t][Len(legacy[t]) + 1] = e
    BY <1>0, <2>2, AppendProperties, LenProperties
  <2>4. \A n \in Nat : \A k \in 1..n + 1 : k \in 1..n \/ k = n + 1
    OBVIOUS
  <2>5. \A k \in 1..Len(legacy'[t]) : k \in 1..Len(legacy[t]) \/ k = Len(legacy[t]) + 1
    BY <2>3, <2>4
  <2>6. /\ id \in Members(drawn)' /\ id \notin saved'
        /\ \A j \in 1..Len(saving[t]) : saving[t][j].id # id
    BY <1>1, <1>2, <1>3, <1>4
  <2>7. ASSUME NEW m \in 1..Len(legacy'[t])
        PROVE  /\ legacy'[t][m].id \in Members(drawn)' /\ legacy'[t][m].id \notin saved'
               /\ \A j \in 1..Len(saving'[t]) : saving'[t][j].id # legacy'[t][m].id
    <3>1. CASE m \in 1..Len(legacy[t])
      BY <1>7, <2>2, <2>3, <3>1
    <3>2. CASE m = Len(legacy[t]) + 1
      BY <2>2, <2>3, <2>6, <3>2
    <3> QED
      BY <2>5, <3>1, <3>2
  <2> QED
    BY <1>5, <2>2, <2>7 DEF LegacyInv
<1> QED
  BY <1>8, <1>9

LEMMA PlaceSave ==
  ASSUME Solo, AuthorInv, NEW t \in Tabs, Save(t)
  PROVE  SavingInv(t)' /\ LegacyInv(t)'
<1> USE DEF serverVars, storeVars, pageVars, engineVars, boundVars
<1>0. /\ TypeInv /\ SavingInv(t) /\ LegacyInv(t)
      /\ saving \in [Tabs -> Seq(SavingType)]
  BY DEF AuthorInv, SoloInv, SafeInv, TypeInv, PageType, PlaceInv
<1>1. /\ saving[t] # <<>> /\ saving'[t] = Tail(saving[t])
      /\ saved' = saved \cup {Head(saving[t]).id}
      /\ UNCHANGED <<key, drawn, ledger, legacy>>
  BY <1>0 DEF Save
<1>2. /\ Len(saving[t]) \in Nat /\ Len(saving[t]) # 0
      /\ Head(saving[t]) = saving[t][1] /\ Len(Tail(saving[t])) = Len(saving[t]) - 1
      /\ \A k \in 1..Len(saving[t]) - 1 : Tail(saving[t])[k] = saving[t][k + 1]
  BY <1>0, <1>1, LenProperties, EmptySeq, HeadTailProperties
<1>3. \A n \in Nat : n # 0 => 1 \in 1..n /\ \A j, k \in 1..n - 1 :
        k + 1 \in 1..n /\ 1 < k + 1 /\ (j < k => j + 1 < k + 1)
  OBVIOUS
<1>4. /\ 1 \in 1..Len(saving[t])
      /\ \A j, k \in 1..Len(saving'[t]) :
           /\ k + 1 \in 1..Len(saving[t]) /\ 1 < k + 1 /\ (j < k => j + 1 < k + 1)
           /\ saving'[t][k] = saving[t][k + 1]
  BY <1>1, <1>2, <1>3
<1>5. InLedger' = InLedger /\ Members(drawn)' = Members(drawn)
  BY <1>1 DEF InLedger
<1>6. ASSUME NEW k \in 1..Len(saving'[t])
      PROVE  /\ saving'[t][k].id \in Members(drawn)' /\ saving'[t][k].id \notin InLedger'
             /\ \A a \in saved' : key'[a] < key'[saving'[t][k].id]
             /\ \A j \in 1..Len(saving'[t]) :
                  j < k => key'[saving'[t][j].id] < key'[saving'[t][k].id]
  <2>1. saving'[t][k] = saving[t][k + 1] /\ k + 1 \in 1..Len(saving[t]) /\ 1 < k + 1
    BY <1>4
  <2>2. /\ saving[t][k + 1].id \in Members(drawn) /\ saving[t][k + 1].id \notin InLedger
        /\ \A a \in saved : key[a] < key[saving[t][k + 1].id]
        /\ key[saving[t][1].id] < key[saving[t][k + 1].id]
    BY <1>0, <1>4, <2>1 DEF SavingInv
  <2>3. ASSUME NEW j \in 1..Len(saving'[t]), j < k
        PROVE  key'[saving'[t][j].id] < key'[saving'[t][k].id]
    BY <1>0, <1>1, <1>4, <2>3 DEF SavingInv
  <2> QED
    BY <1>1, <1>2, <1>5, <2>1, <2>2, <2>3
<1>7. SavingInv(t)'
  BY <1>6 DEF SavingInv
<1>8. LegacyInv(t)'
  BY <1>0, <1>1, <1>2, <1>4, <1>5 DEF LegacyInv
<1> QED
  BY <1>7, <1>8

LEMMA PlaceStep ==
  ASSUME Solo, Apart, ~ManyBoards, AuthorInv, [Next]_vars
  PROVE  PlaceInv'
<1> USE DEF serverVars, storeVars, pageVars, engineVars, boundVars
<1> SUFFICES ASSUME NEW t \in Tabs PROVE SavingInv(t)' /\ LegacyInv(t)'
  BY ListsStep DEF PlaceInv
<1>0. /\ SoloInv /\ SavingInv(t) /\ LegacyInv(t) /\ \A s, u \in Tabs : s = u
      /\ saving \in [Tabs -> Seq(SavingType)] /\ legacy \in [Tabs -> Seq(LegacyType)]
  BY DEF AuthorInv, SoloInv, SafeInv, TypeInv, PageType, PlaceInv, Solo
<1>1. \A k \in 1..Len(saving[t]) : saving[t][k].id \notin InLedger'
  BY SavingNotTold
<1>2. ASSUME UNCHANGED <<key, drawn, saved, saving>> PROVE SavingInv(t)'
  BY <1>0, <1>1, <1>2 DEF SavingInv
<1>3. CASE UNCHANGED <<key, drawn, saved, saving, legacy>>
  BY <1>0, <1>2, <1>3 DEF LegacyInv
<1>4. CASE \E id \in Ids, tick \in Ticks : Draw(t, id, tick) \/ DrawEarly(t, id, tick)
  BY <1>4, PlaceDraw
<1>5. CASE Save(t)
  BY <1>5, PlaceSave
<1>6. CASE Crash(t)
  <2>1. saving'[t] = <<>> /\ legacy'[t] = <<>>
    BY <1>0, <1>6 DEF Crash
  <2>2. Len(<<>>) = 0 /\ \A k \in 1..0 : FALSE
    BY EmptySeq
  <2> QED
    BY <2>1, <2>2 DEF SavingInv, LegacyInv
<1>7. CASE \E k \in DOMAIN legacy[t] : LegacyPost(t, k)
  <2>1. PICK k \in DOMAIN legacy[t] : LegacyPost(t, k)
    BY <1>7
  <2>2. UNCHANGED <<key, drawn, saved, saving>>
    BY <2>1 DEF LegacyPost
  <2>3. PICK x \in {"gone", "kept"} : legacy' = [legacy EXCEPT ![t][k].at = x]
    BY <2>1 DEF LegacyPost
  <2>4. /\ legacy[t] \in Seq(LegacyType) /\ k \in 1..Len(legacy[t])
        /\ legacy[t] \in [1..Len(legacy[t]) -> LegacyType]
    BY <1>0, LenProperties
  <2>5. PICK e : e = [legacy[t][k] EXCEPT !.at = x]
    OBVIOUS
  <2>6. e \in LegacyType /\ e.id = legacy[t][k].id
    BY <2>4, <2>5 DEF LegacyType
  <2>7. legacy'[t] = [legacy[t] EXCEPT ![k] = e]
    BY <1>0, <2>3, <2>5
  <2>8. /\ Len(legacy'[t]) = Len(legacy[t])
        /\ \A m \in 1..Len(legacy[t]) : legacy'[t][m].id = legacy[t][m].id
    <3>1. legacy'[t] \in Seq(LegacyType) /\ Len(legacy'[t]) = Len(legacy[t])
      BY <2>4, <2>6, <2>7, ExceptSeq
    <3> QED
      BY <2>4, <2>6, <2>7, <3>1
  <2>9. LegacyInv(t)'
    BY <1>0, <2>2, <2>8 DEF LegacyInv
  <2> QED
    BY <1>2, <2>2, <2>9
<1>8. \/ UNCHANGED <<key, drawn, saved, saving, legacy>>
      \/ \E id \in Ids, tick \in Ticks : Draw(t, id, tick) \/ DrawEarly(t, id, tick)
      \/ Save(t) \/ Crash(t)
      \/ \E k \in DOMAIN legacy[t] : LegacyPost(t, k)
  BY <1>0, QueueMoves
<1> QED
  BY <1>3, <1>4, <1>5, <1>6, <1>7, <1>8

\* A pass, after a step, has nothing saved before its operations but what is
\* in the ledger or before them on the list.
LEMMA BehindStep ==
  ASSUME Solo, Apart, ~ManyBoards, AuthorInv, [Next]_vars, gaveUp' = {}, NEW t \in Tabs
  PROVE  Behind(pass[t])'
<1>0. /\ TypeInv /\ SoloInv /\ RowInv /\ gaveUp = {} /\ key \in [Ids -> Nat]
      /\ saved \subseteq Ids
  BY Grows DEF AuthorInv, SoloInv, SafeInv, TypeInv, QueueType
<1>1. Behind(pass[t]) /\ ListsSaved(pass[t]) /\ ListsSaved(pass[t])'
  BY <1>0, ListsStep DEF AuthorInv, OrderInv, PlaceInv
<1>2. PICK q : q = pass'[t]
  OBVIOUS
<1>3. Behind(q) /\ ListsSaved(q)
  <2>1. CASE q.at \notin Working
    BY <2>1 DEF Behind, ListsSaved
  <2>2. CASE pass[t].at \in Working /\ q.list = pass[t].list
    BY <1>1, <2>2 DEF Behind, ListsSaved
  <2>3. CASE /\ Compact(t) \/ SettleRefused(t)
             /\ pass[t].at \in Working /\ q.list = Tail(pass[t].list)
    <3>1. /\ Len(pass[t].list) \in Nat /\ Len(q.list) = Len(pass[t].list) - 1
          /\ pass[t].list[1] = Current(t)
          /\ \A k \in 1..Len(q.list) :
               k + 1 \in 1..Len(pass[t].list) /\ q.list[k] = pass[t].list[k + 1]
      BY <1>0, <2>3, ListFacts
    <3>2. Current(t).id \in InLedger
      <4>1. CASE Compact(t)
        BY <4>1 DEF Compact, AuthorInv, SoloInv, SafeInv, AnswerInv, Truthful, Answering, Current
      <4>2. CASE SettleRefused(t)
        <5>1. /\ pass[t].at = "settle" /\ pass[t].reply.kind = "refused" /\ PutSettled(t)
          BY <4>2 DEF SettleRefused
        <5>2. Listing(pass[t])
          BY DEF AuthorInv, SoloInv, WorkInv
        <5>3. pass[t].row # None
          BY <5>1, <5>2 DEF Listing, Working
        <5>4. Current(t).id \in gaveUp'
          BY <1>0, <5>1, <5>3, PutSettledFacts
        <5> QED
          BY <5>4
      <4> QED
        BY <2>3, <4>1, <4>2
    <3>3. \A n \in Nat : \A m \in 1..n : m = 1 \/ (m - 1 \in 1..n - 1 /\ (m - 1) + 1 = m
                                                   /\ \A k \in 1..n - 1 : m < k + 1 => m - 1 < k)
      OBVIOUS
    <3>4. ASSUME NEW k \in 1..Len(q.list), NEW a \in saved, key[a] < key[q.list[k].id],
                 a \notin InLedger
          PROVE  \E m \in 1..Len(q.list) : m < k /\ q.list[m].id = a
      <4>1. PICK m \in 1..Len(pass[t].list) : m < k + 1 /\ pass[t].list[m].id = a
        BY <1>1, <2>3, <3>1, <3>4 DEF Behind
      <4>2. m # 1
        BY <3>1, <3>2, <3>4, <4>1
      <4>3. m - 1 \in 1..Len(q.list) /\ (m - 1) + 1 = m /\ m - 1 < k
        BY <3>1, <3>3, <4>1, <4>2
      <4>4. q.list[m - 1].id = a
        BY <3>1, <4>1, <4>3
      <4> QED
        BY <4>3, <4>4
    <3> QED
      BY <1>1, <2>3, <3>1, <3>4 DEF Behind, ListsSaved
  <2>4. CASE /\ Len(q.list) \in Nat
             /\ \A k \in 1..Len(q.list) : q.list[k].id \in Queued
             /\ \A j, k \in 1..Len(q.list) : j < k => Before(q.list[j].id, q.list[k].id)
             /\ \A x \in Queued : \E k \in 1..Len(q.list) : q.list[k].id = x
    <3>1. ASSUME NEW k \in 1..Len(q.list), NEW a \in saved, key[a] < key[q.list[k].id],
                 a \notin InLedger
          PROVE  \E m \in 1..Len(q.list) : m < k /\ q.list[m].id = a
      <4>1. a \in Unacknowledged
        BY <3>1 DEF AuthorInv, SoloInv, SafeInv, NothingLost
      <4>2. a \in Queued
        BY <1>0, <4>1 DEF Unacknowledged, Queued, RowInv
      <4>3. PICK m \in 1..Len(q.list) : q.list[m].id = a
        BY <2>4, <4>2
      <4>4. q.list[k].id \in Ids /\ q.list[m].id \in Ids
        BY <2>4 DEF Queued
      <4>5. key[q.list[k].id] \in Nat /\ key[q.list[m].id] \in Nat
        BY <1>0, <4>4
      <4>6. ~Before(q.list[k].id, q.list[m].id)
        BY <3>1, <4>3, <4>5 DEF Before
      <4>7. ~(k < m) /\ k # m
        BY <2>4, <3>1, <4>3, <4>5, <4>6
      <4>8. m < k
        BY <4>7
      <4> QED
        BY <4>3, <4>8
    <3> QED
      BY <1>0, <2>4, <3>1 DEF Behind, ListsSaved, Queued, Waiting, RowInv
  <2> QED
    BY <1>0, <1>2, <2>1, <2>2, <2>3, <2>4, PassLists
<1>4. /\ InLedger \subseteq InLedger' /\ saved \subseteq Members(drawn)
      /\ \A x \in Members(drawn) : key'[x] = key[x]
      /\ \A a \in saved' : a \notin saved => \A b \in saved : key'[b] < key'[a]
  BY <1>0, LedgerMoves, LedgerKept, Grows DEF TypeInv, RowInv
<1>5. TypeInv' /\ key' \in [Ids -> Nat] /\ saved' \subseteq Ids
  BY <1>0, TypeStep DEF TypeInv, QueueType
<1>6. ASSUME q.at \in Working, NEW k \in 1..Len(q.list), NEW a \in saved',
             key'[a] < key'[q.list[k].id]
      PROVE  a \in InLedger' \/ \E m \in 1..Len(q.list) : m < k /\ q.list[m].id = a
  <2>1. q.list[k].id \in saved
    BY <1>3, <1>6 DEF ListsSaved
  <2>2. a \in saved
    <3>1. ASSUME a \notin saved PROVE FALSE
      <4>1. key'[q.list[k].id] < key'[a]
        BY <1>4, <2>1, <3>1
      <4>2. key'[q.list[k].id] \in Nat /\ key'[a] \in Nat
        BY <1>0, <1>5, <2>1
      <4> QED
        BY <1>6, <4>1, <4>2
    <3> QED
      BY <3>1
  <2>3. key[a] < key[q.list[k].id]
    BY <1>4, <1>6, <2>1, <2>2
  <2> QED
    BY <1>3, <1>4, <1>6, <2>2, <2>3 DEF Behind
<1> QED
  BY <1>2, <1>6 DEF Behind

\* Saved operations come to the ledger in the order of their keys.
LEMMA LedgerOrderStep ==
  ASSUME Solo, Apart, ~ManyBoards, AuthorInv, [Next]_vars, gaveUp' = {}
  PROVE  LedgerOrder'
<1>0. /\ TypeInv /\ ServerType /\ LedgerOnce /\ SoloInv /\ RowInv /\ gaveUp = {}
      /\ LedgerOrder /\ (\A t \in Tabs : Behind(pass[t]))
      /\ key \in [Ids -> Nat] /\ saved \subseteq Ids
  BY Grows DEF AuthorInv, OrderInv, SoloInv, SafeInv, TypeInv, QueueType
<1>1. /\ saved \subseteq saved' /\ saved \subseteq Members(drawn)
      /\ \A x \in Members(drawn) : key'[x] = key[x]
      /\ \A a \in saved' : a \notin saved =>
           a \notin InLedger' /\ \A b \in saved : key'[b] < key'[a]
  BY <1>0, Grows DEF RowInv
<1>2. TypeInv' /\ key' \in [Ids -> Nat] /\ saved' \subseteq Ids
  BY <1>0, TypeStep DEF TypeInv, QueueType
<1> SUFFICES ASSUME NEW a \in saved', NEW b \in saved', key'[a] < key'[b], b \in InLedger'
             PROVE  a \in InLedger' /\ Sequence(a)' < Sequence(b)'
  BY DEF LedgerOrder
<1>3. b \in saved
  BY <1>1
<1>4. a \in saved
  <2>1. key'[a] \in Nat /\ key'[b] \in Nat
    BY <1>2
  <2> QED
    BY <1>1, <1>3, <2>1
<1>5. key[a] < key[b]
  BY <1>1, <1>3, <1>4
<1>6. CASE ledger' = ledger
  <2>1. a \in InLedger /\ b \in InLedger /\ Sequence(a) < Sequence(b)
    BY <1>0, <1>3, <1>4, <1>5, <1>6 DEF LedgerOrder, InLedger
  <2> QED
    BY <1>6, <2>1 DEF InLedger, Sequence
<1>7. ASSUME NEW id \in AllIds, id \notin InLedger, ledger' = Append(ledger, id),
             \/ id \in PartnerIds
             \/ \E u \in Tabs : pass[u].at = "post" /\ id = Current(u).id
             \/ \E u \in Tabs : \E m \in 1..Len(legacy[u]) : id = legacy[u][m].id
      PROVE  a \in InLedger' /\ Sequence(a)' < Sequence(b)'
  <2>1. /\ InLedger' = InLedger \cup {id} /\ Sequence(id)' = Len(ledger) + 1
        /\ \A x \in InLedger : Sequence(x)' = Sequence(x)
    BY <1>0, <1>7, AppendedOnce
  <2>2. /\ Len(ledger) \in Nat
        /\ \A x \in InLedger : Sequence(x) \in Nat /\ Sequence(x) <= Len(ledger)
    BY <1>0, LedgerFacts
  <2>3. CASE b \in InLedger
    <3>1. a \in InLedger /\ Sequence(a) < Sequence(b)
      BY <1>0, <1>3, <1>4, <1>5, <2>3 DEF LedgerOrder
    <3> QED
      BY <2>1, <2>3, <3>1
  <2>4. CASE b \notin InLedger
    <3>1. b = id /\ id \in saved
      BY <1>3, <2>1, <2>4
    <3>2. id \notin PartnerIds
      BY <1>0, <3>1, SyncIdsAssumption
    <3>3. ~ \E u \in Tabs : \E m \in 1..Len(legacy[u]) : id = legacy[u][m].id
      BY <3>1, Distinct
    <3>4. PICK u \in Tabs : pass[u].at = "post" /\ id = Current(u).id
      BY <1>7, <3>2, <3>3
    <3>5. pass[u].at \in Working /\ 1 \in 1..Len(pass[u].list) /\ pass[u].list[1] = Current(u)
      BY <1>0, <3>4, ListFacts DEF Working
    <3>6. \A m \in 1..Len(pass[u].list) : ~(m < 1)
      OBVIOUS
    <3>7. a \in InLedger
      BY <1>0, <1>4, <1>5, <3>1, <3>4, <3>5, <3>6 DEF Behind
    <3> QED
      BY <2>1, <2>2, <3>1, <3>7
  <2> QED
    BY <2>3, <2>4
<1> QED
  BY <1>0, <1>6, <1>7, Sources

LEMMA AuthorInit == Init => AuthorInv
<1> SUFFICES ASSUME Init PROVE AuthorInv
  OBVIOUS
<1>1. SoloInv
  BY SoloInit
<1>2. Len(<<>>) = 0 /\ \A k \in 1..0 : FALSE
  BY EmptySeq
<1>3. trim = "idle" /\ LedgerOnce /\ DrawnInv
  BY <1>2 DEF Init, LedgerOnce, DrawnInv
<1>4. RowInv
  BY DEF Init, RowInv, None
<1>5. PlaceInv
  BY <1>2 DEF Init, PlaceInv, SavingInv, LegacyInv, ListsSaved, Idle, Working
<1>6. LedgerOwn
  BY <1>2 DEF Init, LedgerOwn, InLedger
<1>7. OrderInv
  BY DEF Init, OrderInv, LedgerOrder, Behind, Idle, Working
<1> QED
  BY <1>1, <1>3, <1>4, <1>5, <1>6, <1>7 DEF AuthorInv

LEMMA AuthorStep ==
  ASSUME Solo, Apart, ~ManyBoards, AuthorInv, [Next]_vars
  PROVE  AuthorInv'
<1>1. TypeInv /\ SoloInv /\ LedgerOnce /\ DrawnInv
  BY DEF AuthorInv, SoloInv, SafeInv
<1>2. SoloInv'
  BY <1>1, SoloStep
<1>3. trim' = "idle" /\ LedgerOnce' /\ DrawnInv'
  BY <1>1, Grows, OnceStep, DrawnStep
<1>4. RowInv' /\ PlaceInv' /\ LedgerOwn'
  BY RowStep, PlaceStep, OwnStep
<1>5. OrderInv'
  BY LedgerOrderStep, BehindStep DEF OrderInv
<1> QED
  BY <1>2, <1>3, <1>4, <1>5 DEF AuthorInv

LEMMA AuthorInvariant ==
  ASSUME Solo, Apart, ~ManyBoards
  PROVE  Spec => []AuthorInv
<1>1. Init => AuthorInv
  BY AuthorInit
<1>2. AuthorInv /\ [Next]_vars => AuthorInv'
  BY AuthorStep
<1> QED
  BY <1>1, <1>2, PTL DEF Spec

\* With one page, no socket, no trims and operations a millisecond apart, the
\* saved operations reach the ledger in the order the user made them, wherever
\* passes break off, answers are lost and pages crash, until one of them fails.
THEOREM AuthoredOrderKept ==
  ASSUME Solo, Apart, ~ManyBoards
  PROVE  Spec => []AuthoredOrder
<1>1. AuthorInv => AuthoredOrder
  <2> SUFFICES ASSUME AuthorInv, gaveUp = {}, NEW j \in DOMAIN drawn, NEW k \in DOMAIN drawn,
                      j < k, {drawn[j], drawn[k]} \subseteq saved \cap InLedger
               PROVE  Sequence(drawn[j]) < Sequence(drawn[k])
    BY DEF AuthoredOrder
  <2>1. DOMAIN drawn = 1..Len(drawn)
    BY LenProperties DEF AuthorInv, SoloInv, SafeInv, TypeInv, QueueType
  <2>2. key[drawn[j]] < key[drawn[k]]
    BY <2>1 DEF AuthorInv, DrawnInv
  <2>3. LedgerOrder
    BY DEF AuthorInv, OrderInv
  <2> QED
    BY <2>2, <2>3 DEF LedgerOrder
<1> QED
  BY <1>1, AuthorInvariant, PTL

=============================================================================
