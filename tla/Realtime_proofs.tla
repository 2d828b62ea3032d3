--------------------------- MODULE Realtime_proofs ---------------------------
(***************************************************************************)
(* Proofs about Realtime, for any number of pages, operations, connections *)
(* and repeats: what pages hear is true of the ledger, and what is         *)
(* committed after a page joined the group is on its way to it.            *)
(***************************************************************************)
EXTENDS Realtime, SequenceLemmas, FiniteSetTheorems

MailFrame == FrameType({"committed"})

UpFrame == FrameType({"submit", "sync"})

DownFrame == FrameType({"ready", "committed", "sync", "stale"})

-----------------------------------------------------------------------------
(* Types.  The base of a submission counts the operations in flight, so     *)
(* these have to be finitely many.                                          *)

FiniteInv == \A p \in Pages : IsFiniteSet(pending[p])

TypeInv == TypeOK /\ FiniteInv

LEMMA FrameTyped ==
  ASSUME NEW kinds, NEW kind \in kinds, NEW id \in SUBSET Ids, NEW v \in Nat,
         NEW o \in SUBSET Ids
  PROVE  Frame(kind, id, v, o) \in FrameType(kinds)
BY DEF Frame, FrameType

LEMMA TailType ==
  ASSUME NEW S, NEW s \in Seq(S), s # <<>>
  PROVE  Head(s) \in S /\ Tail(s) \in Seq(S)
BY HeadTailProperties

LEMMA AppendType ==
  ASSUME NEW S, NEW s \in Seq(S), NEW e \in S
  PROVE  Append(s, e) \in Seq(S)
BY AppendProperties

LEMMA LogType ==
  ASSUME TypeOK
  PROVE  Len(log) \in Nat /\ DOMAIN log = 1..Len(log) /\ InLog \subseteq Ids
<1>1. Len(log) \in Nat /\ DOMAIN log = 1..Len(log)
  BY LenProperties DEF TypeOK
<1>2. \A k \in 1..Len(log) : log[k] \in Ids
  BY ElementOfSeq DEF TypeOK
<1> QED
  BY <1>1, <1>2 DEF InLog

LEMMA AfterType ==
  ASSUME TypeOK, NEW v \in Nat
  PROVE  After(v) \subseteq Ids
<1>1. \A k \in (v + 1)..Len(log) : log[k] \in Ids
  BY ElementOfSeq, LogType DEF TypeOK
<1> QED
  BY <1>1 DEF After

\* A sequence found in the ledger is that of the id.
LEMMA SequenceFound ==
  ASSUME TypeOK, NEW id \in InLog
  PROVE  AckVersion(id) \in DOMAIN log /\ log[AckVersion(id)] = id /\ AckVersion(id) \in Nat
<1>1. \E k \in DOMAIN log : log[k] = id
  BY DEF InLog
<1>2. Sequence(id) \in DOMAIN log /\ log[Sequence(id)] = id
  BY <1>1 DEF Sequence
<1> QED
  BY <1>2, LogType DEF AckVersion

LEMMA TypeInit == Init => TypeInv
<1> SUFFICES ASSUME Init PROVE TypeInv
  OBVIOUS
<1>1. /\ <<>> \in Seq(Ids) /\ <<>> \in Seq(MailFrame) /\ <<>> \in Seq(UpFrame)
      /\ <<>> \in Seq(DownFrame)
  BY EmptySeq
<1>2. TypeOK
  BY <1>1, LimitsAssumption DEF Init, TypeOK, MailFrame, UpFrame, DownFrame
<1>3. FiniteInv
  BY FS_EmptySet DEF Init, FiniteInv
<1> QED
  BY <1>2, <1>3 DEF TypeInv

\* The ledger's steps.
LEMMA ServerType ==
  ASSUME TypeInv,
         \/ \E id \in Ids : HttpCommit(id) \/ HttpRepeat(id)
         \/ \E e \in due : Announce(e) \/ Lose(e)
  PROVE  TypeInv'
<1> USE DEF TypeInv, serverVars, consumerVars, controllerVars, boardVars
<1>0. FiniteInv'
  BY DEF FiniteInv, HttpCommit, HttpRepeat, Announce, Lose
<1>1. ASSUME NEW id \in Ids, HttpCommit(id) PROVE TypeOK'
  <2>1. Append(log, id) \in Seq(Ids) /\ Len(log) + 1 \in Nat
    BY AppendType, LogType DEF TypeOK
  <2>2. Due(id, Len(log) + 1, {}) \in [id : Ids, v : Nat, by : SUBSET Pages]
    BY <2>1 DEF Due
  <2> QED
    BY <1>1, <2>1, <2>2 DEF TypeOK, HttpCommit
<1>2. ASSUME NEW id \in Ids, HttpRepeat(id) PROVE TypeOK'
  <2>1. Due(id, AckVersion(id), {}) \in [id : Ids, v : Nat, by : SUBSET Pages]
    BY <1>2, SequenceFound DEF Due, HttpRepeat
  <2>2. repeats' \in 0..MaxRepeats
    BY <1>2, LimitsAssumption DEF TypeOK, HttpRepeat
  <2> QED
    BY <1>2, <2>1, <2>2 DEF TypeOK, HttpRepeat
<1>3. ASSUME NEW e \in due, Announce(e) PROVE TypeOK'
  <2>1. Committed(e.id, e.v) \in MailFrame
    BY FrameTyped DEF TypeOK, Committed, MailFrame
  <2>2. \A p \in Pages : Append(mail[p], Committed(e.id, e.v)) \in Seq(MailFrame)
    BY <2>1, AppendType DEF TypeOK, MailFrame
  <2>3. mail' \in [Pages -> Seq(MailFrame)]
    BY <1>3, <2>2 DEF TypeOK, Announce, MailFrame
  <2> QED
    BY <1>3, <2>3 DEF TypeOK, Announce, MailFrame
<1>4. ASSUME NEW e \in due, Lose(e) PROVE TypeOK'
  BY <1>4 DEF TypeOK, Lose
<1> QED
  BY <1>0, <1>1, <1>2, <1>3, <1>4

LEMMA ReplyType ==
  ASSUME TypeOK, NEW p \in Pages, NEW f \in DownFrame, Reply(p, f)
  PROVE  down' \in [Pages -> Seq(DownFrame)]
<1>1. Append(down[p], f) \in Seq(DownFrame)
  BY AppendType DEF TypeOK, DownFrame
<1> QED
  BY <1>1 DEF TypeOK, Reply, DownFrame

\* The consumer's steps.
LEMMA ConsumerType ==
  ASSUME TypeInv, NEW p \in Pages,
         \/ Open(p) \/ Authorize(p) \/ Join(p) \/ Greet(p) \/ Drop(p)
         \/ OnSubmit(p) \/ OnSyncRequest(p) \/ Relay(p)
  PROVE  TypeInv'
<1> USE DEF TypeInv, serverVars, consumerVars, controllerVars, boardVars
<1>0. FiniteInv'
  BY DEF FiniteInv, Open, Authorize, Join, Greet, Drop, OnSubmit, OnSyncRequest, Relay, Handle
<1>1. CASE Open(p)
  <2>1. connects' \in 0..MaxConnects
    BY <1>1, LimitsAssumption DEF TypeOK, Open
  <2> QED
    BY <1>0, <1>1, <2>1 DEF TypeOK, Open
<1>2. CASE Authorize(p)
  BY <1>0, <1>2, LogType DEF TypeOK, Authorize
<1>7. CASE Join(p)
  BY <1>0, <1>7, LogType DEF TypeOK, Join
<1>3. CASE Greet(p)
  <2>1. Frame("ready", {}, cached[p], {}) \in DownFrame
    BY FrameTyped DEF TypeOK, DownFrame
  <2>2. down' \in [Pages -> Seq(DownFrame)]
    BY <1>3, <2>1, ReplyType DEF Greet
  <2> QED
    BY <1>0, <1>3, <2>2 DEF TypeOK, Greet, DownFrame
<1>4. CASE Drop(p)
  <2>1. /\ <<>> \in Seq(MailFrame) /\ <<>> \in Seq(UpFrame) /\ <<>> \in Seq(DownFrame)
    BY EmptySeq
  <2>2. due' \subseteq [id : Ids, v : Nat, by : SUBSET Pages]
    <3>1. ASSUME NEW e \in due
          PROVE  Due(e.id, e.v, {}) \in [id : Ids, v : Nat, by : SUBSET Pages]
      BY DEF TypeOK, Due
    <3> QED
      BY <1>4, <3>1 DEF TypeOK, Drop
  <2> QED
    BY <1>0, <1>4, <2>1, <2>2 DEF TypeOK, Drop, MailFrame, UpFrame, DownFrame
<1>5. CASE OnSubmit(p) \/ OnSyncRequest(p)
  <2>1. up[p] # <<>> /\ up' = [up EXCEPT ![p] = Tail(up[p])]
    BY <1>5 DEF OnSubmit, OnSyncRequest, Handle
  <2>2. Head(up[p]) \in UpFrame /\ Tail(up[p]) \in Seq(UpFrame)
    BY <2>1, TailType DEF TypeOK, UpFrame
  <2>3. up' \in [Pages -> Seq(UpFrame)]
    BY <2>1, <2>2 DEF TypeOK, UpFrame
  <2>4. /\ log' \in Seq(Ids)
        /\ due' \subseteq [id : Ids, v : Nat, by : SUBSET Pages]
        /\ down' \in [Pages -> Seq(DownFrame)]
    <3>1. CASE OnSyncRequest(p)
      <4>1. After(Head(up[p]).v) \subseteq Ids
        <5>1. Head(up[p]).v \in Nat
          BY <2>2 DEF UpFrame, FrameType
        <5> QED
          BY <5>1, AfterType
      <4> DEFINE f == Frame("sync", {}, cached[p],
                            IF Head(up[p]).v >= cached[p] THEN {} ELSE After(Head(up[p]).v))
      <4>2. f \in DownFrame
        BY <4>1, FrameTyped DEF TypeOK, DownFrame
      <4>3. Reply(p, f)
        BY <3>1 DEF OnSyncRequest, Answered, Reply
      <4>4. down' \in [Pages -> Seq(DownFrame)]
        BY <4>2, <4>3, ReplyType
      <4> QED
        BY <3>1, <4>4 DEF OnSyncRequest, TypeOK
    <3>2. CASE OnSubmit(p)
      <4>1. PICK id \in Head(up[p]).id :
           \/ /\ id \in InLog
              /\ due' = due \cup {Due(id, AckVersion(id), {p})}
              /\ UNCHANGED <<log, down>>
           \/ /\ id \notin InLog
              /\ log' = Append(log, id)
              /\ due' = due \cup {Due(id, Len(log) + 1, {p})}
              /\ UNCHANGED down
           \/ /\ Reply(p, Frame("stale", {}, Len(log), {}))
              /\ UNCHANGED <<log, due>>
        BY <3>2 DEF OnSubmit
      <4>2. id \in Ids /\ Len(log) + 1 \in Nat
        BY <2>2, LogType DEF UpFrame, FrameType
      <4>3. Append(log, id) \in Seq(Ids)
        BY <4>2, AppendType DEF TypeOK
      <4>4. /\ id \in InLog => Due(id, AckVersion(id), {p}) \in [id : Ids, v : Nat, by : SUBSET Pages]
            /\ Due(id, Len(log) + 1, {p}) \in [id : Ids, v : Nat, by : SUBSET Pages]
        BY <4>2, SequenceFound DEF Due
      <4>5. Frame("stale", {}, Len(log), {}) \in DownFrame
        BY FrameTyped, LogType DEF DownFrame
      <4>6. Reply(p, Frame("stale", {}, Len(log), {})) => down' \in [Pages -> Seq(DownFrame)]
        BY <4>5, ReplyType
      <4> QED
        BY <4>1, <4>3, <4>4, <4>6 DEF TypeOK, DownFrame
    <3> QED
      BY <1>5, <3>1, <3>2
  <2>5. UNCHANGED <<lost, repeats, drawn, consumerVars, controllerVars, boardVars, connects>>
    BY <1>5 DEF OnSubmit, OnSyncRequest, Handle
  <2> QED
    BY <1>0, <2>3, <2>4, <2>5 DEF TypeOK, UpFrame, DownFrame
<1>6. CASE Relay(p)
  <2>1. Head(mail[p]) \in MailFrame /\ Tail(mail[p]) \in Seq(MailFrame)
    BY <1>6, TailType DEF TypeOK, MailFrame, Relay
  <2>2. Head(mail[p]) \in DownFrame
    BY <2>1 DEF MailFrame, DownFrame, FrameType
  <2>3. down' \in [Pages -> Seq(DownFrame)]
    BY <1>6, <2>2, ReplyType DEF Relay
  <2> QED
    BY <1>0, <1>6, <2>1, <2>3 DEF TypeOK, MailFrame, DownFrame, Relay
<1> QED
  BY <1>1, <1>2, <1>3, <1>4, <1>5, <1>6, <1>7

LEMMA RequestSyncType ==
  ASSUME TypeOK, NEW p \in Pages, NEW v \in Nat, RequestSync(p, v)
  PROVE  /\ up' \in [Pages -> Seq(UpFrame)]
         /\ syncing' \in [Pages -> BOOLEAN]
<1>1. Frame("sync", {}, v, {}) \in UpFrame
  BY FrameTyped DEF UpFrame
<1>2. Append(up[p], Frame("sync", {}, v, {})) \in Seq(UpFrame)
  BY <1>1, AppendType DEF TypeOK, UpFrame
<1> QED
  BY <1>2 DEF TypeOK, RequestSync, UpFrame

LEMMA ApplyType ==
  ASSUME TypeOK, NEW p \in Pages, NEW ids \in SUBSET Ids, Apply(p, ids)
  PROVE  /\ applied' \in [Pages -> SUBSET Ids]
         /\ shown' \in [Pages -> SUBSET Ids]
         /\ reads' \in [Pages -> SUBSET [for : Ids, at : {"asked", "answer"}, seen : SUBSET Ids]]
<1>1. \A id \in Ids : Asked(id) \in [for : Ids, at : {"asked", "answer"}, seen : SUBSET Ids]
  BY DEF Asked
<1> QED
  BY <1>1 DEF TypeOK, Apply

LEMMA HearType ==
  ASSUME TypeOK, NEW p \in Pages, NEW kind, Hear(p, kind)
  PROVE  /\ Head(down[p]) \in DownFrame
         /\ Head(down[p]).id \subseteq Ids /\ Head(down[p]).v \in Nat
         /\ Head(down[p]).ops \subseteq Ids
         /\ down' \in [Pages -> Seq(DownFrame)]
         /\ UNCHANGED <<serverVars, drawn, consumerVars, connects>>
<1>1. Head(down[p]) \in DownFrame /\ Tail(down[p]) \in Seq(DownFrame)
  BY TailType DEF TypeOK, DownFrame, Hear
<1>2. /\ Head(down[p]).id \subseteq Ids /\ Head(down[p]).v \in Nat
      /\ Head(down[p]).ops \subseteq Ids
  BY <1>1 DEF DownFrame, FrameType
<1> QED
  BY <1>1, <1>2 DEF TypeOK, DownFrame, Hear

\* The page's steps.
LEMMA PageType ==
  ASSUME TypeInv, NEW p \in Pages,
         \/ \E id \in Ids : Draw(p, id)
         \/ Controller(p) \/ Loading(p)
  PROVE  TypeInv'
<1> USE DEF TypeInv, serverVars, consumerVars, controllerVars, boardVars
<1>1. ASSUME NEW id \in Ids, Draw(p, id) PROVE TypeInv'
  <2>1. Cardinality(pending[p]) \in Nat
    BY FS_CardinalityType DEF FiniteInv
  <2> DEFINE f == Frame("submit", {id}, version[p] + InFlight(p), {})
  <2>0. version[p] + InFlight(p) \in Nat
    BY <2>1 DEF TypeOK, InFlight
  <2>2. f \in UpFrame
    BY <2>0, FrameTyped DEF UpFrame
  <2>3. Append(up[p], f) \in Seq(UpFrame)
    BY <2>2, AppendType DEF TypeOK, UpFrame
  <2> HIDE DEF f
  <2>4. CASE Live(p)
    <3>1. /\ applied' = [applied EXCEPT ![p] = applied[p] \cup {id}]
          /\ pending' = [pending EXCEPT ![p] = pending[p] \cup {id}]
          /\ up' = [up EXCEPT ![p] = Append(up[p], f)]
          /\ drawn' = drawn \cup {id}
          /\ shown' = [shown EXCEPT ![p] = shown[p] \cup {id}]
          /\ UNCHANGED <<serverVars, consumerVars, down, version, syncing, reads, connects>>
      BY <1>1, <2>4 DEF Draw, f
    <3>2. IsFiniteSet(pending[p] \cup {id})
      BY FS_AddElement DEF FiniteInv
    <3>3. FiniteInv'
      BY <3>1, <3>2 DEF FiniteInv, TypeOK
    <3> QED
      BY <2>3, <3>1, <3>3 DEF TypeOK, UpFrame
  <2>5. CASE ~Live(p)
    BY <1>1, <2>5 DEF Draw, TypeOK, FiniteInv
  <2> QED
    BY <2>4, <2>5
<1>2. CASE OnReady(p)
  <2>1. Hear(p, "ready")
    BY <1>2 DEF OnReady
  <2>2. Head(down[p]).v \in Nat /\ down' \in [Pages -> Seq(DownFrame)]
    BY <2>1, HearType
  <2>3. up' \in [Pages -> Seq(UpFrame)] /\ syncing' \in [Pages -> BOOLEAN]
    BY <1>2, <2>2, RequestSyncType DEF OnReady
  <2> QED
    BY <1>2, <2>1, <2>2, <2>3 DEF OnReady, Hear, TypeOK, FiniteInv, UpFrame, DownFrame
<1>3. CASE OnCommitted(p)
  <2>1. Hear(p, "committed")
    BY <1>3 DEF OnCommitted
  <2>2. /\ Head(down[p]).id \subseteq Ids /\ Head(down[p]).v \in Nat
        /\ down' \in [Pages -> Seq(DownFrame)]
    BY <2>1, HearType
  <2>3. /\ applied' \in [Pages -> SUBSET Ids]
        /\ shown' \in [Pages -> SUBSET Ids]
        /\ reads' \in [Pages -> SUBSET [for : Ids, at : {"asked", "answer"}, seen : SUBSET Ids]]
    BY <1>3, <2>2, ApplyType DEF OnCommitted
  <2>4. IsFiniteSet(pending[p] \ Head(down[p]).id)
    BY FS_Difference DEF FiniteInv
  <2>5. FiniteInv'
    BY <1>3, <2>4 DEF OnCommitted, FiniteInv, TypeOK
  <2> QED
    BY <1>3, <2>1, <2>2, <2>3, <2>5 DEF OnCommitted, Hear, TypeOK, DownFrame
<1>4. CASE OnSync(p)
  <2>1. Hear(p, "sync")
    BY <1>4 DEF OnSync
  <2>2. /\ Head(down[p]).ops \subseteq Ids /\ Head(down[p]).v \in Nat
        /\ down' \in [Pages -> Seq(DownFrame)]
    BY <2>1, HearType
  <2>3. /\ applied' \in [Pages -> SUBSET Ids]
        /\ shown' \in [Pages -> SUBSET Ids]
        /\ reads' \in [Pages -> SUBSET [for : Ids, at : {"asked", "answer"}, seen : SUBSET Ids]]
    BY <1>4, <2>2, ApplyType DEF OnSync
  <2> QED
    BY <1>4, <2>1, <2>2, <2>3 DEF OnSync, Hear, TypeOK, FiniteInv, DownFrame
<1>5. CASE OnStale(p)
  <2>1. Hear(p, "stale")
    BY <1>5 DEF OnStale
  <2>2. Head(down[p]).v \in Nat /\ down' \in [Pages -> Seq(DownFrame)]
    BY <2>1, HearType
  <2>3. Recovered(version[p], Head(down[p]).v) \in Nat
    BY <2>2 DEF TypeOK, Recovered, Larger
  <2>4. up' \in [Pages -> Seq(UpFrame)] /\ syncing' \in [Pages -> BOOLEAN]
    BY <1>5, <2>3, RequestSyncType DEF OnStale
  <2>5. FiniteInv'
    BY <1>5, FS_EmptySet DEF OnStale, FiniteInv, TypeOK
  <2> QED
    BY <1>5, <2>1, <2>2, <2>3, <2>4, <2>5 DEF OnStale, Hear, TypeOK, UpFrame, DownFrame
<1>6. ASSUME NEW r \in reads[p], AnswerLoad(p, r) \/ OnLoad(p, r) PROVE TypeInv'
  <2>1. r \in [for : Ids, at : {"asked", "answer"}, seen : SUBSET Ids]
    BY DEF TypeOK
  <2>2. [r EXCEPT !.at = "answer", !.seen = InLog]
          \in [for : Ids, at : {"asked", "answer"}, seen : SUBSET Ids]
    BY <2>1, LogType
  <2>3. CASE AnswerLoad(p, r)
    <3>1. reads' \in [Pages -> SUBSET [for : Ids, at : {"asked", "answer"}, seen : SUBSET Ids]]
      BY <2>2, <2>3 DEF AnswerLoad, Replace, TypeOK
    <3> QED
      BY <2>3, <3>1 DEF AnswerLoad, TypeOK, FiniteInv
  <2>4. CASE OnLoad(p, r)
    <3>1. reads' \in [Pages -> SUBSET [for : Ids, at : {"asked", "answer"}, seen : SUBSET Ids]]
      BY <2>4 DEF OnLoad, Replace, TypeOK
    <3>2. shown' \in [Pages -> SUBSET Ids]
      BY <2>1, <2>4 DEF OnLoad, TypeOK
    <3> QED
      BY <2>4, <3>1, <3>2 DEF OnLoad, TypeOK, FiniteInv
  <2> QED
    BY <1>6, <2>3, <2>4
<1> QED
  BY <1>1, <1>2, <1>3, <1>4, <1>5, <1>6 DEF Controller, Loading

\* Every disjunct of Next is a step of the server, of a consumer or of a page.
LEMMA Cases ==
  ASSUME [Next]_vars
  PROVE  \/ \E id \in Ids : HttpCommit(id) \/ HttpRepeat(id)
         \/ \E e \in due : Announce(e)
         \/ \E e \in due : e.by = {} /\ Lose(e)
         \/ \E p \in Pages :
              \/ Open(p) \/ Authorize(p) \/ Join(p) \/ Greet(p) \/ Drop(p)
              \/ OnSubmit(p) \/ OnSyncRequest(p) \/ Relay(p)
              \/ \E id \in Ids : Draw(p, id)
              \/ Controller(p) \/ Loading(p)
         \/ UNCHANGED vars
BY DEF Next, Consumer

LEMMA TypeStep == TypeInv /\ [Next]_vars => TypeInv'
<1> SUFFICES ASSUME TypeInv, [Next]_vars
             PROVE  TypeInv'
  OBVIOUS
<1>1. CASE UNCHANGED vars
  BY <1>1 DEF TypeInv, TypeOK, FiniteInv, vars, serverVars, consumerVars, controllerVars, boardVars
<1> QED
  BY <1>1, Cases, ServerType, ConsumerType, PageType

LEMMA TypeInvariant == Spec => []TypeInv
<1> QED
  BY TypeInit, TypeStep, PTL DEF Spec

\* Every variable keeps a value of its kind; the base a page sends counts
\* finitely many operations in flight.
THEOREM TypeCorrect == Spec => []TypeOK
<1>1. TypeInv => TypeOK
  BY DEF TypeInv
<1> QED
  BY <1>1, TypeInvariant, PTL

-----------------------------------------------------------------------------
(* What pages hear is true.                                                 *)

\* A frame or group message gives a version the ledger has, names an operation
\* only when it announces one, and then gives its place in the ledger.
TrueFrame(f) ==
  /\ f.v <= Len(log)
  /\ f.kind = "committed" => \A id \in f.id : f.v \in DOMAIN log /\ log[f.v] = id
  /\ f.kind # "committed" => f.id = {}

TruthInv ==
  /\ \A e \in due : e.v \in DOMAIN log /\ log[e.v] = e.id
  /\ \A p \in Pages : \A f \in Frames(p) : TrueFrame(f)
  /\ \A p \in Pages : version[p] <= Len(log) /\ cached[p] <= Len(log)

\* The two invariants are kept for the same reasons by most steps, so each
\* step is shown to have the following three properties first.
LogKept ==
  /\ Len(log) <= Len(log')
  /\ \A k \in DOMAIN log : k \in DOMAIN log' /\ log'[k] = log[k]

SpeaksTrue ==
  /\ \A e \in due' : \/ \E d \in due : d.id = e.id /\ d.v = e.v
                     \/ e.v \in DOMAIN log' /\ log'[e.v] = e.id
  /\ \A p \in Pages : \A f \in Frames(p)' : f \in Frames(p) \/ TrueFrame(f)'
  /\ \A p \in Pages : version'[p] <= Len(log') /\ cached'[p] <= Len(log')

LosesNothing ==
  /\ \A p \in Group' : \/ joinedAt'[p] = Len(log')
                       \/ p \in Group /\ joinedAt'[p] = joinedAt[p]
  /\ \A k \in DOMAIN log' \ DOMAIN log : \E e \in due' : e.id = log'[k]
  /\ \A e \in due : \/ \E d \in due' : d.id = e.id
                    \/ e.id \in lost'
                    \/ \A p \in Group' : \E f \in Frames(p)' : f.id = {e.id}
  /\ \A p \in Group' : \A f \in Frames(p) : f \in Frames(p)' \/ f.id \subseteq applied'[p]
  /\ lost \subseteq lost'
  /\ \A p \in Pages : applied[p] \subseteq applied'[p]

LEMMA FrameOfType ==
  ASSUME TypeOK, NEW p \in Pages, NEW f \in Frames(p)
  PROVE  f \in MailFrame \cup DownFrame
<1>1. mail[p] \in Seq(MailFrame) /\ down[p] \in Seq(DownFrame)
  BY DEF TypeOK, MailFrame, DownFrame
<1>2. \A k \in DOMAIN mail[p] : mail[p][k] \in MailFrame
  BY <1>1, ElementOfSeq, LenProperties
<1>3. \A k \in DOMAIN down[p] : down[p][k] \in DownFrame
  BY <1>1, ElementOfSeq, LenProperties
<1> QED
  BY <1>2, <1>3 DEF Frames

LEMMA TruthKept ==
  ASSUME TypeOK, TypeOK', TruthInv, LogKept, SpeaksTrue
  PROVE  TruthInv'
<1>0. /\ Len(log) \in Nat /\ Len(log') \in Nat
  BY LogType
<1>1. ASSUME NEW e \in due' PROVE e.v \in DOMAIN log' /\ log'[e.v] = e.id
  BY DEF TruthInv, LogKept, SpeaksTrue
<1>2. ASSUME NEW p \in Pages, NEW f \in Frames(p)' PROVE TrueFrame(f)'
  <2>1. CASE TrueFrame(f)'
    BY <2>1
  <2>2. CASE f \in Frames(p)
    <3>1. TrueFrame(f)
      BY <2>2 DEF TruthInv
    <3>2. f.v \in Nat
      <4>1. f \in MailFrame \cup DownFrame
        BY <2>2, FrameOfType
      <4> QED
        BY <4>1 DEF MailFrame, DownFrame, FrameType
    <3> QED
      BY <1>0, <3>1, <3>2 DEF TrueFrame, LogKept
  <2> QED
    BY <2>1, <2>2 DEF SpeaksTrue
<1> QED
  BY <1>1, <1>2 DEF TruthInv, SpeaksTrue

LEMMA HeardKept ==
  ASSUME TypeOK, TypeOK', HeardSinceJoin, LogKept, LosesNothing
  PROVE  HeardSinceJoin'
<1> SUFFICES ASSUME NEW p \in Group', NEW k \in (joinedAt'[p] + 1)..Len(log')
             PROVE  \/ log'[k] \in applied'[p] \cup lost'
                    \/ \E e \in due' : e.id = log'[k]
                    \/ \E f \in Frames(p)' : f.id = {log'[k]}
  BY DEF HeardSinceJoin
<1>0. p \in Pages /\ joinedAt'[p] \in Nat /\ Len(log') \in Nat /\ k \in DOMAIN log'
  <2>1. p \in Pages
    BY DEF Group
  <2>2. joinedAt'[p] \in Nat
    BY <2>1 DEF TypeOK
  <2>3. Len(log') \in Nat /\ DOMAIN log' = 1..Len(log')
    BY LenProperties DEF TypeOK
  <2> QED
    BY <2>1, <2>2, <2>3
<1>1. CASE k \notin DOMAIN log
  BY <1>0, <1>1 DEF LosesNothing
<1>2. CASE k \in DOMAIN log
  <2>1. p \in Group /\ joinedAt'[p] = joinedAt[p]
    <3>1. joinedAt'[p] # Len(log')
      BY <1>0
    <3> QED
      BY <3>1 DEF LosesNothing
  <2>2. k \in (joinedAt[p] + 1)..Len(log) /\ log'[k] = log[k]
    BY <1>0, <1>2, <2>1, LogType DEF LogKept
  <2>3. CASE log[k] \in applied[p] \cup lost
    BY <1>0, <2>2, <2>3 DEF LosesNothing
  <2>4. CASE \E e \in due : e.id = log[k]
    <3>1. PICK e \in due : e.id = log'[k]
      BY <2>2, <2>4
    <3>2. \/ \E d \in due' : d.id = e.id
          \/ e.id \in lost'
          \/ \E f \in Frames(p)' : f.id = {e.id}
      BY DEF LosesNothing
    <3> QED
      BY <3>1, <3>2
  <2>5. CASE \E f \in Frames(p) : f.id = {log[k]}
    <3>1. PICK f \in Frames(p) : f.id = {log'[k]}
      BY <2>2, <2>5
    <3> QED
      BY <3>1, <1>0 DEF LosesNothing
  <2> QED
    BY <2>1, <2>2, <2>3, <2>4, <2>5 DEF HeardSinceJoin
<1> QED
  BY <1>1, <1>2

-----------------------------------------------------------------------------
(* Frames and group messages under way.                                     *)

LEMMA FramesAre ==
  ASSUME TypeOK, TypeOK', NEW p \in Pages
  PROVE  /\ Frames(p) = Members(mail[p]) \cup Members(down[p])
         /\ Frames(p)' = Members(mail'[p]) \cup Members(down'[p])
<1>1. DOMAIN mail[p] = 1..Len(mail[p]) /\ DOMAIN down[p] = 1..Len(down[p])
  BY LenProperties DEF TypeOK
<1>2. DOMAIN mail'[p] = 1..Len(mail'[p]) /\ DOMAIN down'[p] = 1..Len(down'[p])
  BY LenProperties DEF TypeOK
<1> QED
  BY <1>1, <1>2 DEF Frames, Members

LEMMA FramesSame ==
  ASSUME NEW p, mail'[p] = mail[p], down'[p] = down[p]
  PROVE  Frames(p)' = Frames(p)
BY DEF Frames

\* Reply adds one frame, for its page only.
LEMMA ReplyFrames ==
  ASSUME TypeOK, TypeOK', NEW p \in Pages, NEW f \in DownFrame, Reply(p, f), mail' = mail,
         NEW q \in Pages
  PROVE  Frames(q)' = IF q = p THEN Frames(q) \cup {f} ELSE Frames(q)
<1>1. down[p] \in Seq(DownFrame)
  BY DEF TypeOK, DownFrame
<1>2. CASE q = p
  <2>1. down'[p] = Append(down[p], f)
    BY DEF Reply, TypeOK
  <2>2. Members(down'[p]) = Members(down[p]) \cup {f}
    BY <1>1, <2>1, MembersAppend
  <2>3. Frames(p)' = Members(mail'[p]) \cup Members(down'[p])
    BY FramesAre
  <2> QED
    BY <1>2, <2>2, <2>3, FramesAre
<1>3. CASE q # p
  BY <1>3, FramesSame DEF Reply, TypeOK
<1> QED
  BY <1>2, <1>3

\* Hearing a frame takes it away.
LEMMA HearFrames ==
  ASSUME TypeOK, TypeOK', NEW p \in Pages, NEW kind, Hear(p, kind)
  PROVE  /\ \A q \in Pages \ {p} : Frames(q)' = Frames(q)
         /\ Frames(p) = Frames(p)' \cup {Head(down[p])}
         /\ Head(down[p]) \in Frames(p) /\ Head(down[p]).kind = kind
<1>1. /\ mail' = mail /\ down[p] # <<>> /\ down[p] \in Seq(DownFrame)
      /\ down' = [down EXCEPT ![p] = Tail(down[p])]
      /\ Head(down[p]).kind = kind
  BY DEF Hear, TypeOK, DownFrame, consumerVars
<1>2. \A q \in Pages \ {p} : Frames(q)' = Frames(q)
  BY <1>1, FramesSame DEF TypeOK
<1>3. down'[p] = Tail(down[p])
  BY <1>1 DEF TypeOK
<1>4. Members(down[p]) = {Head(down[p])} \cup Members(down'[p])
  BY <1>1, <1>3, MembersTail
<1>5. Frames(p)' = Members(mail'[p]) \cup Members(down'[p])
  BY FramesAre
<1> QED
  BY <1>1, <1>2, <1>4, <1>5, FramesAre

-----------------------------------------------------------------------------
(* Each step speaks true and loses nothing.                                 *)

StepGood == LogKept /\ SpeaksTrue /\ LosesNothing

SafeInv == TypeInv /\ TruthInv /\ HeardSinceJoin

LEMMA LogSame ==
  ASSUME TypeOK, log' = log
  PROVE  LogKept
BY LogType DEF LogKept

LEMMA LogAppend ==
  ASSUME TypeOK, NEW id \in Ids, log' = Append(log, id)
  PROVE  /\ LogKept
         /\ Len(log) + 1 \in DOMAIN log' /\ log'[Len(log) + 1] = id
         /\ DOMAIN log' \ DOMAIN log = {Len(log) + 1}
         /\ Len(log') = Len(log) + 1
<1>1. /\ log \in Seq(Ids) /\ Len(log) \in Nat /\ DOMAIN log = 1..Len(log)
  BY LogType DEF TypeOK
<1>2. /\ log' \in Seq(Ids) /\ Len(log') = Len(log) + 1
      /\ \A k \in 1..Len(log) : log'[k] = log[k]
      /\ log'[Len(log) + 1] = id
  BY <1>1, AppendProperties
<1>3. DOMAIN log' = 1..(Len(log) + 1)
  BY <1>2, LenProperties
<1> QED
  BY <1>1, <1>2, <1>3 DEF LogKept

\* A commit is due for announcement.
LEMMA CommitDue ==
  ASSUME TypeOK, NEW id \in Ids, NEW by, log' = Append(log, id),
         due' = due \cup {Due(id, Len(log) + 1, by)}
  PROVE  /\ LogKept /\ due \subseteq due'
         /\ \A k \in DOMAIN log' \ DOMAIN log : \E e \in due' : e.id = log'[k]
         /\ \A e \in due' : e \in due \/ (e.v \in DOMAIN log' /\ log'[e.v] = e.id)
<1>1. /\ LogKept
      /\ Len(log) + 1 \in DOMAIN log' /\ log'[Len(log) + 1] = id
      /\ DOMAIN log' \ DOMAIN log = {Len(log) + 1}
  BY LogAppend
<1>2. PICK d : d = Due(id, Len(log) + 1, by)
  OBVIOUS
<1>3. d.id = id /\ d.v = Len(log) + 1 /\ due' = due \cup {d}
  BY <1>2 DEF Due
<1>4. \A k \in DOMAIN log' \ DOMAIN log : d.id = log'[k]
  BY <1>1, <1>3
<1>5. \A e \in due' : e \in due \/ (e.v \in DOMAIN log' /\ log'[e.v] = e.id)
  BY <1>1, <1>3
<1> QED
  BY <1>1, <1>3, <1>4, <1>5

\* An operation that is announced again is announced truly.
LEMMA RepeatDue ==
  ASSUME TypeOK, NEW id \in InLog, NEW by, log' = log,
         due' = due \cup {Due(id, AckVersion(id), by)}
  PROVE  /\ LogKept /\ due \subseteq due'
         /\ \A k \in DOMAIN log' \ DOMAIN log : \E e \in due' : e.id = log'[k]
         /\ \A e \in due' : e \in due \/ (e.v \in DOMAIN log' /\ log'[e.v] = e.id)
<1>1. AckVersion(id) \in DOMAIN log' /\ log'[AckVersion(id)] = id
  BY SequenceFound
<1>2. PICK d : d = Due(id, AckVersion(id), by)
  OBVIOUS
<1>3. d.id = id /\ d.v = AckVersion(id) /\ due' = due \cup {d}
  BY <1>2 DEF Due
<1>4. \A e \in due' : e \in due \/ (e.v \in DOMAIN log' /\ log'[e.v] = e.id)
  BY <1>1, <1>3
<1>5. \A k \in DOMAIN log' \ DOMAIN log : \E e \in due' : e.id = log'[k]
  OBVIOUS
<1>6. LogKept
  BY LogSame
<1> QED
  BY <1>3, <1>4, <1>5, <1>6

\* Versions of the ledger as it was are versions of it as it is.
LEMMA VersionsKept ==
  ASSUME TypeOK, TypeOK', TruthInv, LogKept, NEW p \in Pages
  PROVE  version[p] <= Len(log') /\ cached[p] <= Len(log')
<1>1. Len(log) \in Nat /\ Len(log') \in Nat /\ version[p] \in Nat /\ cached[p] \in Nat
  BY LenProperties DEF TypeOK
<1> QED
  BY <1>1 DEF TruthInv, LogKept

\* A commit announced later, and a repeat.
LEMMA HttpGood ==
  ASSUME SafeInv, TypeOK', NEW id \in Ids, HttpCommit(id) \/ HttpRepeat(id)
  PROVE  StepGood
<1> USE DEF SafeInv, TypeInv, serverVars, consumerVars, controllerVars, boardVars
<1>1. /\ LogKept
      /\ \A k \in DOMAIN log' \ DOMAIN log : \E e \in due' : e.id = log'[k]
      /\ \A e \in due' : e \in due \/ (e.v \in DOMAIN log' /\ log'[e.v] = e.id)
  <2>1. CASE HttpCommit(id)
    BY <2>1, CommitDue DEF HttpCommit
  <2>2. CASE HttpRepeat(id)
    BY <2>2, RepeatDue DEF HttpRepeat
  <2> QED
    BY <2>1, <2>2
<1>2. /\ due \subseteq due'
      /\ UNCHANGED <<lost, stage, cached, joinedAt, mail, down, version, applied>>
  BY DEF HttpCommit, HttpRepeat
<1>3. /\ Group' = Group /\ Group \subseteq Pages
      /\ \A p \in Pages : Frames(p)' = Frames(p)
  BY <1>2, FramesSame DEF Group
<1>4. SpeaksTrue
  BY <1>1, <1>2, <1>3, VersionsKept DEF SpeaksTrue
<1>5. LosesNothing
  BY <1>1, <1>2, <1>3 DEF LosesNothing
<1> QED
  BY <1>1, <1>4, <1>5 DEF StepGood

LEMMA AnnounceGood ==
  ASSUME SafeInv, TypeOK', NEW e \in due, Announce(e)
  PROVE  StepGood
<1> USE DEF SafeInv, TypeInv, serverVars, consumerVars, controllerVars, boardVars
<1> DEFINE f == Committed(e.id, e.v)
<1>1. /\ due' = due \ {e}
      /\ UNCHANGED <<log, lost, stage, cached, joinedAt, down, version, applied>>
      /\ \A p \in Pages : mail'[p] = IF p \in Group THEN Append(mail[p], f) ELSE mail[p]
  BY DEF Announce
<1>2. LogKept
  BY <1>1, LogSame
<1>3. e.v \in DOMAIN log /\ log[e.v] = e.id /\ e.v \in Nat /\ e.v <= Len(log) /\ e.id \in Ids
  BY LogType DEF TruthInv, TypeOK
<1>4. f \in MailFrame /\ f.id = {e.id} /\ f.v = e.v /\ f.kind = "committed"
  BY <1>3, FrameTyped DEF MailFrame, Committed, Frame
<1> HIDE DEF f
<1>5. TrueFrame(f)'
  BY <1>1, <1>3, <1>4 DEF TrueFrame
<1>6. ASSUME NEW p \in Pages
      PROVE  Frames(p)' = IF p \in Group THEN Frames(p) \cup {f} ELSE Frames(p)
  <2>1. mail[p] \in Seq(MailFrame)
    BY DEF TypeOK, MailFrame
  <2>2. Members(Append(mail[p], f)) = Members(mail[p]) \cup {f}
    BY <1>4, <2>1, MembersAppend
  <2> QED
    BY <1>1, <2>2, FramesAre
<1>7. Group' = Group
  BY <1>1 DEF Group
<1>8. SpeaksTrue
  BY <1>1, <1>2, <1>5, <1>6, VersionsKept DEF SpeaksTrue
<1>9. \A d \in due : d \in due' \/ d = e
  BY <1>1
<1>10. \A p \in Group' : \E g \in Frames(p)' : g.id = {e.id}
  BY <1>4, <1>6, <1>7 DEF Group
<1>11. LosesNothing
  BY <1>1, <1>6, <1>7, <1>9, <1>10 DEF LosesNothing, Group
<1> QED
  BY <1>2, <1>8, <1>11 DEF StepGood

LEMMA LoseGood ==
  ASSUME SafeInv, TypeOK', NEW e \in due, Lose(e)
  PROVE  StepGood
<1> USE DEF SafeInv, TypeInv, serverVars, consumerVars, controllerVars, boardVars
<1>1. /\ due' = due \ {e} /\ lost' = lost \cup {e.id}
      /\ UNCHANGED <<log, stage, cached, joinedAt, mail, down, version, applied>>
  BY DEF Lose
<1>2. LogKept
  BY <1>1, LogSame
<1>3. /\ Group' = Group /\ Group \subseteq Pages
      /\ \A p \in Pages : Frames(p)' = Frames(p)
  BY <1>1, FramesSame DEF Group
<1>4. SpeaksTrue
  BY <1>1, <1>2, <1>3, VersionsKept DEF SpeaksTrue
<1>5. LosesNothing
  BY <1>1, <1>3 DEF LosesNothing
<1> QED
  BY <1>2, <1>4, <1>5 DEF StepGood

\* Connecting, up to the greeting: the greeting gives the version of the
\* instance that was loaded, and a consumer that joins has nothing to hear yet.
LEMMA ConnectGood ==
  ASSUME SafeInv, TypeOK', NEW p \in Pages,
         Open(p) \/ Authorize(p) \/ Join(p) \/ Greet(p)
  PROVE  StepGood
<1> USE DEF SafeInv, TypeInv, serverVars, consumerVars, controllerVars, boardVars
<1>1. UNCHANGED <<log, due, lost, mail, version, applied>>
  BY DEF Open, Authorize, Join, Greet
<1>2. LogKept
  BY <1>1, LogSame
<1>3. \A q \in Pages : cached'[q] <= Len(log')
  <2>1. CASE Authorize(p)
    BY <1>1, <2>1, LogType DEF Authorize, TypeOK, TruthInv
  <2>2. CASE ~Authorize(p)
    BY <1>1, <2>2 DEF Open, Join, Greet, TruthInv
  <2> QED
    BY <2>1, <2>2
<1>4. \A q \in Group' : \/ joinedAt'[q] = Len(log')
                        \/ q \in Group /\ joinedAt'[q] = joinedAt[q]
  <2>1. CASE Open(p) \/ Authorize(p)
    BY <2>1 DEF Open, Authorize, Group, TypeOK
  <2>2. CASE Join(p)
    BY <1>1, <2>2 DEF Join, Group, TypeOK
  <2>3. CASE Greet(p)
    BY <2>3 DEF Greet, Group, TypeOK
  <2> QED
    BY <2>1, <2>2, <2>3
<1>5. ASSUME NEW q \in Pages
      PROVE  Frames(q) \subseteq Frames(q)' /\ \A f \in Frames(q)' : f \in Frames(q) \/ TrueFrame(f)'
  <2>1. CASE Greet(p)
    <3>0. PICK f : f = Frame("ready", {}, cached[p], {})
      OBVIOUS
    <3>1. f \in DownFrame
      BY <3>0, FrameTyped DEF TypeOK, DownFrame
    <3>5. f.kind = "ready" /\ f.id = {} /\ f.v = cached[p]
      BY <3>0 DEF Frame
    <3>2. TrueFrame(f)'
      BY <1>1, <3>5 DEF TrueFrame, TruthInv
    <3>3. Reply(p, f) /\ mail' = mail
      BY <2>1, <3>0 DEF Greet
    <3>4. Frames(q)' = IF q = p THEN Frames(q) \cup {f} ELSE Frames(q)
      BY <3>1, <3>3, ReplyFrames
    <3> QED
      BY <3>2, <3>4
  <2>2. CASE ~Greet(p)
    <3>1. mail' = mail /\ down' = down
      BY <2>2 DEF Open, Authorize, Join
    <3> QED
      BY <3>1, FramesSame
  <2> QED
    BY <2>1, <2>2
<1>6. Group' \subseteq Pages
  BY DEF Group
<1>7. SpeaksTrue
  BY <1>1, <1>2, <1>3, <1>5, VersionsKept DEF SpeaksTrue
<1>8. LosesNothing
  BY <1>1, <1>4, <1>5, <1>6 DEF LosesNothing
<1> QED
  BY <1>2, <1>7, <1>8 DEF StepGood

\* What a connection that ends had not relayed is nobody's loss: its page is
\* out of the group.
LEMMA DropGood ==
  ASSUME SafeInv, TypeOK', NEW p \in Pages, Drop(p)
  PROVE  StepGood
<1> USE DEF SafeInv, TypeInv, serverVars, consumerVars, controllerVars, boardVars
<1>1. /\ due' = {IF e.by = {p} THEN Due(e.id, e.v, {}) ELSE e : e \in due}
      /\ UNCHANGED <<log, lost, version, applied>>
      /\ stage'[p] = "none" /\ mail'[p] = <<>> /\ down'[p] = <<>> /\ cached'[p] = 0
      /\ \A q \in Pages \ {p} : /\ stage'[q] = stage[q] /\ mail'[q] = mail[q]
                                /\ down'[q] = down[q] /\ cached'[q] = cached[q]
                                /\ joinedAt'[q] = joinedAt[q]
  BY DEF Drop, TypeOK
<1>2. LogKept
  BY <1>1, LogSame
<1>3. \A e \in due' : \E d \in due : d.id = e.id /\ d.v = e.v
  BY <1>1 DEF Due
<1>4. ASSUME NEW e \in due PROVE \E d \in due' : d.id = e.id
  <2>1. (IF e.by = {p} THEN Due(e.id, e.v, {}) ELSE e).id = e.id
    BY DEF Due
  <2> QED
    BY <1>1, <2>1
<1>5. Group' = Group \ {p} /\ Group \subseteq Pages
  BY <1>1 DEF Group
<1>6. \A q \in Pages \ {p} : Frames(q)' = Frames(q)
  BY <1>1, FramesSame
<1>7. Frames(p)' = {}
  BY <1>1, FramesAre, MembersEmpty
<1>8. \A q \in Pages : cached'[q] <= Len(log')
  BY <1>1, LogType DEF TruthInv
<1>9. SpeaksTrue
  BY <1>1, <1>2, <1>3, <1>6, <1>7, <1>8, VersionsKept DEF SpeaksTrue
<1>10. LosesNothing
  BY <1>1, <1>4, <1>5, <1>6 DEF LosesNothing
<1> QED
  BY <1>2, <1>9, <1>10 DEF StepGood

LEMMA SubmitGood ==
  ASSUME SafeInv, TypeOK', NEW p \in Pages, OnSubmit(p)
  PROVE  StepGood
<1> USE DEF SafeInv, TypeInv, serverVars, consumerVars, controllerVars, boardVars
<1>1. /\ up[p] # <<>>
      /\ UNCHANGED <<lost, stage, cached, joinedAt, mail, version, applied>>
  BY DEF OnSubmit, Handle
<1>2. PICK id \in Head(up[p]).id :
           \/ /\ id \in InLog
              /\ due' = due \cup {Due(id, AckVersion(id), {p})}
              /\ UNCHANGED <<log, down>>
           \/ /\ id \notin InLog
              /\ log' = Append(log, id)
              /\ due' = due \cup {Due(id, Len(log) + 1, {p})}
              /\ UNCHANGED down
           \/ /\ Reply(p, Frame("stale", {}, Len(log), {}))
              /\ UNCHANGED <<log, due>>
  BY DEF OnSubmit
<1>3. id \in Ids
  <2>1. Head(up[p]) \in UpFrame
    BY <1>1, TailType DEF TypeOK, UpFrame
  <2> QED
    BY <2>1 DEF UpFrame, FrameType
<1>4. /\ LogKept /\ due \subseteq due'
      /\ \A k \in DOMAIN log' \ DOMAIN log : \E e \in due' : e.id = log'[k]
      /\ \A e \in due' : e \in due \/ (e.v \in DOMAIN log' /\ log'[e.v] = e.id)
  <2>1. CASE id \in InLog /\ log' = log /\ due' = due \cup {Due(id, AckVersion(id), {p})}
    BY <2>1, RepeatDue
  <2>2. CASE log' = Append(log, id) /\ due' = due \cup {Due(id, Len(log) + 1, {p})}
    BY <1>3, <2>2, CommitDue
  <2>3. CASE log' = log /\ due' = due
    BY <2>3, LogSame
  <2> QED
    BY <1>2, <2>1, <2>2, <2>3
<1>5. ASSUME NEW q \in Pages
      PROVE  Frames(q) \subseteq Frames(q)' /\ \A f \in Frames(q)' : f \in Frames(q) \/ TrueFrame(f)'
  <2>1. CASE down' = down
    BY <1>1, <2>1, FramesSame
  <2>2. CASE Reply(p, Frame("stale", {}, Len(log), {})) /\ log' = log
    <3>0. PICK f : f = Frame("stale", {}, Len(log), {})
      OBVIOUS
    <3>1. f \in DownFrame
      BY <3>0, FrameTyped, LogType DEF DownFrame
    <3>5. f.kind = "stale" /\ f.id = {} /\ f.v = Len(log')
      BY <2>2, <3>0 DEF Frame
    <3>6. Len(log') \in Nat
      BY <2>2, LogType
    <3>2. TrueFrame(f)'
      BY <3>5, <3>6 DEF TrueFrame
    <3>3. Frames(q)' = IF q = p THEN Frames(q) \cup {f} ELSE Frames(q)
      BY <1>1, <2>2, <3>0, <3>1, ReplyFrames
    <3> QED
      BY <3>2, <3>3
  <2> QED
    BY <1>2, <2>1, <2>2
<1>6. Group' = Group /\ Group \subseteq Pages
  BY <1>1 DEF Group
<1>7. SpeaksTrue
  BY <1>1, <1>4, <1>5, VersionsKept DEF SpeaksTrue
<1>8. LosesNothing
  BY <1>1, <1>4, <1>5, <1>6 DEF LosesNothing
<1> QED
  BY <1>4, <1>7, <1>8 DEF StepGood

LEMMA SyncRequestGood ==
  ASSUME SafeInv, TypeOK', NEW p \in Pages, OnSyncRequest(p)
  PROVE  StepGood
<1> USE DEF SafeInv, TypeInv, serverVars, consumerVars, controllerVars, boardVars
<1>0. PICK f : f = Frame("sync", {}, cached[p],
                         IF Head(up[p]).v >= cached[p] THEN {} ELSE After(Head(up[p]).v))
  OBVIOUS
<1>1. UNCHANGED <<log, due, lost, stage, cached, joinedAt, mail, version, applied>>
  BY DEF OnSyncRequest, Handle
<1>2. LogKept
  BY <1>1, LogSame
<1>3. Reply(p, f)
  BY <1>0 DEF OnSyncRequest, Answered, Reply
<1>4. f \in DownFrame
  <2>1. Head(up[p]) \in UpFrame
    BY TailType DEF OnSyncRequest, Handle, TypeOK, UpFrame
  <2>2. Head(up[p]).v \in Nat
    BY <2>1 DEF UpFrame, FrameType
  <2>3. After(Head(up[p]).v) \subseteq Ids
    BY <2>2, AfterType
  <2>4. cached[p] \in Nat
    BY DEF TypeOK
  <2> QED
    BY <1>0, <2>3, <2>4, FrameTyped DEF DownFrame
<1>5. TrueFrame(f)'
  <2>1. f.kind = "sync" /\ f.id = {} /\ f.v = cached[p]
    BY <1>0 DEF Frame
  <2> QED
    BY <1>1, <2>1 DEF TrueFrame, TruthInv
<1>6. ASSUME NEW q \in Pages
      PROVE  Frames(q)' = IF q = p THEN Frames(q) \cup {f} ELSE Frames(q)
  BY <1>1, <1>3, <1>4, ReplyFrames
<1>7. Group' = Group /\ Group \subseteq Pages
  BY <1>1 DEF Group
<1>8. SpeaksTrue
  BY <1>1, <1>2, <1>5, <1>6, VersionsKept DEF SpeaksTrue
<1>9. LosesNothing
  BY <1>1, <1>6, <1>7 DEF LosesNothing
<1> QED
  BY <1>2, <1>8, <1>9 DEF StepGood

\* A relayed message moves from the mailbox to the wire.
LEMMA RelayGood ==
  ASSUME SafeInv, TypeOK', NEW p \in Pages, Relay(p)
  PROVE  StepGood
<1> USE DEF SafeInv, TypeInv, serverVars, consumerVars, controllerVars, boardVars
<1>1. /\ UNCHANGED <<log, due, lost, stage, cached, joinedAt, version, applied>>
      /\ mail[p] # <<>>
      /\ mail' = [mail EXCEPT ![p] = Tail(mail[p])]
      /\ down' = [down EXCEPT ![p] = Append(down[p], Head(mail[p]))]
  BY DEF Relay, Reply
<1>2. LogKept
  BY <1>1, LogSame
<1>3. Frames(p)' = Frames(p)
  <2>1. mail[p] \in Seq(MailFrame) /\ down[p] \in Seq(DownFrame)
    BY DEF TypeOK, MailFrame, DownFrame
  <2>2. Head(mail[p]) \in DownFrame
    <3>1. Head(mail[p]) \in MailFrame
      BY <1>1, <2>1, TailType
    <3> QED
      BY <3>1 DEF MailFrame, DownFrame, FrameType
  <2>3. mail'[p] = Tail(mail[p]) /\ down'[p] = Append(down[p], Head(mail[p]))
    BY <1>1 DEF TypeOK
  <2>4. Members(mail[p]) = {Head(mail[p])} \cup Members(mail'[p])
    BY <1>1, <2>1, <2>3, MembersTail
  <2>5. Members(down'[p]) = Members(down[p]) \cup {Head(mail[p])}
    BY <2>1, <2>2, <2>3, MembersAppend
  <2>6. Frames(p)' = Members(mail'[p]) \cup Members(down'[p])
    BY FramesAre
  <2>7. Frames(p) = Members(mail[p]) \cup Members(down[p])
    BY FramesAre
  <2> QED
    BY ONLY <2>4, <2>5, <2>6, <2>7
<1>4. \A q \in Pages : Frames(q)' = Frames(q)
  <2>1. ASSUME NEW q \in Pages, q # p PROVE mail'[q] = mail[q] /\ down'[q] = down[q]
    BY <1>1, <2>1 DEF TypeOK
  <2> QED
    BY <1>3, <2>1, FramesSame
<1>5. Group' = Group /\ Group \subseteq Pages
  BY <1>1 DEF Group
<1>6. SpeaksTrue
  BY <1>1, <1>2, <1>4, VersionsKept DEF SpeaksTrue
<1>7. LosesNothing
  BY <1>1, <1>4, <1>5 DEF LosesNothing
<1> QED
  BY <1>2, <1>6, <1>7 DEF StepGood

\* What the page does on its own, and its loads, touch no frame to it.
LEMMA PageGood ==
  ASSUME SafeInv, TypeOK', NEW p \in Pages, (\E id \in Ids : Draw(p, id)) \/ Loading(p)
  PROVE  StepGood
<1> USE DEF SafeInv, TypeInv, serverVars, consumerVars, controllerVars, boardVars
<1>1. /\ UNCHANGED <<log, due, lost, stage, cached, joinedAt, mail, down, version>>
      /\ \A q \in Pages : applied[q] \subseteq applied'[q]
  <2>1. CASE \E id \in Ids : Draw(p, id)
    <3>1. PICK id \in Ids : Draw(p, id)
      BY <2>1
    <3>2. UNCHANGED <<log, due, lost, stage, cached, joinedAt, mail, down, version>>
      BY <3>1 DEF Draw
    <3>3. CASE Live(p)
      <4>1. applied' = [applied EXCEPT ![p] = applied[p] \cup {id}]
        BY <3>1, <3>3 DEF Draw
      <4> QED
        BY <3>2, <4>1 DEF TypeOK
    <3>4. CASE ~Live(p)
      BY <3>1, <3>2, <3>4 DEF Draw
    <3> QED
      BY <3>3, <3>4
  <2>2. CASE Loading(p)
    BY <2>2 DEF Loading, AnswerLoad, OnLoad
  <2> QED
    BY <2>1, <2>2
<1>2. LogKept
  BY <1>1, LogSame
<1>3. /\ Group' = Group /\ Group \subseteq Pages
      /\ \A q \in Pages : Frames(q)' = Frames(q)
  BY <1>1, FramesSame DEF Group
<1>4. SpeaksTrue
  BY <1>1, <1>2, <1>3, VersionsKept DEF SpeaksTrue
<1>5. LosesNothing
  BY <1>1, <1>3 DEF LosesNothing
<1> QED
  BY <1>2, <1>4, <1>5 DEF StepGood

\* A frame that is heard: the version it confirms exists, and the operation it
\* announces is the page's from then on.
LEMMA HearGood ==
  ASSUME SafeInv, TypeOK', NEW p \in Pages, NEW kind, Hear(p, kind),
         version'[p] <= Len(log),
         \A q \in Pages \ {p} : version'[q] = version[q] /\ applied'[q] = applied[q],
         applied[p] \subseteq applied'[p],
         Head(down[p]).id \subseteq applied'[p]
  PROVE  StepGood
<1> USE DEF SafeInv, TypeInv, serverVars, consumerVars
<1>1. UNCHANGED <<log, due, lost, stage, cached, joinedAt, mail>>
  BY DEF Hear
<1>2. LogKept
  BY <1>1, LogSame
<1>3. /\ \A q \in Pages \ {p} : Frames(q)' = Frames(q)
      /\ Frames(p) = Frames(p)' \cup {Head(down[p])}
  BY HearFrames
<1>4. Group' = Group /\ Group \subseteq Pages
  BY <1>1 DEF Group
<1>5. \A q \in Pages : version'[q] <= Len(log') /\ cached'[q] <= Len(log')
  BY <1>1, <1>2, VersionsKept
<1>6. \A q \in Pages : \A f \in Frames(q)' : f \in Frames(q) \/ TrueFrame(f)'
  BY <1>3
<1>7. SpeaksTrue
  BY <1>1, <1>5, <1>6 DEF SpeaksTrue
<1>8. \A q \in Pages : \A f \in Frames(q) : f \in Frames(q)' \/ f.id \subseteq applied'[q]
  BY <1>3
<1>9. \A q \in Pages : applied[q] \subseteq applied'[q]
  OBVIOUS
<1>10. LosesNothing
  <2>1. \A e \in due : \E d \in due' : d.id = e.id
    BY <1>1
  <2> QED
    BY <1>1, <1>4, <1>8, <1>9, <2>1 DEF LosesNothing
<1> QED
  BY <1>2, <1>7, <1>10 DEF StepGood

\* The frame the page is about to hear is true, and of its version something is
\* known.
LEMMA HeadIsTrue ==
  ASSUME SafeInv, TypeOK', NEW p \in Pages, NEW kind, Hear(p, kind)
  PROVE  /\ TrueFrame(Head(down[p])) /\ Head(down[p]).kind = kind
         /\ Head(down[p]).v \in Nat
         /\ Len(log) \in Nat /\ version[p] \in Nat /\ version[p] <= Len(log)
<1>1. Head(down[p]) \in Frames(p) /\ Head(down[p]).kind = kind
  BY HearFrames DEF SafeInv, TypeInv
<1>2. TrueFrame(Head(down[p])) /\ version[p] <= Len(log)
  BY <1>1 DEF SafeInv, TruthInv
<1>3. Head(down[p]).v \in Nat
  BY HearType DEF SafeInv, TypeInv
<1>4. version[p] \in Nat /\ Len(log) \in Nat
  BY LogType DEF SafeInv, TypeInv, TypeOK
<1> QED
  BY <1>1, <1>2, <1>3, <1>4

LEMMA ControllerGood ==
  ASSUME SafeInv, TypeOK', NEW p \in Pages, Controller(p)
  PROVE  StepGood
<1> USE DEF controllerVars
<1>0. /\ version \in [Pages -> Nat] /\ applied \in [Pages -> SUBSET Ids]
  BY DEF SafeInv, TypeInv, TypeOK
<1>1. CASE OnReady(p)
  <2>1. Hear(p, "ready") /\ version' = [version EXCEPT ![p] = Head(down[p]).v] /\ applied' = applied
    BY <1>1 DEF OnReady
  <2>2. Head(down[p]).id = {} /\ Head(down[p]).v <= Len(log)
    BY <2>1, HeadIsTrue DEF TrueFrame
  <2> QED
    BY <1>0, <2>1, <2>2, HearGood
<1>2. CASE OnCommitted(p)
  <2>1. /\ Hear(p, "committed") /\ version' = [version EXCEPT ![p] = Head(down[p]).v]
        /\ applied' = [applied EXCEPT ![p] = applied[p] \cup Head(down[p]).id]
    BY <1>2 DEF OnCommitted, Apply
  <2>2. Head(down[p]).v <= Len(log)
    BY <2>1, HeadIsTrue DEF TrueFrame
  <2> QED
    BY <1>0, <2>1, <2>2, HearGood
<1>3. CASE OnSync(p)
  <2>1. /\ Hear(p, "sync") /\ version' = [version EXCEPT ![p] = Head(down[p]).v]
        /\ applied' = [applied EXCEPT ![p] = applied[p] \cup Head(down[p]).ops]
    BY <1>3 DEF OnSync, Apply
  <2>2. Head(down[p]).id = {} /\ Head(down[p]).v <= Len(log)
    BY <2>1, HeadIsTrue DEF TrueFrame
  <2> QED
    BY <1>0, <2>1, <2>2, HearGood
<1>4. CASE OnStale(p)
  <2>1. /\ Hear(p, "stale") /\ applied' = applied
        /\ version' = [version EXCEPT ![p] = Recovered(version[p], Head(down[p]).v)]
    BY <1>4 DEF OnStale
  <2>2. /\ Head(down[p]).id = {}
        /\ Recovered(version[p], Head(down[p]).v) <= Len(log)
    BY <2>1, HeadIsTrue DEF TrueFrame, Recovered, Larger
  <2> QED
    BY <1>0, <2>1, <2>2, HearGood
<1> QED
  BY <1>1, <1>2, <1>3, <1>4 DEF Controller

-----------------------------------------------------------------------------
(* The invariant and what follows from it.                                  *)

LEMMA SafeInit == Init => SafeInv
<1> SUFFICES ASSUME Init PROVE SafeInv
  OBVIOUS
<1>1. TypeInv
  BY TypeInit
<1>2. Len(log) = 0
  BY EmptySeq DEF Init
<1>3. \A p \in Pages : mail[p] = <<>> /\ down[p] = <<>>
  BY DEF Init
<1>4. \A p \in Pages : Frames(p) = {}
  BY <1>3, EmptySeq DEF Frames
<1>5. Group = {}
  BY DEF Group, Init
<1>6. TruthInv
  BY <1>2, <1>4 DEF TruthInv, Init
<1>7. HeardSinceJoin
  BY <1>5 DEF HeardSinceJoin
<1> QED
  BY <1>1, <1>6, <1>7 DEF SafeInv

LEMMA SafeStep == SafeInv /\ [Next]_vars => SafeInv'
<1> SUFFICES ASSUME SafeInv, [Next]_vars PROVE SafeInv'
  OBVIOUS
<1>1. TypeInv' /\ TypeOK' /\ TypeOK
  BY TypeStep DEF SafeInv, TypeInv
<1>2. CASE UNCHANGED vars
  <2>1. UNCHANGED <<log, due, lost, stage, cached, joinedAt, mail, down, version, applied>>
    BY <1>2 DEF vars, serverVars, consumerVars, controllerVars
  <2>2. TruthInv'
    BY <2>1 DEF SafeInv, TruthInv, TrueFrame, Frames
  <2>3. HeardSinceJoin'
    <3>1. Group' = Group
      BY <2>1 DEF Group
    <3>2. \A p \in Group : Frames(p)' = Frames(p)
      BY <2>1 DEF Frames
    <3>3. HeardSinceJoin
      BY DEF SafeInv
    <3> QED
      BY ONLY <2>1, <3>1, <3>2, <3>3 DEF HeardSinceJoin
  <2> QED
    BY <1>1, <2>2, <2>3 DEF SafeInv
<1>3. ASSUME StepGood PROVE SafeInv'
  <2>1. LogKept /\ SpeaksTrue /\ LosesNothing
    BY <1>3 DEF StepGood
  <2>2. TruthInv'
    BY <1>1, <2>1, TruthKept DEF SafeInv
  <2>3. HeardSinceJoin'
    BY <1>1, <2>1, HeardKept DEF SafeInv
  <2> QED
    BY <1>1, <2>2, <2>3 DEF SafeInv
<1>4. \/ StepGood
      \/ UNCHANGED vars
  BY <1>1, Cases, HttpGood, AnnounceGood, LoseGood, ConnectGood, DropGood, SubmitGood,
     SyncRequestGood, RelayGood, PageGood, ControllerGood
<1> QED
  BY <1>2, <1>3, <1>4

LEMMA SafeInvariant == Spec => []SafeInv
<1> QED
  BY SafeInit, SafeStep, PTL DEF Spec

\* The version a page takes for confirmed is one the board has had: the
\* greeting, an announcement (_handle_committed), an answer to sync.request and
\* the recovery from STALE_VERSION all give it a version of the ledger, however
\* late they are.
THEOREM ConfirmedVersionsExist == Spec => []VersionExists
<1>1. SafeInv => VersionExists
  BY DEF SafeInv, TruthInv, VersionExists
<1> QED
  BY <1>1, SafeInvariant, PTL

\* Whatever whiteboard_op announces, to any page and however late, is in the
\* ledger at the place it gives.
THEOREM AnnouncedIsCommitted == Spec => []CommittedBeforeHeard
<1>1. SafeInv => CommittedBeforeHeard
  BY DEF SafeInv, TruthInv, TrueFrame, CommittedBeforeHeard
<1> QED
  BY <1>1, SafeInvariant, PTL

\* What is submitted or restored after group_add reaches the page, or is on its
\* way to it, unless the worker died between its commit and group_send: no
\* interleaving of handlers, repeats and announcements loses it.
THEOREM NothingMissedSinceJoin == Spec => []HeardSinceJoin
<1>1. SafeInv => HeardSinceJoin
  BY DEF SafeInv
<1> QED
  BY <1>1, SafeInvariant, PTL

=============================================================================
