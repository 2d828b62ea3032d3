---------------------------- MODULE Board_proofs -----------------------------
(***************************************************************************)
(* Proofs about Board, for any pages, sockets, gestures and bounds.        *)
(***************************************************************************)
EXTENDS Board, SequenceLemmas, FiniteSetTheorems

-----------------------------------------------------------------------------
(* What is kept of a list.                                                  *)

LEMMA PositionsIs ==
  ASSUME NEW n \in Nat, NEW among
  PROVE  /\ Positions(n, among)[0] = <<>>
         /\ \A i \in 1..n : Positions(n, among)[i] =
              IF i \in among THEN Append(Positions(n, among)[i-1], i)
                             ELSE Positions(n, among)[i-1]
<1> DEFINE V == Seq(Nat)
           next == [i \in 1..n |-> [v \in V |-> IF i \in among THEN Append(v, i) ELSE v]]
           Eq(f) == f = [i \in 0..n |-> IF i = 0 THEN <<>>
                                        ELSE IF i \in among THEN Append(f[i-1], i) ELSE f[i-1]]
<1>1. next \in [1..n -> [V -> V]]
  <2>1. ASSUME NEW i \in 1..n, NEW v \in V
        PROVE  (IF i \in among THEN Append(v, i) ELSE v) \in V
    <3>1. i \in Nat
      OBVIOUS
    <3> QED
      BY <3>1, AppendProperties
  <2> HIDE DEF V
  <2> QED
    BY <2>1
<1>2. <<>> \in V
  BY EmptySeq
<1>3. \E f : Eq(f)
  <2> HIDE DEF V
  <2>0. PICK f : Recurs(n, V, <<>>, next, f)
    <3> HIDE DEF next
    <3> QED
      BY <1>1, <1>2, Recursion
  <2>1. f \in [0..n -> V] /\ f[0] = <<>> /\ \A i \in 1..n : f[i] = next[i][f[i-1]]
    BY <2>0 DEF Recurs
  <2>2. ASSUME NEW i \in 1..n PROVE f[i] = IF i \in among THEN Append(f[i-1], i) ELSE f[i-1]
    <3>1. i - 1 \in 0..n /\ f[i-1] \in V
      BY <2>1
    <3> QED
      BY <2>1, <3>1
  <2>3. \A i \in 0..n : i = 0 \/ i \in 1..n
    OBVIOUS
  <2>4. Eq(f)
    BY <2>1, <2>2, <2>3
  <2> QED
    BY <2>4
<1>4. Positions(n, among) = CHOOSE f : Eq(f)
  BY DEF Positions
<1>5. Eq(Positions(n, among))
  <2> HIDE DEF Eq
  <2> QED
    BY <1>3, <1>4
<1>6. 0 \in 0..n /\ \A i \in 1..n : i \in 0..n /\ i # 0
  OBVIOUS
<1> QED
  BY <1>5, <1>6

\* The positions are those given, each once and in order.
Picks(among, i, kept) ==
  /\ kept \in Seq(Nat)
  /\ \A k \in 1..Len(kept) : kept[k] \in among /\ kept[k] \in 1..i
  /\ \A j, k \in 1..Len(kept) : j < k => kept[j] < kept[k]
  /\ \A x \in among : x \in 1..i => \E k \in 1..Len(kept) : kept[k] = x

LEMMA PositionsFacts ==
  ASSUME NEW n \in Nat, NEW among
  PROVE  \A i \in 0..n : Picks(among, i, Positions(n, among)[i])
<1> DEFINE P(i) == Positions(n, among)[i]
           T == {i \in 0..n : Picks(among, i, P(i))}
<1>1. 0 \in T
  <2>1. P(0) = <<>>
    BY PositionsIs
  <2>2. Picks(among, 0, <<>>)
    BY EmptySeq DEF Picks
  <2> QED
    BY <2>1, <2>2
<1>2. ASSUME NEW i \in 1..n, i - 1 \in T PROVE i \in T
  <2>1. Picks(among, i - 1, P(i-1))
    BY <1>2
  <2>2. CASE i \notin among
    <3>1. P(i) = P(i-1)
      BY <2>2, PositionsIs
    <3>2. \A x \in among : x \in 1..i => x \in 1..i-1
      BY <2>2
    <3>3. Picks(among, i, P(i))
      <4> HIDE DEF P
      <4> QED
        BY <2>1, <3>1, <3>2 DEF Picks
    <3> QED
      BY <3>3
  <2>3. CASE i \in among
    <3>1. P(i) = Append(P(i-1), i)
      BY <2>3, PositionsIs
    <3> HIDE DEF P
    <3> DEFINE m == Len(P(i-1))
    <3>2. /\ P(i) \in Seq(Nat) /\ Len(P(i)) = m + 1 /\ m \in Nat
          /\ \A k \in 1..m : P(i)[k] = P(i-1)[k]
          /\ P(i)[m + 1] = i
      BY <2>1, <3>1, AppendProperties, LenProperties DEF Picks
    <3>3. \A k \in 1..m : P(i-1)[k] \in among /\ P(i-1)[k] \in 1..i-1
      BY <2>1 DEF Picks
    <3>4. \A k \in 1..m + 1 : P(i)[k] \in among /\ P(i)[k] \in 1..i
      <4> TAKE k \in 1..m + 1
      <4>1. CASE k = m + 1
        BY <2>3, <3>2, <4>1
      <4>2. CASE k \in 1..m
        <5>1. P(i-1)[k] \in 1..i
          BY <3>3, <4>2
        <5> QED
          BY <3>2, <3>3, <4>2, <5>1
      <4> QED
        BY <3>2, <4>1, <4>2
    <3>5. \A j, k \in 1..m + 1 : j < k => P(i)[j] < P(i)[k]
      <4> SUFFICES ASSUME NEW j \in 1..m + 1, NEW k \in 1..m + 1, j < k PROVE P(i)[j] < P(i)[k]
        OBVIOUS
      <4>1. j \in 1..m /\ P(i)[j] = P(i-1)[j]
        BY <3>2
      <4>2. CASE k = m + 1
        <5>1. P(i-1)[j] \in 1..i-1
          BY <3>3, <4>1
        <5> QED
          BY <3>2, <4>1, <4>2, <5>1
      <4>3. CASE k \in 1..m
        BY <2>1, <3>2, <4>1, <4>3 DEF Picks
      <4>4. m \in Nat
        BY <3>2
      <4>5. k = m + 1 \/ k \in 1..m
        BY <4>4
      <4> QED
        BY <4>2, <4>3, <4>5
    <3>6. \A x \in among : x \in 1..i => \E k \in 1..m + 1 : P(i)[k] = x
      <4> SUFFICES ASSUME NEW x \in among, x \in 1..i PROVE \E k \in 1..m + 1 : P(i)[k] = x
        OBVIOUS
      <4>1. CASE x = i
        <5>1. m + 1 \in 1..m + 1
          BY <3>2
        <5> QED
          BY <3>2, <4>1, <5>1
      <4>2. CASE x # i
        <5>1. x \in 1..i-1
          BY <4>2
        <5>2. PICK k \in 1..m : P(i-1)[k] = x
          BY <2>1, <5>1 DEF Picks
        <5>3. k \in 1..m + 1 /\ P(i)[k] = x
          BY <3>2, <5>2
        <5> QED
          BY <5>3
      <4> QED
        BY <4>1, <4>2
    <3>7. Picks(among, i, P(i))
      BY <3>2, <3>4, <3>5, <3>6 DEF Picks
    <3> QED
      BY <3>7 DEF P
  <2> QED
    BY <2>2, <2>3
<1> HIDE DEF T
<1>3. 0..n \subseteq T
  BY <1>1, <1>2, Upward
<1> QED
  BY <1>3 DEF T

\* The positions that are kept, and what is there.
Kept(s, among, kept) ==
  /\ Picks(among, Len(s), kept)
  /\ Len(Keep(s, among)) = Len(kept)
  /\ Len(kept) \in Nat
  /\ \A k \in 1..Len(kept) : Keep(s, among)[k] = s[kept[k]]

LEMMA KeepFacts ==
  ASSUME NEW S, NEW s \in Seq(S), NEW among
  PROVE  Keep(s, among) \in Seq(S) /\ \E kept : Kept(s, among, kept)
<1> DEFINE kept == Positions(Len(s), among)[Len(s)]
<1>1. Len(s) \in Nat /\ \A i \in 1..Len(s) : s[i] \in S
  BY LenProperties, ElementOfSeq
<1>2. Picks(among, Len(s), kept)
  BY <1>1, PositionsFacts
<1>3. Keep(s, among) = [k \in 1..Len(kept) |-> s[kept[k]]]
  BY DEF Keep
<1> HIDE DEF kept
<1>4. kept \in Seq(Nat) /\ Len(kept) \in Nat
  BY <1>2, LenProperties DEF Picks
<1>5. \A k \in 1..Len(kept) : s[kept[k]] \in S
  BY <1>1, <1>2 DEF Picks
<1>6. Keep(s, among) \in Seq(S) /\ Len(Keep(s, among)) = Len(kept)
  BY <1>3, <1>4, <1>5
<1>7. Kept(s, among, kept)
  BY <1>2, <1>3, <1>4, <1>6 DEF Kept
<1> QED
  BY <1>6, <1>7

\* Its members are the members at those positions.
LEMMA KeepElements ==
  ASSUME NEW S, NEW s \in Seq(S), NEW among
  PROVE  Elements(Keep(s, among)) = {s[i] : i \in among \cap (1..Len(s))}
<1>0. PICK kept : Kept(s, among, kept)
  BY KeepFacts
<1> DEFINE left == Keep(s, among)
<1>1. Elements(left) = {s[kept[k]] : k \in 1..Len(kept)}
  <2>1. left \in Seq(S)
    BY KeepFacts
  <2> HIDE DEF left
  <2>2. Elements(left) = {left[k] : k \in 1..Len(left)}
    BY <2>1 DEF Elements
  <2>3. Len(left) = Len(kept) /\ \A k \in 1..Len(kept) : left[k] = s[kept[k]]
    BY <1>0 DEF Kept, left
  <2> QED
    BY <2>2, <2>3
<1> USE <1>0 DEF Kept
<1>2. ASSUME NEW k \in 1..Len(kept) PROVE s[kept[k]] \in {s[i] : i \in among \cap (1..Len(s))}
  BY DEF Picks
<1>3. ASSUME NEW i \in among \cap (1..Len(s)) PROVE s[i] \in {s[kept[k]] : k \in 1..Len(kept)}
  <2>1. PICK k \in 1..Len(kept) : kept[k] = i
    BY DEF Picks
  <2> QED
    BY <2>1
<1> QED
  BY <1>1, <1>2, <1>3

\* Nothing is left out: the list stays as it is.
LEMMA KeepAll ==
  ASSUME NEW S, NEW s \in Seq(S), NEW among, 1..Len(s) \subseteq among
  PROVE  Keep(s, among) = s
<1> DEFINE n == Len(s)
           P(i) == Positions(n, among)[i]
           T == {i \in 0..n : Len(P(i)) = i /\ P(i) \in Seq(Nat) /\ \A k \in 1..i : P(i)[k] = k}
<1>0. n \in Nat
  BY LenProperties
<1>1. 0 \in T
  <2>1. P(0) = <<>>
    BY <1>0, PositionsIs
  <2>2. Len(<<>>) = 0 /\ <<>> \in Seq(Nat) /\ \A k \in 1..0 : <<>>[k] = k
    BY EmptySeq
  <2>3. Len(P(0)) = 0 /\ P(0) \in Seq(Nat) /\ \A k \in 1..0 : P(0)[k] = k
    BY <2>1, <2>2
  <2> HIDE DEF P
  <2> QED
    BY <1>0, <2>3
<1>2. ASSUME NEW i \in 1..n, i - 1 \in T PROVE i \in T
  <2>1. P(i) = Append(P(i-1), i)
    BY <1>0, PositionsIs
  <2>2. Len(P(i-1)) = i - 1 /\ P(i-1) \in Seq(Nat) /\ \A k \in 1..i-1 : P(i-1)[k] = k
    BY <1>2
  <2> HIDE DEF P
  <2>3. /\ P(i) \in Seq(Nat) /\ Len(P(i)) = i - 1 + 1
        /\ \A k \in 1..i - 1 : P(i)[k] = P(i-1)[k]
        /\ P(i)[i - 1 + 1] = i
    BY <2>1, <2>2, AppendProperties
  <2>4. i - 1 + 1 = i /\ \A k \in 1..i : k = i \/ k \in 1..i-1
    OBVIOUS
  <2>5. \A k \in 1..i : P(i)[k] = k
    BY <2>2, <2>3, <2>4
  <2>6. Len(P(i)) = i
    BY <2>3, <2>4
  <2> QED
    BY <2>3, <2>5, <2>6
<1> HIDE DEF T
<1>3. n \in T
  <2> HIDE DEF n
  <2>1. 0..n \subseteq T
    BY <1>0, <1>1, <1>2, Upward
  <2> QED
    BY <1>0, <2>1
<1>4. Len(P(n)) = n /\ \A k \in 1..n : P(n)[k] = k
  BY <1>3 DEF T
<1>5. Keep(s, among) = [k \in 1..n |-> s[k]]
  BY <1>0, <1>4 DEF Keep
<1> QED
  BY <1>0, <1>5

-----------------------------------------------------------------------------
(* The strokes of a board.                                                  *)

\* What strokes are named by: by a page and a number, and by one number more for
\* each time the stroke was erased; and the strokes.
Names == {id \in Seq(Pages \cup {Nobody} \cup Nat) : Len(id) > 1}

Stroke == [id : Names, at : Int]

\* Their ids are distinct.
Distinct(strokes) ==
  \A i, j \in 1..Len(strokes) : strokes[i].id = strokes[j].id => i = j

Plain == {strokes \in Seq(Stroke) : Distinct(strokes)}

LEMMA ElementsAre ==
  ASSUME NEW S, NEW s \in Seq(S)
  PROVE  /\ Elements(s) = {s[k] : k \in 1..Len(s)}
         /\ Elements(s) \in SUBSET S
         /\ DOMAIN s = 1..Len(s) /\ Len(s) \in Nat
<1>1. DOMAIN s = 1..Len(s) /\ Len(s) \in Nat /\ \A k \in 1..Len(s) : s[k] \in S
  BY LenProperties, ElementOfSeq
<1> QED
  BY <1>1 DEF Elements

LEMMA ElementsEmpty == Elements(<<>>) = {}
BY DEF Elements

LEMMA ElementsOne ==
  ASSUME NEW o
  PROVE  Elements(<<o>>) = {o}
BY DEF Elements

LEMMA ElementsConcat ==
  ASSUME NEW S, NEW s \in Seq(S), NEW t \in Seq(S)
  PROVE  Elements(s \o t) = Elements(s) \cup Elements(t)
<1>1. /\ s \o t \in Seq(S) /\ Len(s \o t) = Len(s) + Len(t)
      /\ \A k \in 1..Len(s) + Len(t) :
           (s \o t)[k] = IF k <= Len(s) THEN s[k] ELSE t[k - Len(s)]
      /\ Len(s) \in Nat /\ Len(t) \in Nat
  BY ConcatProperties, LenProperties
<1> DEFINE r == s \o t
<1>2. /\ Elements(s) = {s[k] : k \in 1..Len(s)}
      /\ Elements(t) = {t[k] : k \in 1..Len(t)}
      /\ Elements(r) = {r[k] : k \in 1..Len(r)}
  BY <1>1, ElementsAre
<1> HIDE DEF r
<1>3. ASSUME NEW k \in 1..Len(s) PROVE k \in 1..Len(r) /\ r[k] = s[k]
  BY <1>1 DEF r
<1>4. ASSUME NEW k \in 1..Len(t) PROVE Len(s) + k \in 1..Len(r) /\ r[Len(s) + k] = t[k]
  <2>1. Len(s) + k \in 1..Len(s) + Len(t) /\ ~(Len(s) + k <= Len(s)) /\ Len(s) + k - Len(s) = k
    BY <1>1
  <2> QED
    BY <1>1, <2>1 DEF r
<1>5. ASSUME NEW k \in 1..Len(r) PROVE r[k] \in Elements(s) \cup Elements(t)
  <2>1. CASE k <= Len(s)
    <3>1. k \in 1..Len(s)
      BY <1>1, <2>1 DEF r
    <3> QED
      BY <1>2, <1>3, <3>1
  <2>2. CASE ~(k <= Len(s))
    <3>1. k - Len(s) \in 1..Len(t) /\ Len(s) + (k - Len(s)) = k
      BY <1>1, <2>2 DEF r
    <3> QED
      BY <1>2, <1>4, <3>1
  <2> QED
    BY <2>1, <2>2
<1>6. Elements(r) = Elements(s) \cup Elements(t)
  BY <1>2, <1>3, <1>4, <1>5
<1> QED
  BY <1>6 DEF r

LEMMA ElementsAppend ==
  ASSUME NEW S, NEW s \in Seq(S), NEW o \in S
  PROVE  Elements(Append(s, o)) = Elements(s) \cup {o}
<1>1. <<o>> \in Seq(S) /\ Append(s, o) = s \o <<o>>
  BY AppendIsConcat
<1>2. Elements(s \o <<o>>) = Elements(s) \cup Elements(<<o>>)
  <2> DEFINE t == <<o>>
  <2>1. t \in Seq(S)
    BY <1>1
  <2> HIDE DEF t
  <2>2. Elements(s \o t) = Elements(s) \cup Elements(t)
    BY <2>1, ElementsConcat
  <2> QED
    BY <2>2 DEF t
<1>3. Elements(<<o>>) = {o}
  BY ElementsOne
<1> QED
  BY <1>1, <1>2, <1>3

LEMMA HasStrokeIs ==
  ASSUME NEW strokes \in Plain, NEW id
  PROVE  /\ HasStroke(strokes, id) = \E k \in 1..Len(strokes) : strokes[k].id = id
         /\ HasStroke(strokes, id) =>
              /\ StrokeById(strokes, id) \in Elements(strokes)
              /\ StrokeById(strokes, id).id = id
<1>1. Elements(strokes) = {strokes[k] : k \in 1..Len(strokes)}
  BY ElementsAre DEF Plain
<1> QED
  BY <1>1 DEF HasStroke, StrokeById

\* In a board two strokes of one id are one.
LEMMA PlainElements ==
  ASSUME NEW strokes \in Plain
  PROVE  /\ Elements(strokes) \in SUBSET Stroke
         /\ \A s, t \in Elements(strokes) : s.id = t.id => s = t
<1>1. Elements(strokes) = {strokes[k] : k \in 1..Len(strokes)} /\ Elements(strokes) \in SUBSET Stroke
  BY ElementsAre DEF Plain
<1> QED
  BY <1>1 DEF Plain, Distinct

LEMMA PlainKeep ==
  ASSUME NEW strokes \in Plain, NEW among
  PROVE  Keep(strokes, among) \in Plain
<1>1. strokes \in Seq(Stroke) /\ Distinct(strokes)
  BY DEF Plain
<1>2. PICK kept : Kept(strokes, among, kept)
  BY <1>1, KeepFacts
<1> DEFINE left == Keep(strokes, among)
<1>3. left \in Seq(Stroke)
  BY <1>1, KeepFacts
<1>4. /\ Len(left) = Len(kept) /\ Len(kept) \in Nat
      /\ \A k \in 1..Len(kept) : left[k] = strokes[kept[k]]
  BY <1>2 DEF Kept
<1>5. ASSUME NEW i \in 1..Len(left), NEW j \in 1..Len(left), left[i].id = left[j].id
      PROVE  i = j
  <2>1. /\ kept[i] \in 1..Len(strokes) /\ kept[j] \in 1..Len(strokes)
        /\ i < j => kept[i] < kept[j]
        /\ j < i => kept[j] < kept[i]
    BY <1>2, <1>4 DEF Kept, Picks
  <2>2. kept[i] = kept[j]
    BY <1>1, <1>4, <1>5, <2>1 DEF Distinct
  <2> QED
    BY <1>4, <2>1, <2>2
<1> QED
  BY <1>3, <1>5 DEF Plain, Distinct

\* Strokes on top of others, of other ids.
LEMMA PlainConcat ==
  ASSUME NEW s \in Plain, NEW t \in Plain,
         \A x \in Elements(s), y \in Elements(t) : x.id # y.id
  PROVE  s \o t \in Plain
<1>0. s \in Seq(Stroke) /\ t \in Seq(Stroke) /\ Distinct(s) /\ Distinct(t)
  BY DEF Plain
<1>1. /\ s \o t \in Seq(Stroke) /\ Len(s \o t) = Len(s) + Len(t)
      /\ \A k \in 1..Len(s) + Len(t) :
           (s \o t)[k] = IF k <= Len(s) THEN s[k] ELSE t[k - Len(s)]
      /\ Len(s) \in Nat /\ Len(t) \in Nat
  BY <1>0, ConcatProperties, LenProperties
<1> DEFINE r == s \o t
<1>2. \A i \in 1..Len(s), j \in 1..Len(t) : s[i].id # t[j].id
  BY <1>0, ElementsAre
<1>3. \A k \in 1..Len(r) : \/ k \in 1..Len(s) /\ r[k] = s[k]
                           \/ k - Len(s) \in 1..Len(t) /\ r[k] = t[k - Len(s)]
  BY <1>1
<1> HIDE DEF r
<1>4. ASSUME NEW i \in 1..Len(r), NEW j \in 1..Len(r), r[i].id = r[j].id PROVE i = j
  <2>1. i \in Int /\ j \in Int /\ Len(s) \in Int
    BY <1>1
  <2>2. CASE i \in 1..Len(s) /\ r[i] = s[i] /\ j \in 1..Len(s) /\ r[j] = s[j]
    BY <1>0, <1>4, <2>2 DEF Distinct
  <2>3. CASE /\ i - Len(s) \in 1..Len(t) /\ r[i] = t[i - Len(s)]
             /\ j - Len(s) \in 1..Len(t) /\ r[j] = t[j - Len(s)]
    <3>1. i - Len(s) = j - Len(s)
      BY <1>0, <1>4, <2>3 DEF Distinct
    <3> QED
      BY <2>1, <3>1
  <2>4. CASE i \in 1..Len(s) /\ r[i] = s[i] /\ j - Len(s) \in 1..Len(t) /\ r[j] = t[j - Len(s)]
    BY <1>2, <1>4, <2>4
  <2>5. CASE j \in 1..Len(s) /\ r[j] = s[j] /\ i - Len(s) \in 1..Len(t) /\ r[i] = t[i - Len(s)]
    BY <1>2, <1>4, <2>5
  <2> QED
    BY <1>3, <2>2, <2>3, <2>4, <2>5
<1> QED
  BY <1>1, <1>4 DEF r, Plain, Distinct

LEMMA PlainOne ==
  ASSUME NEW stroke \in Stroke
  PROVE  <<stroke>> \in Plain
BY DEF Plain, Distinct

LEMMA PlainEmpty == <<>> \in Plain
BY EmptySeq DEF Plain, Distinct

-----------------------------------------------------------------------------
(* The operations of the undo stack, and what each does to the set of the   *)
(* strokes.                                                                 *)

SoundOp ==
  [type : {"add", "remove", "clear"}, strokes : Plain]
    \cup {op \in [type : {"change"}, from : Stroke, to : Stroke] : op.from.id = op.to.id}

SoundBoard == [strokes : Plain, past : Seq(SoundOp), future : Seq(SoundOp)]

IdsOf(S) == {s.id : s \in S}

NextSet(S, op) ==
  CASE op.type = "add" -> S \cup {s \in Elements(op.strokes) : s.id \notin IdsOf(S)}
    [] op.type = "remove" -> {s \in S : s.id \notin IdsOf(Elements(op.strokes))}
    [] op.type = "clear" -> {}
    [] op.type = "change" -> {IF s.id = op.to.id THEN op.to ELSE s : s \in S}

LEMMA SoundOpCases ==
  ASSUME NEW op \in SoundOp
  PROVE  \/ op.type \in {"add", "remove", "clear"} /\ op.strokes \in Plain
         \/ op.type = "change" /\ op.from \in Stroke /\ op.to \in Stroke /\ op.from.id = op.to.id
BY DEF SoundOp

LEMMA NextAdds ==
  ASSUME NEW strokes \in Plain, NEW op \in SoundOp, op.type = "add"
  PROVE  /\ NextStrokes(strokes, op) \in Plain
         /\ Elements(NextStrokes(strokes, op)) = NextSet(Elements(strokes), op)
<1>1. op.strokes \in Plain
  BY SoundOpCases
<1> DEFINE added == op.strokes
           among == {i \in DOMAIN added : ~ HasStroke(strokes, added[i].id)}
           fresh == Keep(added, among)
<1>2. NextStrokes(strokes, op) = strokes \o fresh
  BY DEF NextStrokes, Fresh
<1>3. NextSet(Elements(strokes), op) =
        Elements(strokes) \cup {s \in Elements(added) : s.id \notin IdsOf(Elements(strokes))}
  BY DEF NextSet
<1>4. \A id : HasStroke(strokes, id) <=> id \in IdsOf(Elements(strokes))
  BY DEF HasStroke, IdsOf
<1>5. /\ added \in Seq(Stroke) /\ strokes \in Seq(Stroke)
      /\ DOMAIN added = 1..Len(added)
      /\ Elements(added) = {added[k] : k \in 1..Len(added)}
  BY <1>1, ElementsAre DEF Plain
<1> HIDE DEF added
<1>6. Elements(fresh) = {added[i] : i \in among \cap (1..Len(added))}
  <2> HIDE DEF among
  <2> QED
    BY <1>5, KeepElements
<1>7. Elements(fresh) = {s \in Elements(added) : s.id \notin IdsOf(Elements(strokes))}
  <2> HIDE DEF fresh
  <2> QED
    BY <1>4, <1>5, <1>6
<1>8. fresh \in Plain
  <2> HIDE DEF among
  <2> QED
    BY <1>1, PlainKeep DEF added
<1> HIDE DEF fresh
<1>9. \A x \in Elements(strokes), y \in Elements(fresh) : x.id # y.id
  BY <1>7 DEF IdsOf
<1>10. strokes \o fresh \in Plain
  BY <1>8, <1>9, PlainConcat
<1>11. Elements(strokes \o fresh) = Elements(strokes) \cup Elements(fresh)
  BY <1>5, <1>8, ElementsConcat DEF Plain
<1> QED
  BY <1>2, <1>3, <1>7, <1>10, <1>11

LEMMA NextRemoves ==
  ASSUME NEW strokes \in Plain, NEW op \in SoundOp, op.type = "remove"
  PROVE  /\ NextStrokes(strokes, op) \in Plain
         /\ Elements(NextStrokes(strokes, op)) = NextSet(Elements(strokes), op)
<1> DEFINE among == {i \in DOMAIN strokes : ~ HasStroke(op.strokes, strokes[i].id)}
<1>1. NextStrokes(strokes, op) = Keep(strokes, among)
  BY DEF NextStrokes
<1>2. NextSet(Elements(strokes), op) =
        {s \in Elements(strokes) : s.id \notin IdsOf(Elements(op.strokes))}
  BY DEF NextSet
<1>3. \A id : HasStroke(op.strokes, id) <=> id \in IdsOf(Elements(op.strokes))
  BY DEF HasStroke, IdsOf
<1>4. /\ strokes \in Seq(Stroke)
      /\ DOMAIN strokes = 1..Len(strokes)
      /\ Elements(strokes) = {strokes[k] : k \in 1..Len(strokes)}
  BY ElementsAre DEF Plain
<1>5. Elements(Keep(strokes, among)) = {strokes[i] : i \in among \cap (1..Len(strokes))}
  <2> HIDE DEF among
  <2> QED
    BY <1>4, KeepElements
<1>6. Elements(Keep(strokes, among)) =
        {s \in Elements(strokes) : s.id \notin IdsOf(Elements(op.strokes))}
  BY <1>3, <1>4, <1>5
<1>7. Keep(strokes, among) \in Plain
  <2> HIDE DEF among
  <2> QED
    BY PlainKeep
<1> QED
  BY <1>1, <1>2, <1>6, <1>7

LEMMA NextChanges ==
  ASSUME NEW strokes \in Plain, NEW op \in SoundOp, op.type = "change"
  PROVE  /\ NextStrokes(strokes, op) \in Plain
         /\ Elements(NextStrokes(strokes, op)) = NextSet(Elements(strokes), op)
<1> DEFINE New(s) == IF s.id = op.to.id THEN op.to ELSE s
           next == [i \in DOMAIN strokes |-> New(strokes[i])]
<1>1. NextStrokes(strokes, op) = next
  BY DEF NextStrokes
<1>2. NextSet(Elements(strokes), op) = {New(s) : s \in Elements(strokes)}
  BY DEF NextSet
<1>3. /\ strokes \in Seq(Stroke) /\ Distinct(strokes)
      /\ DOMAIN strokes = 1..Len(strokes) /\ Len(strokes) \in Nat
      /\ Elements(strokes) = {strokes[k] : k \in 1..Len(strokes)}
      /\ \A k \in 1..Len(strokes) : strokes[k] \in Stroke
  BY ElementsAre, ElementOfSeq DEF Plain
<1>4. op.to \in Stroke
  BY SoundOpCases
<1>5. \A s \in Stroke : New(s) \in Stroke /\ New(s).id = s.id
  BY <1>4
<1> HIDE DEF New
<1>6. next \in Seq(Stroke) /\ Len(next) = Len(strokes)
      /\ \A k \in 1..Len(strokes) : next[k] = New(strokes[k])
  BY <1>3, <1>5
<1> HIDE DEF next
<1>7. next \in Plain
  BY <1>3, <1>5, <1>6 DEF Plain, Distinct
<1>8. Elements(next) = {next[k] : k \in 1..Len(next)}
  BY <1>6, ElementsAre
<1>9. Elements(next) = {New(s) : s \in Elements(strokes)}
  BY <1>3, <1>6, <1>8
<1> QED
  BY <1>1, <1>2, <1>7, <1>9

\* A board stays a board, and its strokes as a set tell what becomes of them.
LEMMA NextFacts ==
  ASSUME NEW strokes \in Plain, NEW op \in SoundOp
  PROVE  /\ NextStrokes(strokes, op) \in Plain
         /\ Elements(NextStrokes(strokes, op)) = NextSet(Elements(strokes), op)
<1>1. op.type \in {"add", "remove", "clear", "change"}
  BY SoundOpCases
<1>2. CASE op.type = "clear"
  <2>1. NextStrokes(strokes, op) = <<>> /\ NextSet(Elements(strokes), op) = {}
    BY <1>2 DEF NextStrokes, NextSet
  <2> QED
    BY <2>1, PlainEmpty, ElementsEmpty
<1> QED
  BY <1>1, <1>2, NextAdds, NextRemoves, NextChanges

LEMMA SoundOps ==
  /\ \A strokes \in Plain : /\ Adding(strokes) \in SoundOp
                            /\ Removing(strokes) \in SoundOp
                            /\ Clearing(strokes) \in SoundOp
  /\ \A from, to \in Stroke : from.id = to.id => Changing(from, to) \in SoundOp
BY DEF Adding, Removing, Clearing, Changing, SoundOp

LEMMA InvertSound ==
  ASSUME NEW op \in SoundOp
  PROVE  InvertOp(op) \in SoundOp
<1>1. CASE op.type \in {"add", "remove", "clear"} /\ op.strokes \in Plain
  BY <1>1, SoundOps DEF InvertOp
<1>2. CASE op.type = "change" /\ op.from \in Stroke /\ op.to \in Stroke /\ op.from.id = op.to.id
  BY <1>2, SoundOps DEF InvertOp
<1> QED
  BY <1>1, <1>2, SoundOpCases

LEMMA CommitSound ==
  ASSUME NEW b \in SoundBoard, NEW op \in SoundOp
  PROVE  /\ Commit(b, op) \in SoundBoard
         /\ Commit(b, op).strokes = NextStrokes(b.strokes, op)
         /\ Commit(b, op).past = Append(b.past, op)
         /\ Commit(b, op).future = <<>>
<1>1. b.strokes \in Plain /\ b.past \in Seq(SoundOp)
  BY DEF SoundBoard
<1>2. NextStrokes(b.strokes, op) \in Plain
  BY <1>1, NextFacts
<1>3. Append(b.past, op) \in Seq(SoundOp) /\ <<>> \in Seq(SoundOp)
  BY <1>1, AppendProperties, EmptySeq
<1> QED
  BY <1>2, <1>3 DEF Commit, SoundBoard

\* All but the newest, and the newest.
LEMMA ShorterFacts ==
  ASSUME NEW S, NEW ops \in Seq(S), ops # <<>>
  PROVE  /\ Shorter(ops) \in Seq(S) /\ Newest(ops) \in S
         /\ Len(ops) \in Nat /\ Len(ops) > 0 /\ Len(Shorter(ops)) = Len(ops) - 1
         /\ \A k \in 1..Len(ops) - 1 : Shorter(ops)[k] = ops[k]
<1>1. Len(ops) \in Nat \ {0} /\ \A k \in 1..Len(ops) : ops[k] \in S
  BY EmptySeq, ElementOfSeq
<1>2. 1 \in Int /\ Len(ops) - 1 \in Int /\ \A k \in 1..Len(ops) - 1 : ops[k] \in S
  BY <1>1
<1>3. /\ Shorter(ops) \in Seq(S)
      /\ Len(Shorter(ops)) = IF 1 <= Len(ops) - 1 THEN Len(ops) - 1 - 1 + 1 ELSE 0
      /\ \A k \in 1..Len(ops) - 1 - 1 + 1 : Shorter(ops)[k] = ops[1 + k - 1]
  BY <1>2, SubSeqProperties DEF Shorter
<1>4. Len(Shorter(ops)) = Len(ops) - 1
  <2>1. \A n \in Nat \ {0} : (IF 1 <= n - 1 THEN n - 1 - 1 + 1 ELSE 0) = n - 1
    OBVIOUS
  <2>2. (IF 1 <= Len(ops) - 1 THEN Len(ops) - 1 - 1 + 1 ELSE 0) = Len(ops) - 1
    BY <1>1, <2>1
  <2> QED
    BY <1>3, <2>2
<1>5. Newest(ops) \in S
  BY <1>1 DEF Newest
<1> QED
  BY <1>1, <1>3, <1>4, <1>5

LEMMA UndoSound ==
  ASSUME NEW b \in SoundBoard, b.past # <<>>
  PROVE  Undo(b) \in SoundBoard
<1>1. b.strokes \in Plain /\ b.past \in Seq(SoundOp) /\ b.future \in Seq(SoundOp)
  BY DEF SoundBoard
<1>2. Shorter(b.past) \in Seq(SoundOp) /\ Newest(b.past) \in SoundOp
  BY <1>1, ShorterFacts
<1>3. NextStrokes(b.strokes, InvertOp(Newest(b.past))) \in Plain
  BY <1>1, <1>2, InvertSound, NextFacts
<1>4. Append(b.future, Newest(b.past)) \in Seq(SoundOp)
  BY <1>1, <1>2, AppendProperties
<1> QED
  BY <1>2, <1>3, <1>4 DEF Undo, SoundBoard

LEMMA RedoSound ==
  ASSUME NEW b \in SoundBoard, b.future # <<>>
  PROVE  Redo(b) \in SoundBoard
<1>1. b.strokes \in Plain /\ b.past \in Seq(SoundOp) /\ b.future \in Seq(SoundOp)
  BY DEF SoundBoard
<1>2. Shorter(b.future) \in Seq(SoundOp) /\ Newest(b.future) \in SoundOp
  BY <1>1, ShorterFacts
<1>3. NextStrokes(b.strokes, Newest(b.future)) \in Plain
  BY <1>1, <1>2, NextFacts
<1>4. Append(b.past, Newest(b.future)) \in Seq(SoundOp)
  BY <1>1, <1>2, AppendProperties
<1> QED
  BY <1>2, <1>3, <1>4 DEF Redo, SoundBoard

LEMMA LoadedSound ==
  ASSUME NEW strokes \in Plain
  PROVE  LoadedBoard(strokes) \in SoundBoard /\ LoadedBoard(strokes).strokes = strokes
<1>1. <<>> \in Seq(SoundOp)
  BY EmptySeq
<1>2. Adding(strokes) \in SoundOp
  BY SoundOps
<1>3. <<Adding(strokes)>> \in Seq(SoundOp)
  BY <1>2
<1> QED
  BY <1>1, <1>3 DEF LoadedBoard, SoundBoard

-----------------------------------------------------------------------------
(* The server's replay.  Its states are read as boards, and what an         *)
(* operation does to the board is said once, for server and engine alike.   *)

Once(s) == \A i, j \in 1..Len(s) : s[i] = s[j] => i = j

SoundStates ==
  {state \in [objects : UNION {[ids -> Int] : ids \in SUBSET Names}, order : Seq(Names)] :
     /\ ObjectIds(state) = Elements(state.order)
     /\ Once(state.order)}

SoundServerOp ==
  [type : {"create_stroke"}, id : Names, at : Int]
    \cup [type : {"delete_object"}, id : Names]
    \cup [type : {"clear_canvas"}]
    \cup [type : {"move_object"}, id : Names, by : Int]
    \cup [type : {"resize_object"}, id : Names, about : Int, by : Int]
    \cup [type : {"restore_version"}, strokes : Plain]

At(stroke, op) == [id |-> stroke.id, at |-> NewPlace(stroke.at, op)]

After(strokes, op) ==
  CASE op.type = "create_stroke" -> Append(strokes, [id |-> op.id, at |-> op.at])
    [] op.type = "delete_object" -> Keep(strokes, {i \in DOMAIN strokes : strokes[i].id # op.id})
    [] op.type = "clear_canvas" -> <<>>
    [] op.type \in {"move_object", "resize_object"} ->
         [i \in DOMAIN strokes |-> IF strokes[i].id = op.id THEN At(strokes[i], op)
                                                           ELSE strokes[i]]
    [] op.type = "restore_version" -> op.strokes

LEMMA ServerOpCases ==
  ASSUME NEW op \in SoundServerOp
  PROVE  \/ op.type = "create_stroke" /\ op.id \in Names /\ op.at \in Int
         \/ op.type = "delete_object" /\ op.id \in Names
         \/ op.type = "clear_canvas"
         \/ op.type = "move_object" /\ op.id \in Names /\ op.by \in Int
         \/ op.type = "resize_object" /\ op.id \in Names /\ op.about \in Int /\ op.by \in Int
         \/ op.type = "restore_version" /\ op.strokes \in Plain
BY DEF SoundServerOp

LEMMA StateFacts ==
  ASSUME NEW state \in SoundStates
  PROVE  /\ state = [objects |-> state.objects, order |-> state.order]
         /\ state.order \in Seq(Names) /\ Once(state.order)
         /\ Len(state.order) \in Nat /\ DOMAIN state.order = 1..Len(state.order)
         /\ ObjectIds(state) = {state.order[k] : k \in 1..Len(state.order)}
         /\ ObjectIds(state) = DOMAIN state.objects
         /\ ObjectIds(state) \in SUBSET Names
         /\ \A id \in ObjectIds(state) : state.objects[id] \in Int
<1>1. /\ state = [objects |-> state.objects, order |-> state.order]
      /\ state.order \in Seq(Names) /\ Once(state.order)
      /\ ObjectIds(state) = Elements(state.order)
  BY DEF SoundStates
<1>2. PICK ids \in SUBSET Names : state.objects \in [ids -> Int]
  BY DEF SoundStates
<1>3. ObjectIds(state) = DOMAIN state.objects
  BY DEF ObjectIds
<1> QED
  BY <1>1, <1>2, <1>3, ElementsAre

LEMMA StateMade ==
  ASSUME NEW ids \in SUBSET Names, NEW objects \in [ids -> Int], NEW order \in Seq(Names),
         Elements(order) = ids, Once(order)
  PROVE  [objects |-> objects, order |-> order] \in SoundStates
<1> DEFINE state == [objects |-> objects, order |-> order]
<1>1. objects \in UNION {[i -> Int] : i \in SUBSET Names}
  OBVIOUS
<1>2. ObjectIds(state) = Elements(state.order) /\ Once(state.order)
  BY DEF ObjectIds
<1> QED
  BY <1>1, <1>2 DEF SoundStates

LEMMA InOrderFacts ==
  ASSUME NEW state \in SoundStates
  PROVE  /\ InOrder(state) \in Plain
         /\ Len(InOrder(state)) = Len(state.order)
         /\ \A i \in 1..Len(state.order) :
              InOrder(state)[i] = [id |-> state.order[i], at |-> state.objects[state.order[i]]]
         /\ IdsOf(Elements(InOrder(state))) = ObjectIds(state)
<1> DEFINE order == state.order
           stroke(i) == [id |-> order[i], at |-> state.objects[order[i]]]
<1>1. /\ Len(order) \in Nat /\ DOMAIN order = 1..Len(order) /\ Once(order)
      /\ \A i \in 1..Len(order) : order[i] \in Names /\ state.objects[order[i]] \in Int
      /\ ObjectIds(state) = {order[k] : k \in 1..Len(order)}
  BY StateFacts, ElementOfSeq
<1>2. \A i \in 1..Len(order) : stroke(i) \in Stroke /\ stroke(i).id = order[i]
  BY <1>1 DEF Stroke
<1>3. InOrder(state) = [i \in 1..Len(order) |-> stroke(i)]
  BY <1>1 DEF InOrder
<1> HIDE DEF stroke
<1> DEFINE strokes == InOrder(state)
<1>4. /\ strokes \in Seq(Stroke) /\ Len(strokes) = Len(order)
      /\ \A i \in 1..Len(order) : strokes[i] = stroke(i)
  BY <1>1, <1>2, <1>3
<1> HIDE DEF strokes, order
<1>5. strokes \in Plain
  BY <1>1, <1>2, <1>4 DEF Plain, Distinct, Once
<1>6. Elements(strokes) = {strokes[k] : k \in 1..Len(strokes)}
  BY <1>4, ElementsAre
<1>7. IdsOf(Elements(strokes)) = ObjectIds(state)
  BY <1>1, <1>2, <1>4, <1>6 DEF IdsOf
<1> QED
  BY <1>4, <1>5, <1>7 DEF stroke, strokes, order

LEMMA OnceKeep ==
  ASSUME NEW S, NEW s \in Seq(S), Once(s), NEW among
  PROVE  Once(Keep(s, among))
<1>1. PICK kept : Kept(s, among, kept)
  BY KeepFacts
<1> DEFINE left == Keep(s, among)
<1>2. /\ Len(left) = Len(kept) /\ Len(kept) \in Nat
      /\ \A k \in 1..Len(kept) : left[k] = s[kept[k]]
  BY <1>1 DEF Kept
<1>3. ASSUME NEW i \in 1..Len(left), NEW j \in 1..Len(left), left[i] = left[j] PROVE i = j
  <2>1. /\ kept[i] \in 1..Len(s) /\ kept[j] \in 1..Len(s)
        /\ i < j => kept[i] < kept[j]
        /\ j < i => kept[j] < kept[i]
    BY <1>1, <1>2 DEF Kept, Picks
  <2>2. kept[i] = kept[j]
    BY <1>2, <1>3, <2>1 DEF Once
  <2> QED
    BY <1>2, <2>1, <2>2
<1> QED
  BY <1>3 DEF Once

\* The ids without one of them.
LEMMA WithoutFacts ==
  ASSUME NEW order \in Seq(Names), Once(order), NEW id
  PROVE  /\ Without(order, id) \in Seq(Names) /\ Once(Without(order, id))
         /\ Elements(Without(order, id)) = Elements(order) \ {id}
         /\ id \notin Elements(order) => Without(order, id) = order
<1> DEFINE among == {i \in DOMAIN order : order[i] # id}
<1>1. /\ DOMAIN order = 1..Len(order)
      /\ Elements(order) = {order[k] : k \in 1..Len(order)}
  BY ElementsAre
<1>2. Without(order, id) = Keep(order, among)
  BY DEF Without
<1>3. \A i : i \in among <=> i \in 1..Len(order) /\ order[i] # id
  BY <1>1
<1> HIDE DEF among
<1>4. Keep(order, among) \in Seq(Names) /\ Once(Keep(order, among))
  BY KeepFacts, OnceKeep
<1>5. Elements(Keep(order, among)) = {order[i] : i \in among \cap (1..Len(order))}
  BY KeepElements
<1>6. Elements(Keep(order, among)) = Elements(order) \ {id}
  BY <1>1, <1>3, <1>5
<1>7. ASSUME id \notin Elements(order) PROVE Keep(order, among) = order
  <2>1. 1..Len(order) \subseteq among
    BY <1>1, <1>3, <1>7
  <2> QED
    BY <2>1, KeepAll
<1> QED
  BY <1>2, <1>4, <1>6, <1>7

LEMMA OnceAppend ==
  ASSUME NEW S, NEW s \in Seq(S), Once(s), NEW o \in S, o \notin Elements(s)
  PROVE  Once(Append(s, o))
<1>1. /\ Len(s) \in Nat /\ Len(Append(s, o)) = Len(s) + 1
      /\ \A k \in 1..Len(s) : Append(s, o)[k] = s[k]
      /\ Append(s, o)[Len(s) + 1] = o
  BY AppendProperties, LenProperties
<1>2. \A k \in 1..Len(s) : s[k] # o
  BY ElementsAre
<1>3. ASSUME NEW i \in 1..Len(s) + 1, NEW j \in 1..Len(s) + 1, Append(s, o)[i] = Append(s, o)[j]
      PROVE  i = j
  <2>1. CASE i \in 1..Len(s) /\ j \in 1..Len(s)
    BY <1>1, <1>3, <2>1 DEF Once
  <2>2. CASE i = Len(s) + 1 /\ j \in 1..Len(s)
    BY <1>1, <1>2, <1>3, <2>2
  <2>3. CASE j = Len(s) + 1 /\ i \in 1..Len(s)
    BY <1>1, <1>2, <1>3, <2>3
  <2>4. CASE i = Len(s) + 1 /\ j = Len(s) + 1
    BY <2>4
  <2> QED
    BY <1>1, <2>1, <2>2, <2>3, <2>4
<1> QED
  BY <1>1, <1>3 DEF Once

\* A stroke that is not there goes on top.
LEMMA UpsertFacts ==
  ASSUME NEW state \in SoundStates, NEW id \in Names, NEW at \in Int
  PROVE  /\ Upsert(state, id, at) \in SoundStates
         /\ ObjectIds(Upsert(state, id, at)) = ObjectIds(state) \cup {id}
         /\ id \notin ObjectIds(state) =>
              InOrder(Upsert(state, id, at)) = Append(InOrder(state), [id |-> id, at |-> at])
<1> DEFINE left == Without(state.order, id)
           order == Append(left, id)
           ids == ObjectIds(state) \cup {id}
           objects == [other \in ids |-> IF other = id THEN at ELSE state.objects[other]]
           next == Upsert(state, id, at)
<1>1. /\ state.order \in Seq(Names) /\ Once(state.order)
      /\ ObjectIds(state) = Elements(state.order)
      /\ ObjectIds(state) \in SUBSET Names
      /\ \A other \in ObjectIds(state) : state.objects[other] \in Int
  BY StateFacts, ElementsAre
<1>2. /\ left \in Seq(Names) /\ Once(left)
      /\ Elements(left) = Elements(state.order) \ {id}
      /\ id \notin Elements(state.order) => left = state.order
  BY <1>1, WithoutFacts
<1>3. next = [objects |-> objects, order |-> order]
  BY DEF Upsert
<1> HIDE DEF left
<1>4. /\ order \in Seq(Names) /\ Elements(order) = Elements(left) \cup {id}
      /\ Once(order)
  BY <1>2, AppendProperties, ElementsAppend, OnceAppend
<1>5. ids \in SUBSET Names /\ objects \in [ids -> Int] /\ Elements(order) = ids
  BY <1>1, <1>2, <1>4
<1> HIDE DEF order, objects, ids
<1>6. next \in SoundStates
  BY <1>3, <1>4, <1>5, StateMade
<1>7. ObjectIds(next) = ids
  BY <1>3, <1>5 DEF ObjectIds
<1>8. ASSUME id \notin ObjectIds(state)
      PROVE  InOrder(next) = Append(InOrder(state), [id |-> id, at |-> at])
  <2> DEFINE stroke == [id |-> id, at |-> at]
  <2>0. order = Append(state.order, id)
    BY <1>1, <1>2, <1>8 DEF order
  <2>1. /\ Len(state.order) \in Nat /\ Len(order) = Len(state.order) + 1
        /\ \A k \in 1..Len(state.order) : order[k] = state.order[k]
        /\ order[Len(state.order) + 1] = id
    BY <1>1, <2>0, AppendProperties, LenProperties
  <2>2. /\ InOrder(state) \in Seq(Stroke) /\ Len(InOrder(state)) = Len(state.order)
        /\ \A i \in 1..Len(state.order) :
             InOrder(state)[i] = [id |-> state.order[i], at |-> state.objects[state.order[i]]]
    BY InOrderFacts DEF Plain
  <2>3. /\ InOrder(next) \in Seq(Stroke) /\ Len(InOrder(next)) = Len(order)
        /\ \A i \in 1..Len(order) :
             InOrder(next)[i] = [id |-> order[i], at |-> objects[order[i]]]
    <3>1. next.order = order /\ next.objects = objects
      BY <1>3
    <3> HIDE DEF next
    <3> QED
      BY <1>6, <3>1, InOrderFacts DEF Plain
  <2>4. stroke \in Stroke
    BY DEF Stroke
  <2> HIDE DEF next, stroke
  <2>5. /\ Append(InOrder(state), stroke) \in Seq(Stroke)
        /\ Len(Append(InOrder(state), stroke)) = Len(state.order) + 1
        /\ \A k \in 1..Len(state.order) : Append(InOrder(state), stroke)[k] = InOrder(state)[k]
        /\ Append(InOrder(state), stroke)[Len(state.order) + 1] = stroke
    BY <2>2, <2>4, AppendProperties
  <2>6. ASSUME NEW i \in 1..Len(state.order) + 1
        PROVE  InOrder(next)[i] = Append(InOrder(state), stroke)[i]
    <3>1. CASE i = Len(state.order) + 1
      <4>1. i \in 1..Len(order) /\ order[i] = id /\ objects[id] = at
        BY <2>1, <3>1 DEF objects, ids
      <4> QED
        BY <2>3, <2>5, <3>1, <4>1 DEF stroke
    <3>2. CASE i \in 1..Len(state.order)
      <4>1. /\ i \in 1..Len(order) /\ order[i] = state.order[i]
            /\ state.order[i] \in ObjectIds(state) /\ state.order[i] # id
        BY <1>1, <1>8, <2>1, <3>2, ElementsAre
      <4>2. objects[order[i]] = state.objects[state.order[i]]
        BY <4>1 DEF objects, ids
      <4> QED
        BY <2>2, <2>3, <2>5, <3>2, <4>1, <4>2
    <3>3. \A m \in Nat : i \in 1..m + 1 => i = m + 1 \/ i \in 1..m
      OBVIOUS
    <3>4. i = Len(state.order) + 1 \/ i \in 1..Len(state.order)
      BY <2>1, <3>3
    <3> QED
      BY <3>1, <3>2, <3>4
  <2>7. Len(InOrder(next)) = Len(Append(InOrder(state), stroke))
    BY <2>1, <2>3, <2>5
  <2>8. InOrder(next) = Append(InOrder(state), stroke)
    BY <2>1, <2>3, <2>5, <2>6, <2>7, SeqEqual
  <2> QED
    BY <2>8 DEF next, stroke
<1> QED
  BY <1>6, <1>7, <1>8 DEF ids

\* The others stay, in their order.
LEMMA DropFacts ==
  ASSUME NEW state \in SoundStates, NEW id
  PROVE  /\ Drop(state, id) \in SoundStates
         /\ ObjectIds(Drop(state, id)) = ObjectIds(state) \ {id}
         /\ InOrder(Drop(state, id)) =
              Keep(InOrder(state), {i \in DOMAIN InOrder(state) : InOrder(state)[i].id # id})
<1> DEFINE order == Without(state.order, id)
           ids == ObjectIds(state) \ {id}
           objects == [other \in ids |-> state.objects[other]]
           next == Drop(state, id)
           strokes == InOrder(state)
           among == {i \in DOMAIN strokes : strokes[i].id # id}
<1>1. /\ state.order \in Seq(Names) /\ Once(state.order)
      /\ Len(state.order) \in Nat /\ DOMAIN state.order = 1..Len(state.order)
      /\ ObjectIds(state) = Elements(state.order)
      /\ ObjectIds(state) \in SUBSET Names
      /\ \A other \in ObjectIds(state) : state.objects[other] \in Int
  BY StateFacts, ElementsAre
<1>2. /\ order \in Seq(Names) /\ Once(order)
      /\ Elements(order) = Elements(state.order) \ {id}
  BY <1>1, WithoutFacts
<1>3. next = [objects |-> objects, order |-> order]
  BY DEF Drop
<1>4. ids \in SUBSET Names /\ objects \in [ids -> Int] /\ Elements(order) = ids
  BY <1>1, <1>2
<1>5. /\ strokes \in Seq(Stroke) /\ Len(strokes) = Len(state.order)
      /\ DOMAIN strokes = 1..Len(strokes)
      /\ \A i \in 1..Len(state.order) :
           strokes[i] = [id |-> state.order[i], at |-> state.objects[state.order[i]]]
  BY InOrderFacts, LenProperties DEF Plain
<1> HIDE DEF strokes
<1>6. among = {i \in DOMAIN state.order : state.order[i] # id}
  <2>1. ASSUME NEW i \in 1..Len(state.order) PROVE strokes[i].id = state.order[i]
    <3>1. strokes[i] = [id |-> state.order[i], at |-> state.objects[state.order[i]]]
      BY <1>5
    <3> QED
      BY ONLY <3>1
  <2> QED
    BY <1>1, <1>5, <2>1
<1>7. order = Keep(state.order, among)
  BY <1>6 DEF Without
<1> HIDE DEF order, objects, ids, among
<1>8. next \in SoundStates
  BY <1>2, <1>3, <1>4, StateMade
<1>9. ObjectIds(next) = ids
  BY <1>3, <1>4 DEF ObjectIds
<1>10. InOrder(next) = Keep(strokes, among)
  <2> DEFINE kept == Positions(Len(strokes), among)[Len(strokes)]
  <2>1. order = [k \in 1..Len(kept) |-> state.order[kept[k]]]
    BY <1>5, <1>7 DEF Keep
  <2>2. Keep(strokes, among) = [k \in 1..Len(kept) |-> strokes[kept[k]]]
    BY DEF Keep
  <2>3. Picks(among, Len(strokes), kept)
    <3> HIDE DEF kept
    <3> QED
      BY <1>1, <1>5, PositionsFacts DEF kept
  <2> HIDE DEF kept
  <2>4. Len(kept) \in Nat /\ \A k \in 1..Len(kept) : kept[k] \in 1..Len(strokes)
    BY <2>3, LenProperties DEF Picks
  <2>5. \A k \in 1..Len(kept) : order[k] = state.order[kept[k]]
    BY <2>1
  <2>6. DOMAIN order = 1..Len(kept)
    BY <2>1
  <2>7. ASSUME NEW k \in 1..Len(kept)
        PROVE  [id |-> order[k], at |-> objects[order[k]]] = strokes[kept[k]]
    <3>1. order[k] \in ids
      BY <1>2, <1>4, <2>6, ElementsAre
    <3>2. objects[order[k]] = state.objects[order[k]]
      BY <3>1 DEF objects
    <3>3. strokes[kept[k]] =
            [id |-> state.order[kept[k]], at |-> state.objects[state.order[kept[k]]]]
      BY <1>5, <2>4
    <3> QED
      BY <2>5, <3>2, <3>3
  <2>8. InOrder(next) = [k \in 1..Len(kept) |-> [id |-> order[k], at |-> objects[order[k]]]]
    BY <1>3, <2>6 DEF InOrder
  <2> QED
    BY <2>2, <2>7, <2>8
<1> QED
  BY <1>8, <1>9, <1>10 DEF ids, strokes, among

LEMMA PatchFacts ==
  ASSUME NEW state \in SoundStates, NEW op \in SoundServerOp,
         op.type \in {"move_object", "resize_object"}
  PROVE  /\ Patch(state, op) \in SoundStates
         /\ ObjectIds(Patch(state, op)) = ObjectIds(state)
         /\ InOrder(Patch(state, op)) = After(InOrder(state), op)
<1> DEFINE order == state.order
           strokes == InOrder(state)
           ids == ObjectIds(state)
           objects == [other \in ids |->
                         IF other = op.id THEN NewPlace(state.objects[other], op)
                                          ELSE state.objects[other]]
           next == Patch(state, op)
<1>1. /\ state = [objects |-> state.objects, order |-> order]
      /\ order \in Seq(Names) /\ Once(order)
      /\ Len(order) \in Nat /\ DOMAIN order = 1..Len(order)
      /\ ids = Elements(order) /\ ids = {order[k] : k \in 1..Len(order)}
      /\ ids = DOMAIN state.objects
      /\ ids \in SUBSET Names
      /\ \A other \in ids : state.objects[other] \in Int
  BY StateFacts, ElementsAre
<1>2. \A at \in Int : NewPlace(at, op) \in Int
  BY ServerOpCases DEF NewPlace, Moved, Scaled
<1>3. next = [objects |-> objects, order |-> order]
  <2>1. CASE op.id \in ids
    <3>1. state.objects = [other \in ids |-> state.objects[other]]
      <4> PICK i \in SUBSET Names : state.objects \in [i -> Int]
        BY DEF SoundStates
      <4> QED
        BY <1>1
    <3>2. [state.objects EXCEPT ![op.id] = NewPlace(@, op)] = objects
      BY <2>1, <3>1
    <3>3. next = [state EXCEPT !.objects = [state.objects EXCEPT ![op.id] = NewPlace(@, op)]]
      BY <2>1 DEF Patch
    <3> HIDE DEF objects, next
    <3>4. next = [state EXCEPT !.objects = objects]
      BY <3>2, <3>3
    <3> QED
      BY <1>1, <3>4
  <2>2. CASE op.id \notin ids
    <3>1. next = state
      BY <2>2 DEF Patch
    <3>2. objects = state.objects
      <4> PICK i \in SUBSET Names : state.objects \in [i -> Int]
        BY DEF SoundStates
      <4> QED
        BY <1>1, <2>2
    <3> QED
      BY <1>1, <3>1, <3>2
  <2> QED
    BY <2>1, <2>2
<1>4. objects \in [ids -> Int]
  BY <1>1, <1>2
<1>5. /\ strokes \in Seq(Stroke) /\ Len(strokes) = Len(order)
      /\ DOMAIN strokes = 1..Len(strokes)
      /\ \A i \in 1..Len(order) : strokes[i] = [id |-> order[i], at |-> state.objects[order[i]]]
  BY InOrderFacts, LenProperties DEF Plain
<1> HIDE DEF objects, strokes, next
<1>6. next \in SoundStates
  <2> HIDE DEF ids, order
  <2> QED
    BY <1>1, <1>3, <1>4, StateMade
<1>7. ObjectIds(next) = ids
  BY <1>3, <1>4 DEF ObjectIds
<1>8. InOrder(next) = After(strokes, op)
  <2>1. InOrder(next) = [i \in 1..Len(order) |-> [id |-> order[i], at |-> objects[order[i]]]]
    BY <1>1, <1>3 DEF InOrder
  <2>2. After(strokes, op) =
          [i \in 1..Len(order) |-> IF strokes[i].id = op.id THEN At(strokes[i], op)
                                                            ELSE strokes[i]]
    BY <1>5 DEF After
  <2>3. ASSUME NEW i \in 1..Len(order)
        PROVE  [id |-> order[i], at |-> objects[order[i]]] =
               IF strokes[i].id = op.id THEN At(strokes[i], op) ELSE strokes[i]
    <3>1. order[i] \in ids /\ strokes[i].id = order[i] /\ strokes[i].at = state.objects[order[i]]
      BY <1>1, <1>5
    <3>2. objects[order[i]] = IF order[i] = op.id THEN NewPlace(state.objects[order[i]], op)
                                                  ELSE state.objects[order[i]]
      BY <3>1 DEF objects
    <3> QED
      BY <1>5, <3>1, <3>2 DEF At
  <2> QED
    BY <2>1, <2>2, <2>3
<1> QED
  BY <1>6, <1>7, <1>8 DEF next, strokes

LEMMA SnapshotFacts ==
  ASSUME NEW strokes \in Plain
  PROVE  /\ Snapshot(strokes) \in SoundStates
         /\ ObjectIds(Snapshot(strokes)) = IdsOf(Elements(strokes))
         /\ InOrder(Snapshot(strokes)) = strokes
<1> DEFINE ids == {strokes[i].id : i \in DOMAIN strokes}
           place(id) == (CHOOSE s \in {strokes[i] : i \in DOMAIN strokes} : s.id = id).at
           objects == [id \in ids |-> place(id)]
           order == [i \in DOMAIN strokes |-> strokes[i].id]
           state == Snapshot(strokes)
<1>1. /\ strokes \in Seq(Stroke) /\ Distinct(strokes)
      /\ Len(strokes) \in Nat /\ DOMAIN strokes = 1..Len(strokes)
      /\ Elements(strokes) = {strokes[k] : k \in 1..Len(strokes)}
      /\ \A i \in 1..Len(strokes) : strokes[i] \in Stroke
  BY ElementsAre, ElementOfSeq DEF Plain
<1>2. state = [objects |-> objects, order |-> order]
  BY DEF Snapshot
<1>3. ASSUME NEW i \in 1..Len(strokes) PROVE place(strokes[i].id) = strokes[i].at
  <2> DEFINE S == {strokes[k] : k \in DOMAIN strokes}
  <2>1. strokes[i] \in S /\ \A s \in S : s.id = strokes[i].id => s = strokes[i]
    BY <1>1 DEF Distinct
  <2> HIDE DEF S
  <2>2. (CHOOSE s \in S : s.id = strokes[i].id) = strokes[i]
    BY <2>1
  <2> QED
    BY <2>2 DEF S
<1> HIDE DEF place
<1>4. /\ order \in Seq(Names) /\ Len(order) = Len(strokes)
      /\ DOMAIN order = 1..Len(strokes)
      /\ \A i \in 1..Len(strokes) : order[i] = strokes[i].id
  BY <1>1 DEF Stroke
<1>5. ids \in SUBSET Names /\ objects \in [ids -> Int]
  <2>1. \A i \in 1..Len(strokes) : strokes[i].id \in Names /\ strokes[i].at \in Int
    BY <1>1 DEF Stroke
  <2>2. \A id \in ids : id \in Names /\ place(id) \in Int
    BY <1>1, <1>3, <2>1
  <2> HIDE DEF ids
  <2> QED
    BY <2>2
<1>6. Once(order)
  BY <1>1, <1>4 DEF Once, Distinct
<1>7. Elements(order) = ids
  <2> HIDE DEF order
  <2>1. Elements(order) = {order[k] : k \in 1..Len(order)}
    BY <1>4, ElementsAre
  <2> QED
    BY <1>1, <1>4, <2>1
<1>8. state \in SoundStates
  <2> HIDE DEF ids, objects, order, state
  <2> QED
    BY <1>2, <1>4, <1>5, <1>6, <1>7, StateMade
<1>9. ObjectIds(state) = ids
  BY <1>2 DEF ObjectIds
<1>10. ids = IdsOf(Elements(strokes))
  BY <1>1 DEF IdsOf
<1>11. InOrder(state) = strokes
  <2>1. InOrder(state) = [i \in 1..Len(strokes) |-> [id |-> order[i], at |-> objects[order[i]]]]
    <3> HIDE DEF order, objects
    <3> QED
      BY <1>2, <1>4 DEF InOrder
  <2>2. ASSUME NEW i \in 1..Len(strokes)
        PROVE  [id |-> order[i], at |-> objects[order[i]]] = strokes[i]
    <3>1. objects[strokes[i].id] = strokes[i].at
      BY <1>1, <1>3
    <3>2. order[i] = strokes[i].id
      BY <1>4
    <3> HIDE DEF order, objects
    <3>3. strokes[i] = [id |-> strokes[i].id, at |-> strokes[i].at]
      BY <1>1 DEF Stroke
    <3> QED
      BY <3>1, <3>2, <3>3
  <2>3. strokes = [i \in 1..Len(strokes) |-> strokes[i]]
    BY <1>1
  <2> HIDE DEF order, objects, state
  <2> QED
    BY <2>1, <2>2, <2>3
<1> HIDE DEF ids, state
<1> QED
  BY <1>8, <1>9, <1>10, <1>11 DEF state

LEMMA NoObjectsSound ==
  NoObjects \in SoundStates /\ ObjectIds(NoObjects) = {} /\ InOrder(NoObjects) = <<>>
<1> DEFINE none == [id \in {} |-> 0]
<1>1. none \in [{} -> Int] /\ {} \in SUBSET Names /\ DOMAIN none = {}
  OBVIOUS
<1>2. <<>> \in Seq(Names) /\ Elements(<<>>) = {} /\ Once(<<>>)
  BY EmptySeq, ElementsEmpty DEF Once
<1>3. NoObjects = [objects |-> none, order |-> <<>>]
  BY DEF NoObjects
<1> HIDE DEF none
<1>4. [objects |-> none, order |-> <<>>] \in SoundStates
  BY <1>1, <1>2, StateMade
<1>5. NoObjects \in SoundStates /\ ObjectIds(NoObjects) = {} /\ NoObjects.order = <<>>
  BY <1>1, <1>3, <1>4 DEF ObjectIds
<1>6. InOrder(NoObjects) \in Seq(Stroke) /\ Len(InOrder(NoObjects)) = Len(NoObjects.order)
  BY <1>5, InOrderFacts DEF Plain
<1>7. Len(InOrder(NoObjects)) = 0
  BY <1>5, <1>6, EmptySeq
<1> QED
  BY <1>5, <1>6, <1>7, EmptySeq

\* The ids an operation brings to the board.
NamesIn(op) ==
  CASE op.type = "create_stroke" -> {op.id}
    [] op.type = "restore_version" -> IdsOf(Elements(op.strokes))
    [] OTHER -> {}

LEMMA ApplyFacts ==
  ASSUME NEW state \in SoundStates, NEW op \in SoundServerOp
  PROVE  /\ ApplyOp(state, op) \in SoundStates
         /\ ObjectIds(ApplyOp(state, op)) \subseteq ObjectIds(state) \cup NamesIn(op)
         /\ (op.type = "create_stroke" => op.id \notin ObjectIds(state)) =>
              InOrder(ApplyOp(state, op)) = After(InOrder(state), op)
<1>1. CASE op.type = "create_stroke" /\ op.id \in Names /\ op.at \in Int
  <2>1. ApplyOp(state, op) = Upsert(state, op.id, op.at) /\ NamesIn(op) = {op.id}
    BY <1>1 DEF ApplyOp, NamesIn
  <2>2. After(InOrder(state), op) = Append(InOrder(state), [id |-> op.id, at |-> op.at])
    BY <1>1 DEF After
  <2> QED
    BY <1>1, <2>1, <2>2, UpsertFacts
<1>2. CASE op.type = "delete_object"
  <2>1. ApplyOp(state, op) = Drop(state, op.id)
    BY <1>2 DEF ApplyOp
  <2>2. After(InOrder(state), op) =
          Keep(InOrder(state), {i \in DOMAIN InOrder(state) : InOrder(state)[i].id # op.id})
    BY <1>2 DEF After
  <2>3. /\ Drop(state, op.id) \in SoundStates
        /\ ObjectIds(Drop(state, op.id)) = ObjectIds(state) \ {op.id}
        /\ InOrder(Drop(state, op.id)) =
             Keep(InOrder(state), {i \in DOMAIN InOrder(state) : InOrder(state)[i].id # op.id})
    BY DropFacts
  <2> QED
    BY <2>1, <2>2, <2>3
<1>3. CASE op.type = "clear_canvas"
  <2>1. ApplyOp(state, op) = NoObjects /\ After(InOrder(state), op) = <<>>
    BY <1>3 DEF ApplyOp, After
  <2> QED
    BY <2>1, NoObjectsSound
<1>4. CASE op.type \in {"move_object", "resize_object"}
  <2>1. ApplyOp(state, op) = Patch(state, op)
    BY <1>4 DEF ApplyOp
  <2>2. /\ Patch(state, op) \in SoundStates
        /\ ObjectIds(Patch(state, op)) = ObjectIds(state)
        /\ InOrder(Patch(state, op)) = After(InOrder(state), op)
    BY <1>4, PatchFacts
  <2> QED
    BY <2>1, <2>2
<1>5. CASE op.type = "restore_version" /\ op.strokes \in Plain
  <2>1. /\ ApplyOp(state, op) = Snapshot(op.strokes)
        /\ After(InOrder(state), op) = op.strokes
        /\ NamesIn(op) = IdsOf(Elements(op.strokes))
    BY <1>5 DEF ApplyOp, After, NamesIn
  <2>2. /\ Snapshot(op.strokes) \in SoundStates
        /\ ObjectIds(Snapshot(op.strokes)) = IdsOf(Elements(op.strokes))
        /\ InOrder(Snapshot(op.strokes)) = op.strokes
    BY <1>5, SnapshotFacts
  <2> QED
    BY <2>1, <2>2
<1> QED
  BY <1>1, <1>2, <1>3, <1>4, <1>5, ServerOpCases

LEMMA StatesAre ==
  ASSUME NEW ops \in Seq(SoundServerOp)
  PROVE  /\ States(ops)[0] = NoObjects
         /\ \A i \in 1..Len(ops) : States(ops)[i] = ApplyOp(States(ops)[i-1], ops[i])
         /\ \A i \in 0..Len(ops) : States(ops)[i] \in SoundStates
<1> DEFINE n == Len(ops)
           V == SoundStates
           next == [i \in 1..n |-> [v \in V |-> ApplyOp(v, ops[i])]]
           Eq(f) == f = [i \in 0..n |-> IF i = 0 THEN NoObjects ELSE ApplyOp(f[i-1], ops[i])]
<1>0. n \in Nat /\ \A i \in 1..n : ops[i] \in SoundServerOp
  BY LenProperties, ElementOfSeq
<1>1. \A i \in 1..n : \A v \in V : ApplyOp(v, ops[i]) \in V
  BY <1>0, ApplyFacts
<1> HIDE DEF V
<1>2. next \in [1..n -> [V -> V]]
  BY <1>1
<1>3. NoObjects \in V
  BY NoObjectsSound DEF V
<1>4. \E f : Eq(f)
  <2>1. PICK f : Recurs(n, V, NoObjects, next, f)
    <3> HIDE DEF next, n
    <3> QED
      BY <1>0, <1>2, <1>3, Recursion
  <2>2. f \in [0..n -> V] /\ f[0] = NoObjects /\ \A i \in 1..n : f[i] = next[i][f[i-1]]
    BY <2>1 DEF Recurs
  <2>3. ASSUME NEW i \in 1..n PROVE f[i] = ApplyOp(f[i-1], ops[i])
    <3>1. i - 1 \in 0..n /\ f[i-1] \in V
      BY <1>0, <2>2
    <3> QED
      BY <2>2, <3>1
  <2>4. \A i \in 0..n : i = 0 \/ i \in 1..n
    BY <1>0
  <2>5. Eq(f)
    BY <2>2, <2>3, <2>4
  <2> QED
    BY <2>5
<1>5. States(ops) = CHOOSE f : Eq(f)
  BY DEF States
<1>6. Eq(States(ops))
  <2> HIDE DEF Eq
  <2> QED
    BY <1>4, <1>5
<1>7. 0 \in 0..n /\ \A i \in 1..n : i \in 0..n /\ i # 0
  BY <1>0
<1>8. States(ops)[0] = NoObjects /\ \A i \in 1..n : States(ops)[i] = ApplyOp(States(ops)[i-1], ops[i])
  BY <1>6, <1>7
<1> DEFINE T == {i \in 0..n : States(ops)[i] \in V}
<1>9. 0..n \subseteq T
  <2>1. 0 \in T
    BY <1>3, <1>7, <1>8
  <2>2. \A i \in 1..n : i - 1 \in T => i \in T
    BY <1>1, <1>7, <1>8
  <2> HIDE DEF T, n
  <2> QED
    BY <1>0, <2>1, <2>2, Upward
<1> QED
  BY <1>8, <1>9 DEF V

\* What was replayed first does not depend on what comes after it.
LEMMA StatesPrefix ==
  ASSUME NEW s \in Seq(SoundServerOp), NEW t \in Seq(SoundServerOp),
         NEW n \in Nat, n <= Len(s), n <= Len(t), \A i \in 1..n : s[i] = t[i]
  PROVE  \A i \in 0..n : States(s)[i] = States(t)[i]
<1> DEFINE T == {i \in 0..n : States(s)[i] = States(t)[i]}
<1>0. Len(s) \in Nat /\ Len(t) \in Nat
  BY LenProperties
<1>1. 0 \in T
  BY StatesAre
<1>2. ASSUME NEW i \in 1..n, i - 1 \in T PROVE i \in T
  <2>1. i \in 1..Len(s) /\ i \in 1..Len(t) /\ i \in 0..n
    BY <1>0
  <2>2. /\ States(s)[i] = ApplyOp(States(s)[i-1], s[i])
        /\ States(t)[i] = ApplyOp(States(t)[i-1], t[i])
    BY <2>1, StatesAre
  <2> QED
    BY <1>2, <2>1, <2>2
<1> HIDE DEF T
<1>3. 0..n \subseteq T
  BY <1>1, <1>2, Upward
<1> QED
  BY <1>3 DEF T

-----------------------------------------------------------------------------
(* What the engine makes of an operation.                                   *)

LEMMA HasOne ==
  ASSUME NEW stroke \in Stroke, NEW id
  PROVE  HasStroke(<<stroke>>, id) <=> stroke.id = id
BY ElementsOne DEF HasStroke

LEMMA AddingOne ==
  ASSUME NEW strokes \in Plain, NEW stroke \in Stroke, ~ HasStroke(strokes, stroke.id)
  PROVE  NextStrokes(strokes, Adding(<<stroke>>)) = Append(strokes, stroke)
<1> DEFINE among == {i \in DOMAIN <<stroke>> : ~ HasStroke(strokes, <<stroke>>[i].id)}
<1>1. NextStrokes(strokes, Adding(<<stroke>>)) = strokes \o Keep(<<stroke>>, among)
  BY DEF NextStrokes, Adding, Fresh
<1>2. <<stroke>> \in Seq(Stroke) /\ 1..Len(<<stroke>>) \subseteq among
  OBVIOUS
<1> HIDE DEF among
<1>3. Keep(<<stroke>>, among) = <<stroke>>
  BY <1>2, KeepAll
<1>4. strokes \in Seq(Stroke)
  BY DEF Plain
<1>5. strokes \o <<stroke>> = Append(strokes, stroke)
  BY <1>4
<1> QED
  BY <1>1, <1>3, <1>5

LEMMA RemovingOne ==
  ASSUME NEW strokes \in Plain, NEW stroke \in Stroke
  PROVE  NextStrokes(strokes, Removing(<<stroke>>)) =
           Keep(strokes, {i \in DOMAIN strokes : strokes[i].id # stroke.id})
<1> DEFINE among == {i \in DOMAIN strokes : ~ HasStroke(<<stroke>>, strokes[i].id)}
<1>1. NextStrokes(strokes, Removing(<<stroke>>)) = Keep(strokes, among)
  BY DEF NextStrokes, Removing
<1>2. among = {i \in DOMAIN strokes : strokes[i].id # stroke.id}
  BY HasOne
<1> QED
  BY <1>1, <1>2

\* A change of a stroke that is as the gesture found it.
LEMMA ChangingOne ==
  ASSUME NEW strokes \in Plain, NEW from \in Elements(strokes), NEW op \in SoundServerOp,
         op.type \in {"move_object", "resize_object"}, op.id = from.id
  PROVE  /\ At(from, op) \in Stroke /\ At(from, op).id = from.id
         /\ NextStrokes(strokes, Changing(from, At(from, op))) = After(strokes, op)
<1> DEFINE to == At(from, op)
<1>1. from \in Stroke /\ \A s \in Elements(strokes) : s.id = from.id => s = from
  BY PlainElements
<1>2. to \in Stroke /\ to.id = from.id
  <2>1. NewPlace(from.at, op) \in Int
    BY <1>1, ServerOpCases DEF NewPlace, Moved, Scaled, Stroke
  <2> QED
    BY <1>1, <2>1 DEF At, Stroke
<1>3. NextStrokes(strokes, Changing(from, to)) =
        [i \in DOMAIN strokes |-> IF strokes[i].id = to.id THEN to ELSE strokes[i]]
  <2> HIDE DEF to
  <2> QED
    BY DEF NextStrokes, Changing
<1>4. After(strokes, op) =
        [i \in DOMAIN strokes |-> IF strokes[i].id = op.id THEN At(strokes[i], op)
                                                          ELSE strokes[i]]
  BY DEF After
<1>5. ASSUME NEW i \in DOMAIN strokes
      PROVE  (IF strokes[i].id = to.id THEN to ELSE strokes[i]) =
             (IF strokes[i].id = op.id THEN At(strokes[i], op) ELSE strokes[i])
  <2>1. strokes[i] \in Elements(strokes)
    BY DEF Elements
  <2>2. strokes[i].id = from.id => strokes[i] = from
    BY <1>1, <2>1
  <2>3. to.id = op.id
    BY <1>2
  <2> HIDE DEF to
  <2>4. CASE strokes[i].id = from.id
    BY <1>2, <2>2, <2>4 DEF to
  <2>5. CASE strokes[i].id # from.id
    BY <1>2, <2>5
  <2> QED
    BY <2>4, <2>5
<1> HIDE DEF to
<1>6. NextStrokes(strokes, Changing(from, to)) = After(strokes, op)
  BY <1>3, <1>4, <1>5
<1> QED
  BY <1>2, <1>6 DEF to

\* What is not there cannot be deleted, moved or resized.
LEMMA AfterAbsent ==
  ASSUME NEW strokes \in Plain, NEW op \in SoundServerOp,
         op.type \in {"delete_object", "move_object", "resize_object"},
         ~ HasStroke(strokes, op.id)
  PROVE  After(strokes, op) = strokes
<1>1. /\ strokes \in Seq(Stroke) /\ DOMAIN strokes = 1..Len(strokes)
      /\ \A i \in DOMAIN strokes : strokes[i].id # op.id
  <2>1. strokes \in Seq(Stroke) /\ DOMAIN strokes = 1..Len(strokes)
    BY ElementsAre DEF Plain
  <2>2. \A i \in DOMAIN strokes : strokes[i].id # op.id
    BY DEF HasStroke, Elements
  <2> QED
    BY <2>1, <2>2
<1>2. CASE op.type = "delete_object"
  <2> DEFINE among == {i \in DOMAIN strokes : strokes[i].id # op.id}
  <2>1. After(strokes, op) = Keep(strokes, among)
    BY <1>2 DEF After
  <2>2. 1..Len(strokes) \subseteq among
    BY <1>1
  <2> HIDE DEF among
  <2> QED
    BY <1>1, <2>1, <2>2, KeepAll
<1>3. CASE op.type \in {"move_object", "resize_object"}
  <2>1. After(strokes, op) =
          [i \in DOMAIN strokes |-> IF strokes[i].id = op.id THEN At(strokes[i], op)
                                                            ELSE strokes[i]]
    BY <1>3 DEF After
  <2>2. After(strokes, op) = [i \in DOMAIN strokes |-> strokes[i]]
    BY <1>1, <2>1
  <2> QED
    BY <1>1, <2>2
<1> QED
  BY <1>2, <1>3

\* An operation that can be undone: what it adds is not there yet, what it
\* removes is there, and what it changes is as it was found, or not there.
Fits(S, op) ==
  CASE op.type = "add" -> IdsOf(Elements(op.strokes)) \cap IdsOf(S) = {}
    [] op.type = "remove" -> Elements(op.strokes) \subseteq S
    [] op.type = "clear" -> Elements(op.strokes) = S
    [] op.type = "change" -> op.from \in S \/ op.from.id \notin IdsOf(S)

\* The ids a local operation brings to the board.
Brings(op) == IF op.type = "add" THEN IdsOf(Elements(op.strokes)) ELSE {}

\* An operation that draws draws what is not there yet.
New(strokes, op) == op.type = "create_stroke" => ~ HasStroke(strokes, op.id)

\* What is received leaves the board alone or is committed to it, fits it, has
\* the server's effect, unless it draws what is there already, and brings only
\* the strokes the entry names.
LEMMA ReceivedFacts ==
  ASSUME NEW b \in SoundBoard, NEW entry, entry.op \in SoundServerOp
  PROVE  /\ New(b.strokes, entry.op) /\ entry.op.type # "restore_version" =>
              Received(b, entry).strokes = After(b.strokes, entry.op)
         /\ \/ Received(b, entry) = b
            \/ \E op \in SoundOp :
                 /\ Received(b, entry) = Commit(b, op)
                 /\ New(b.strokes, entry.op) => Fits(Elements(b.strokes), op)
                 /\ Brings(op) \subseteq NamesIn(entry.op)
<1> DEFINE op == entry.op
           strokes == b.strokes
           S == Elements(strokes)
           stroke == StrokeById(strokes, op.id)
           Good(o) == /\ Received(b, entry) = Commit(b, o)
                      /\ New(strokes, op) => Fits(S, o)
                      /\ Brings(o) \subseteq NamesIn(op)
<1>0. strokes \in Plain
  BY DEF SoundBoard
<1>1. CASE op.type = "create_stroke" /\ op.id \in Names /\ op.at \in Int
  <2> DEFINE new == [id |-> op.id, at |-> op.at]
             o == Adding(<<new>>)
  <2>1. new \in Stroke /\ new.id = op.id
    BY <1>1 DEF Stroke
  <2>2. Received(b, entry) = Commit(b, o) /\ NamesIn(op) = {op.id}
    BY <1>1 DEF Received, NamesIn
  <2>3. After(strokes, op) = Append(strokes, new)
    BY <1>1 DEF After
  <2> HIDE DEF new
  <2>4. o \in SoundOp
    BY <2>1, PlainOne, SoundOps
  <2>5. New(strokes, op) => Commit(b, o).strokes = Append(strokes, new)
    <3>1. HAVE New(strokes, op)
    <3>2. NextStrokes(strokes, o) = Append(strokes, new)
      BY <1>0, <1>1, <2>1, <3>1, AddingOne DEF New
    <3> QED
      BY <2>4, <3>2, CommitSound
  <2>6. IdsOf(Elements(<<new>>)) = {op.id}
    BY <2>1, ElementsOne DEF IdsOf
  <2>7. (New(strokes, op) => Fits(S, o)) /\ Brings(o) = {op.id}
    <3>1. New(strokes, op) => op.id \notin IdsOf(S)
      BY <1>1 DEF New, HasStroke, IdsOf
    <3>2. o.type = "add" /\ o.strokes = <<new>>
      BY DEF Adding
    <3> HIDE DEF o, S, op
    <3> QED
      BY <2>6, <3>1, <3>2 DEF Fits, Brings
  <2> QED
    BY <2>2, <2>3, <2>4, <2>5, <2>7
<1>2. CASE op.type = "delete_object" /\ HasStroke(strokes, op.id)
  <2> DEFINE o == Removing(<<stroke>>)
  <2>1. stroke \in S /\ stroke.id = op.id /\ stroke \in Stroke
    BY <1>0, <1>2, HasStrokeIs, PlainElements
  <2>2. Received(b, entry) = Commit(b, o)
    BY <1>2 DEF Received
  <2>3. After(strokes, op) = Keep(strokes, {i \in DOMAIN strokes : strokes[i].id # op.id})
    BY <1>2 DEF After
  <2> HIDE DEF stroke
  <2>4. o \in SoundOp
    BY <2>1, PlainOne, SoundOps
  <2>5. Commit(b, o).strokes = After(strokes, op)
    <3>1. NextStrokes(strokes, o) = After(strokes, op)
      BY <1>0, <2>1, <2>3, RemovingOne
    <3> QED
      BY <2>4, <3>1, CommitSound
  <2>6. o.type = "remove" /\ o.strokes = <<stroke>> /\ Elements(<<stroke>>) = {stroke}
    BY ElementsOne DEF Removing
  <2>7. Fits(S, o) /\ Brings(o) = {}
    <3> HIDE DEF o, S, op
    <3> QED
      BY <2>1, <2>6 DEF Fits, Brings, IdsOf
  <2> QED
    BY <1>2, <2>2, <2>4, <2>5, <2>7
<1>3. CASE /\ op.type \in {"move_object", "resize_object"} /\ op.id \in Names
           /\ HasStroke(strokes, op.id)
  <2> DEFINE o == Changing(stroke, At(stroke, op))
  <2>1. stroke \in S /\ stroke.id = op.id /\ stroke \in Stroke
    BY <1>0, <1>3, HasStrokeIs, PlainElements
  <2>2. Received(b, entry) = Commit(b, o)
    <3>1. stroke = [id |-> stroke.id, at |-> stroke.at]
      BY <2>1 DEF Stroke
    <3>2. CASE op.type = "move_object"
      <4>1. Received(b, entry) =
              Commit(b, Changing(stroke, [stroke EXCEPT !.at = Moved(@, op.by)]))
        BY <1>3, <3>2 DEF Received
      <4> HIDE DEF stroke, op
      <4>2. [stroke EXCEPT !.at = Moved(@, op.by)] = At(stroke, op)
        BY <3>1, <3>2 DEF At, NewPlace
      <4> QED
        BY <4>1, <4>2
    <3>3. CASE op.type = "resize_object"
      <4>1. Received(b, entry) =
              Commit(b, Changing(stroke, [stroke EXCEPT !.at = Scaled(@, op.about, op.by)]))
        BY <1>3, <3>3 DEF Received
      <4> HIDE DEF stroke, op
      <4>2. [stroke EXCEPT !.at = Scaled(@, op.about, op.by)] = At(stroke, op)
        BY <3>1, <3>3 DEF At, NewPlace
      <4> QED
        BY <4>1, <4>2
    <3> QED
      BY <1>3, <3>2, <3>3
  <2> HIDE DEF stroke
  <2>3. /\ At(stroke, op) \in Stroke /\ At(stroke, op).id = stroke.id
        /\ NextStrokes(strokes, o) = After(strokes, op)
    BY <1>0, <1>3, <2>1, ChangingOne
  <2>4. o \in SoundOp
    BY <2>1, <2>3, SoundOps
  <2>5. Commit(b, o).strokes = After(strokes, op)
    BY <2>3, <2>4, CommitSound
  <2>6. o.type = "change" /\ o.from = stroke
    BY DEF Changing
  <2>7. Fits(S, o) /\ Brings(o) = {}
    <3> HIDE DEF o, S, op
    <3> QED
      BY <2>1, <2>6 DEF Fits, Brings, IdsOf
  <2> QED
    BY <1>3, <2>2, <2>4, <2>5, <2>7
<1>4. CASE op.type \in {"delete_object", "move_object", "resize_object"} /\ ~ HasStroke(strokes, op.id)
  <2>1. Received(b, entry) = b
    BY <1>4 DEF Received
  <2> QED
    BY <1>0, <1>4, <2>1, AfterAbsent
<1>5. CASE op.type = "clear_canvas"
  <2>1. After(strokes, op) = <<>>
    BY <1>5 DEF After
  <2>2. CASE strokes = <<>>
    <3>1. Received(b, entry) = b
      BY <1>5, <2>2 DEF Received
    <3> QED
      BY <2>1, <2>2, <3>1
  <2>3. CASE strokes # <<>>
    <3> DEFINE o == Clearing(strokes)
    <3>1. Received(b, entry) = Commit(b, o)
      BY <1>5, <2>3 DEF Received
    <3>2. o.type = "clear" /\ o.strokes = strokes
      BY DEF Clearing
    <3>3. o \in SoundOp
      BY <1>0, SoundOps
    <3> HIDE DEF o
    <3>4. NextStrokes(strokes, o) = <<>>
      BY <3>2 DEF NextStrokes
    <3>5. Commit(b, o).strokes = <<>>
      BY <3>3, <3>4, CommitSound
    <3>6. Fits(S, o) /\ Brings(o) = {}
      <4> HIDE DEF op
      <4> QED
        BY <3>2 DEF Fits, Brings
    <3> QED
      BY <2>1, <3>1, <3>3, <3>5, <3>6
  <2> QED
    BY <2>2, <2>3
<1>6. CASE op.type = "restore_version"
  <2>1. Received(b, entry) = b
    BY <1>6 DEF Received
  <2> QED
    BY <1>6, <2>1
<1>7. \/ op.type = "create_stroke" /\ op.id \in Names /\ op.at \in Int
      \/ op.type = "delete_object"
      \/ op.type \in {"move_object", "resize_object"} /\ op.id \in Names
      \/ op.type = "clear_canvas"
      \/ op.type = "restore_version"
  BY ServerOpCases
<1> HIDE DEF op, strokes
<1> QED
  BY <1>1, <1>2, <1>3, <1>4, <1>5, <1>6, <1>7 DEF op, strokes

LEMMA ReceivedSound ==
  ASSUME NEW b \in SoundBoard, NEW entry, entry.op \in SoundServerOp
  PROVE  Received(b, entry) \in SoundBoard
BY ReceivedFacts, CommitSound

LEMMA BoardsAre ==
  ASSUME NEW b \in SoundBoard, NEW entries, Len(entries) \in Nat,
         \A i \in 1..Len(entries) : entries[i].op \in SoundServerOp
  PROVE  /\ Boards(b, entries)[0] = b
         /\ \A i \in 1..Len(entries) :
              Boards(b, entries)[i] = Received(Boards(b, entries)[i-1], entries[i])
         /\ \A i \in 0..Len(entries) : Boards(b, entries)[i] \in SoundBoard
<1> DEFINE n == Len(entries)
           V == SoundBoard
           next == [i \in 1..n |-> [v \in V |-> Received(v, entries[i])]]
           Eq(f) == f = [i \in 0..n |-> IF i = 0 THEN b ELSE Received(f[i-1], entries[i])]
<1>1. \A i \in 1..n : \A v \in V : Received(v, entries[i]) \in V
  BY ReceivedSound
<1> HIDE DEF V
<1>2. next \in [1..n -> [V -> V]]
  BY <1>1
<1>3. b \in V
  BY DEF V
<1>4. \E f : Eq(f)
  <2>1. PICK f : Recurs(n, V, b, next, f)
    <3> HIDE DEF next, n
    <3> QED
      BY <1>2, <1>3, Recursion DEF n
  <2>2. f \in [0..n -> V] /\ f[0] = b /\ \A i \in 1..n : f[i] = next[i][f[i-1]]
    BY <2>1 DEF Recurs
  <2>3. ASSUME NEW i \in 1..n PROVE f[i] = Received(f[i-1], entries[i])
    <3>1. i - 1 \in 0..n /\ f[i-1] \in V
      BY <2>2
    <3> QED
      BY <2>2, <3>1
  <2>4. \A i \in 0..n : i = 0 \/ i \in 1..n
    OBVIOUS
  <2>5. Eq(f)
    BY <2>2, <2>3, <2>4
  <2> QED
    BY <2>5
<1>5. Boards(b, entries) = CHOOSE f : Eq(f)
  BY DEF Boards
<1>6. Eq(Boards(b, entries))
  <2> HIDE DEF Eq
  <2> QED
    BY <1>4, <1>5
<1>7. 0 \in 0..n /\ \A i \in 1..n : i \in 0..n /\ i # 0
  OBVIOUS
<1> DEFINE f == Boards(b, entries)
<1>8. f[0] = b /\ \A i \in 1..n : f[i] = Received(f[i-1], entries[i])
  BY <1>6, <1>7
<1> HIDE DEF f
<1> DEFINE T == {i \in 0..n : f[i] \in V}
<1>9. 0..n \subseteq T
  <2>1. 0 \in T
    BY <1>3, <1>7, <1>8
  <2>2. \A i \in 1..n : i - 1 \in T => i \in T
    BY <1>1, <1>7, <1>8
  <2> HIDE DEF T
  <2> QED
    BY <2>1, <2>2, Upward
<1> QED
  BY <1>8, <1>9 DEF V, f

LEMMA ReceivedAllSound ==
  ASSUME NEW b \in SoundBoard, NEW entries, Len(entries) \in Nat,
         \A i \in 1..Len(entries) : entries[i].op \in SoundServerOp
  PROVE  ReceivedAll(b, entries) \in SoundBoard
BY BoardsAre DEF ReceivedAll

\* What an operation of the ledger may do to the board of a page that draws it,
\* makes it or is told of it.
Follows(b, op, next) ==
  /\ next \in SoundBoard
  /\ New(b.strokes, op) => next.strokes = After(b.strokes, op)
  /\ \/ next = b
     \/ \E o \in SoundOp :
          /\ next = Commit(b, o)
          /\ New(b.strokes, op) => Fits(Elements(b.strokes), o)
          /\ Brings(o) \subseteq NamesIn(op)

LEMMA ReceivedFollows ==
  ASSUME NEW b \in SoundBoard, NEW entry, entry.op \in SoundServerOp,
         entry.op.type # "restore_version"
  PROVE  Follows(b, entry.op, Received(b, entry))
BY ReceivedFacts, ReceivedSound DEF Follows

-----------------------------------------------------------------------------
(* The undo stack.  The operations committed and those undone are one list,  *)
(* and each of them fits the set of strokes that those before it explain.    *)

\* Sets of strokes in which an id stands for one stroke.
Whole == {S \in SUBSET Stroke : \A s, t \in S : s.id = t.id => s = t}

\* Operation k of the stack, the undone ones behind those committed.
Stacked(b, k) ==
  IF k <= Len(b.past) THEN b.past[k] ELSE b.future[Len(b.past) + Len(b.future) + 1 - k]

Depth(b) == Len(b.past) + Len(b.future)

\* The sets a board goes through, and the ids in them.
Chain(b, sets, known) ==
  /\ sets \in [0..Depth(b) -> Whole]
  /\ sets[0] = {}
  /\ \A k \in 1..Depth(b) : /\ Fits(sets[k-1], Stacked(b, k))
                           /\ sets[k] = NextSet(sets[k-1], Stacked(b, k))
  /\ Elements(b.strokes) = sets[Len(b.past)]
  /\ \A k \in 0..Depth(b) : IdsOf(sets[k]) \subseteq known

Explained(b, known) == \E sets : Chain(b, sets, known)

LEMMA PlainWhole ==
  ASSUME NEW strokes \in Plain
  PROVE  Elements(strokes) \in Whole
BY PlainElements DEF Whole

\* What an operation makes of a set.
LEMMA NextWhole ==
  ASSUME NEW S \in Whole, NEW op \in SoundOp
  PROVE  /\ NextSet(S, op) \in Whole
         /\ IdsOf(NextSet(S, op)) \subseteq IdsOf(S) \cup Brings(op)
<1>1. CASE op.type = "add" /\ op.strokes \in Plain
  <2>1. NextSet(S, op) = S \cup {s \in Elements(op.strokes) : s.id \notin IdsOf(S)}
    BY <1>1 DEF NextSet
  <2>2. Elements(op.strokes) \in Whole
    BY <1>1, PlainWhole
  <2>3. Brings(op) = IdsOf(Elements(op.strokes))
    BY <1>1 DEF Brings
  <2> QED
    BY <2>1, <2>2, <2>3 DEF Whole, IdsOf
<1>2. CASE op.type = "remove"
  <2>1. NextSet(S, op) \subseteq S
    BY <1>2 DEF NextSet
  <2> QED
    BY <2>1 DEF Whole, IdsOf
<1>3. CASE op.type = "clear"
  <2>1. NextSet(S, op) = {}
    BY <1>3 DEF NextSet
  <2> QED
    BY <2>1 DEF Whole, IdsOf
<1>4. CASE op.type = "change" /\ op.to \in Stroke
  <2>1. NextSet(S, op) = {IF s.id = op.to.id THEN op.to ELSE s : s \in S}
    BY <1>4 DEF NextSet
  <2>2. \A t \in NextSet(S, op) :
          \E s \in S : t.id = s.id /\ (t = IF s.id = op.to.id THEN op.to ELSE s) /\ t \in Stroke
    BY <1>4, <2>1 DEF Whole
  <2> QED
    BY <2>2 DEF Whole, IdsOf
<1> QED
  BY <1>1, <1>2, <1>3, <1>4, SoundOpCases

\* Its inverse takes the set back to what it was.
LEMMA InverseFits ==
  ASSUME NEW S \in Whole, NEW op \in SoundOp, Fits(S, op)
  PROVE  NextSet(NextSet(S, op), InvertOp(op)) = S
<1> DEFINE T == NextSet(S, op)
           U == NextSet(T, InvertOp(op))
<1>1. CASE op.type = "add" /\ op.strokes \in Plain
  <2>1. T = S \cup {s \in Elements(op.strokes) : s.id \notin IdsOf(S)}
    BY <1>1 DEF NextSet
  <2>2. InvertOp(op).type = "remove" /\ InvertOp(op).strokes = op.strokes
    BY <1>1 DEF InvertOp, Removing
  <2>3. U = {s \in T : s.id \notin IdsOf(Elements(op.strokes))}
    BY <2>2 DEF NextSet
  <2>4. IdsOf(Elements(op.strokes)) \cap IdsOf(S) = {}
    BY <1>1 DEF Fits
  <2> QED
    BY <2>1, <2>3, <2>4 DEF IdsOf
<1>2. CASE op.type = "remove" /\ op.strokes \in Plain
  <2>1. T = {s \in S : s.id \notin IdsOf(Elements(op.strokes))}
    BY <1>2 DEF NextSet
  <2>2. InvertOp(op).type = "add" /\ InvertOp(op).strokes = op.strokes
    BY <1>2 DEF InvertOp, Adding
  <2>3. U = T \cup {s \in Elements(op.strokes) : s.id \notin IdsOf(T)}
    BY <2>2 DEF NextSet
  <2>4. Elements(op.strokes) \subseteq S
    BY <1>2 DEF Fits
  <2>5. \A s \in S : s.id \in IdsOf(Elements(op.strokes)) => s \in Elements(op.strokes)
    BY <2>4 DEF IdsOf, Whole
  <2>6. \A s \in Elements(op.strokes) : s.id \in IdsOf(Elements(op.strokes)) /\ s.id \notin IdsOf(T)
    BY <2>1 DEF IdsOf
  <2> HIDE DEF T, U
  <2>7. U = S
    BY <2>1, <2>3, <2>4, <2>5, <2>6
  <2> QED
    BY <2>7 DEF U, T
<1>3. CASE op.type = "clear" /\ op.strokes \in Plain
  <2>1. T = {}
    BY <1>3 DEF NextSet
  <2>2. InvertOp(op).type = "add" /\ InvertOp(op).strokes = op.strokes
    BY <1>3 DEF InvertOp, Adding
  <2>3. U = T \cup {s \in Elements(op.strokes) : s.id \notin IdsOf(T)}
    BY <2>2 DEF NextSet
  <2>4. Elements(op.strokes) = S
    BY <1>3 DEF Fits
  <2> QED
    BY <2>1, <2>3, <2>4 DEF IdsOf
<1>4. CASE op.type = "change" /\ op.from \in Stroke /\ op.to \in Stroke /\ op.from.id = op.to.id
  <2>1. T = {IF s.id = op.to.id THEN op.to ELSE s : s \in S}
    BY <1>4 DEF NextSet
  <2>2. InvertOp(op).type = "change" /\ InvertOp(op).to = op.from
    BY <1>4 DEF InvertOp, Changing
  <2>3. U = {IF t.id = op.from.id THEN op.from ELSE t : t \in T}
    BY <2>2 DEF NextSet
  <2>4. \A s \in S : s.id = op.from.id => s = op.from
    BY <1>4 DEF Fits, Whole, IdsOf
  <2>5. \A s \in S : (LET t == IF s.id = op.to.id THEN op.to ELSE s
                    IN  IF t.id = op.from.id THEN op.from ELSE t) = s
    BY <1>4, <2>4
  <2> HIDE DEF T, U
  <2>6. U \subseteq S
    BY <2>1, <2>3, <2>5
  <2>7. S \subseteq U
    BY <2>1, <2>3, <2>5
  <2> QED
    BY <2>6, <2>7 DEF U, T
<1> QED
  BY <1>1, <1>2, <1>3, <1>4, SoundOpCases

LEMMA BoardFacts ==
  ASSUME NEW b \in SoundBoard
  PROVE  /\ b.strokes \in Plain /\ b.past \in Seq(SoundOp) /\ b.future \in Seq(SoundOp)
         /\ Len(b.past) \in Nat /\ Len(b.future) \in Nat
         /\ Depth(b) \in Nat /\ Len(b.past) <= Depth(b)
         /\ Depth(b) = Len(b.past) + Len(b.future)
         /\ \A k \in 1..Depth(b) : Stacked(b, k) \in SoundOp
<1>1. b.strokes \in Plain /\ b.past \in Seq(SoundOp) /\ b.future \in Seq(SoundOp)
  BY DEF SoundBoard
<1>2. Len(b.past) \in Nat /\ Len(b.future) \in Nat
  BY <1>1, LenProperties
<1> DEFINE n == Len(b.past)
           m == Len(b.future)
<1>3. /\ \A k \in 1..n : b.past[k] \in SoundOp
      /\ \A k \in 1..m : b.future[k] \in SoundOp
  BY <1>1, ElementOfSeq
<1>4. /\ n \in Nat /\ m \in Nat /\ Depth(b) = n + m
      /\ \A k : Stacked(b, k) = IF k <= n THEN b.past[k] ELSE b.future[n + m + 1 - k]
  BY <1>2 DEF Depth, Stacked
<1> HIDE DEF n, m
<1>5. Depth(b) \in Nat /\ n <= Depth(b)
  BY <1>4
<1>6. ASSUME NEW k \in 1..Depth(b) PROVE Stacked(b, k) \in SoundOp
  <2>1. CASE k <= n
    BY <1>3, <1>4, <2>1
  <2>2. CASE ~ (k <= n)
    <3>1. n + m + 1 - k \in 1..m
      BY <1>4, <2>2
    <3> QED
      BY <1>3, <1>4, <2>2, <3>1
  <2> QED
    BY <2>1, <2>2
<1> QED
  BY <1>1, <1>4, <1>5, <1>6 DEF n, m

\* How the stack of a board is read that has committed n operations and undone m.
ReadAs(b, n, m) ==
  /\ Depth(b) = n + m
  /\ \A k : Stacked(b, k) = IF k <= n THEN b.past[k] ELSE b.future[n + m + 1 - k]

LEMMA StackedIs ==
  ASSUME NEW b, NEW n, NEW m, n = Len(b.past), m = Len(b.future)
  PROVE  ReadAs(b, n, m)
BY DEF ReadAs, Depth, Stacked

LEMMA ExplainedShown ==
  ASSUME NEW b \in SoundBoard, NEW known, Explained(b, known)
  PROVE  IdsOf(Elements(b.strokes)) \subseteq known
<1>1. Len(b.past) \in 0..Depth(b)
  <2>1. Len(b.past) \in Nat /\ Depth(b) \in Nat /\ Len(b.past) <= Depth(b)
    BY BoardFacts
  <2>2. \A n, d \in Nat : n <= d => n \in 0..d
    OBVIOUS
  <2> QED
    BY <2>1, <2>2
<1> QED
  BY <1>1 DEF Explained, Chain

LEMMA ExplainedGrows ==
  ASSUME NEW b, NEW known, NEW more, Explained(b, known), known \subseteq more
  PROVE  Explained(b, more)
<1>1. PICK sets : Chain(b, sets, known)
  BY DEF Explained
<1>2. Chain(b, sets, more)
  BY <1>1 DEF Chain
<1> QED
  BY <1>2 DEF Explained

\* A new operation that fits what is shown.
LEMMA ExplainedCommit ==
  ASSUME NEW b \in SoundBoard, NEW op \in SoundOp, NEW known, NEW more,
         Explained(b, known), known \subseteq more,
         Fits(Elements(b.strokes), op), Brings(op) \subseteq more
  PROVE  Explained(Commit(b, op), more)
<1> DEFINE c == Commit(b, op)
           n == Len(b.past)
<1>1. PICK sets : Chain(b, sets, known)
  BY DEF Explained
<1> DEFINE T == [k \in 0..n+1 |-> IF k <= n THEN sets[k] ELSE NextSet(sets[n], op)]
<1>2. /\ b.strokes \in Plain /\ b.past \in Seq(SoundOp)
      /\ n \in Nat /\ Depth(b) \in Nat /\ n <= Depth(b)
  BY BoardFacts
<1>3. /\ c \in SoundBoard /\ c.strokes = NextStrokes(b.strokes, op)
      /\ c.past = Append(b.past, op) /\ c.future = <<>>
  BY CommitSound
<1>4. /\ Len(c.past) = n + 1 /\ Depth(c) = n + 1
      /\ \A k \in 1..n : Stacked(c, k) = Stacked(b, k)
      /\ Stacked(c, n + 1) = op
  <2>1. Len(c.past) = n + 1 /\ c.past[n+1] = op /\ \A k \in 1..n : c.past[k] = b.past[k]
    BY <1>2, <1>3, AppendProperties
  <2>2. Len(c.future) = 0
    BY <1>3
  <2> HIDE DEF c
  <2> QED
    BY <1>2, <2>1, <2>2 DEF Depth, Stacked
<1>5. sets \in [0..Depth(b) -> Whole] /\ sets[n] \in Whole /\ sets[n] = Elements(b.strokes)
  BY <1>1, <1>2 DEF Chain
<1>6. /\ NextSet(sets[n], op) \in Whole
      /\ IdsOf(NextSet(sets[n], op)) \subseteq more
  <2>1. IdsOf(sets[n]) \subseteq known
    BY <1>1, <1>2 DEF Chain
  <2> QED
    BY <1>5, <2>1, NextWhole
<1>7. /\ T \in [0..n+1 -> Whole] /\ T[n+1] = NextSet(sets[n], op)
      /\ \A k \in 0..n : T[k] = sets[k]
  BY <1>2, <1>5, <1>6
<1> HIDE DEF T, c
<1>8. Chain(c, T, more)
  <2>1. T \in [0..Depth(c) -> Whole] /\ T[0] = {}
    BY <1>1, <1>2, <1>4, <1>7 DEF Chain
  <2>2. ASSUME NEW k \in 1..Depth(c)
        PROVE  Fits(T[k-1], Stacked(c, k)) /\ T[k] = NextSet(T[k-1], Stacked(c, k))
    <3>1. CASE k <= n
      <4>1. k \in 1..Depth(b) /\ k \in 1..n /\ k \in 0..n /\ k - 1 \in 0..n
        BY <1>2, <1>4, <3>1
      <4>2. Fits(sets[k-1], Stacked(b, k)) /\ sets[k] = NextSet(sets[k-1], Stacked(b, k))
        BY <1>1, <4>1 DEF Chain
      <4> QED
        BY <1>4, <1>7, <4>1, <4>2
    <3>2. CASE k = n + 1
      <4>1. k - 1 = n /\ n \in 0..n
        BY <1>2, <3>2
      <4> QED
        BY <1>4, <1>5, <1>7, <3>2, <4>1
    <3> QED
      BY <1>2, <1>4, <3>1, <3>2
  <2>3. Elements(c.strokes) = T[Len(c.past)]
    BY <1>2, <1>3, <1>4, <1>5, <1>7, NextFacts
  <2>4. ASSUME NEW k \in 0..Depth(c) PROVE IdsOf(T[k]) \subseteq more
    <3>1. CASE k <= n
      <4>1. k \in 0..Depth(b) /\ k \in 0..n
        BY <1>2, <3>1
      <4> QED
        BY <1>1, <1>7, <4>1 DEF Chain
    <3>2. CASE k = n + 1
      BY <1>6, <1>7, <3>2
    <3> QED
      BY <1>2, <1>4, <3>1, <3>2
  <2> QED
    BY <2>1, <2>2, <2>3, <2>4 DEF Chain
<1> QED
  BY <1>8 DEF Explained, c

\* Undo and redo go down and up the list.
LEMMA ExplainedUndo ==
  ASSUME NEW b \in SoundBoard, b.past # <<>>, NEW known, Explained(b, known)
  PROVE  Explained(Undo(b), known)
<1> DEFINE c == Undo(b)
           n == Len(b.past)
           m == Len(b.future)
           op == Newest(b.past)
<1>1. PICK sets : Chain(b, sets, known)
  BY DEF Explained
<1>2. /\ b.strokes \in Plain /\ b.past \in Seq(SoundOp) /\ b.future \in Seq(SoundOp)
      /\ n \in Nat /\ m \in Nat /\ Depth(b) = n + m
      /\ Elements(b.strokes) = sets[n]
  BY <1>1, BoardFacts DEF Chain
<1>2a. ReadAs(b, n, m)
  BY StackedIs
<1>3. /\ Shorter(b.past) \in Seq(SoundOp) /\ op \in SoundOp /\ n > 0 /\ op = b.past[n]
      /\ Len(Shorter(b.past)) = n - 1
      /\ \A k \in 1..n - 1 : Shorter(b.past)[k] = b.past[k]
  BY <1>2, <1>2a, ShorterFacts DEF Newest
<1>4. /\ c.strokes = NextStrokes(b.strokes, InvertOp(op))
      /\ c.past = Shorter(b.past) /\ c.future = Append(b.future, op)
  BY DEF Undo
<1> HIDE DEF c, op
<1>4a. /\ Len(c.future) = m + 1
       /\ c.future[m + 1] = op
       /\ \A k \in 1..m : c.future[k] = b.future[k]
  BY <1>2, <1>2a, <1>3, <1>4, AppendProperties
<1>4b. Len(c.past) = n - 1 /\ ReadAs(c, n - 1, m + 1)
  BY <1>3, <1>4, <1>4a, StackedIs
<1> USE DEF ReadAs
<1> HIDE DEF n, m
<1>5. /\ Len(c.past) = n - 1 /\ Depth(c) = Depth(b)
      /\ \A k \in 1..Depth(b) : Stacked(c, k) = Stacked(b, k)
  <2>1. ASSUME NEW k \in 1..Depth(b) PROVE Stacked(c, k) = Stacked(b, k)
    <3>1. CASE k <= n - 1
      <4>1. k \in 1..n-1 /\ k <= n
        BY <1>2, <1>2a, <3>1
      <4> QED
        BY <1>2, <1>2a, <1>3, <1>4, <1>4b, <3>1, <4>1
    <3>2. CASE k = n
      <4>1. ~ (n <= n - 1) /\ (n - 1) + (m + 1) + 1 - n = m + 1
        BY <1>2
      <4>2. Stacked(b, n) = b.past[n]
        BY <1>2, <1>2a
      <4>3. Stacked(c, n) = c.future[m + 1]
        BY <1>4b, <4>1
      <4> QED
        BY <1>3, <1>4a, <3>2, <4>2, <4>3
    <3>3. CASE k > n
      <4>1. /\ ~ (k <= n - 1) /\ ~ (k <= n)
            /\ (n - 1) + (m + 1) + 1 - k = n + m + 1 - k
            /\ n + m + 1 - k \in 1..m
        BY <1>2, <1>2a, <3>3
      <4> QED
        BY <1>2, <1>2a, <1>4a, <1>4b, <4>1
    <3>4. k \in Nat
      BY <1>2
    <3> QED
      BY <1>2, <3>1, <3>2, <3>3, <3>4
  <2>2. Depth(c) = (n - 1) + (m + 1)
    BY <1>4b
  <2>3. Depth(c) = Depth(b)
    BY <1>2, <2>2
  <2> QED
    BY <1>4b, <2>1, <2>3
<1>6. n \in 1..Depth(b) /\ n \in 0..Depth(b) /\ n - 1 \in 0..Depth(b)
  BY <1>2, <1>2a, <1>3
<1>7. sets[n] = NextSet(sets[n-1], op) /\ Fits(sets[n-1], op) /\ sets[n-1] \in Whole
  <2>1. Stacked(b, n) = op
    BY <1>2, <1>2a, <1>3
  <2> QED
    BY <1>1, <1>6, <2>1 DEF Chain
<1>8. Elements(c.strokes) = sets[n-1]
  BY <1>2, <1>2a, <1>3, <1>4, <1>7, InvertSound, NextFacts, InverseFits
<1>9. Chain(c, sets, known)
  BY <1>1, <1>5, <1>8 DEF Chain
<1> QED
  BY <1>9 DEF Explained, c

LEMMA ExplainedRedo ==
  ASSUME NEW b \in SoundBoard, b.future # <<>>, NEW known, Explained(b, known)
  PROVE  Explained(Redo(b), known)
<1> DEFINE c == Redo(b)
           n == Len(b.past)
           m == Len(b.future)
           op == Newest(b.future)
<1>1. PICK sets : Chain(b, sets, known)
  BY DEF Explained
<1>2. /\ b.strokes \in Plain /\ b.past \in Seq(SoundOp) /\ b.future \in Seq(SoundOp)
      /\ n \in Nat /\ m \in Nat /\ Depth(b) = n + m
      /\ Elements(b.strokes) = sets[n]
  BY <1>1, BoardFacts DEF Chain
<1>2a. ReadAs(b, n, m)
  BY StackedIs
<1>3. /\ Shorter(b.future) \in Seq(SoundOp) /\ op \in SoundOp /\ m > 0 /\ op = b.future[m]
      /\ Len(Shorter(b.future)) = m - 1
      /\ \A k \in 1..m - 1 : Shorter(b.future)[k] = b.future[k]
  BY <1>2, <1>2a, ShorterFacts DEF Newest
<1>4. /\ c.strokes = NextStrokes(b.strokes, op)
      /\ c.past = Append(b.past, op) /\ c.future = Shorter(b.future)
  BY DEF Redo
<1> HIDE DEF c, op
<1>4a. /\ Len(c.past) = n + 1
       /\ c.past[n + 1] = op
       /\ \A k \in 1..n : c.past[k] = b.past[k]
  BY <1>2, <1>2a, <1>3, <1>4, AppendProperties
<1>4b. ReadAs(c, n + 1, m - 1)
  BY <1>3, <1>4, <1>4a, StackedIs
<1> USE DEF ReadAs
<1> HIDE DEF n, m
<1>5. /\ Len(c.past) = n + 1 /\ Depth(c) = Depth(b)
      /\ \A k \in 1..Depth(b) : Stacked(c, k) = Stacked(b, k)
  <2>1. ASSUME NEW k \in 1..Depth(b) PROVE Stacked(c, k) = Stacked(b, k)
    <3>1. CASE k <= n
      <4>1. k \in 1..n /\ k <= n + 1
        BY <1>2, <1>2a, <3>1
      <4> QED
        BY <1>2, <1>2a, <1>4a, <1>4b, <3>1, <4>1
    <3>2. CASE k = n + 1
      <4>1. n + 1 <= n + 1 /\ ~ (n + 1 <= n) /\ n + m + 1 - (n + 1) = m
        BY <1>2
      <4>2. Stacked(b, n + 1) = b.future[m]
        BY <1>2, <1>2a, <4>1
      <4>3. Stacked(c, n + 1) = c.past[n + 1]
        BY <1>4b, <4>1
      <4> QED
        BY <1>3, <1>4a, <3>2, <4>2, <4>3
    <3>3. CASE k > n + 1
      <4>1. /\ ~ (k <= n + 1) /\ ~ (k <= n)
            /\ (n + 1) + (m - 1) + 1 - k = n + m + 1 - k
            /\ n + m + 1 - k \in 1..m-1
        BY <1>2, <1>2a, <1>3, <3>3
      <4> QED
        BY <1>2, <1>2a, <1>3, <1>4, <1>4b, <4>1
    <3>4. k \in Nat
      BY <1>2
    <3> QED
      BY <1>2, <3>1, <3>2, <3>3, <3>4
  <2>2. Depth(c) = (n + 1) + (m - 1)
    BY <1>4b
  <2>3. Depth(c) = Depth(b)
    BY <1>2, <2>2
  <2> QED
    BY <1>4a, <2>1, <2>3
<1>6. n + 1 \in 1..Depth(b) /\ n \in 0..Depth(b) /\ (n + 1) - 1 = n
  BY <1>2, <1>2a, <1>3
<1>7. sets[n+1] = NextSet(sets[n], op) /\ Elements(b.strokes) = sets[n]
  <2>1. ~ (n + 1 <= n) /\ n + m + 1 - (n + 1) = m
    BY <1>2
  <2>2. Stacked(b, n + 1) = op
    BY <1>2, <1>2a, <1>3, <2>1
  <2> QED
    BY <1>1, <1>2, <1>6, <2>2 DEF Chain
<1>8. Elements(c.strokes) = sets[n+1]
  BY <1>2, <1>2a, <1>3, <1>4, <1>7, NextFacts
<1>9. Chain(c, sets, known)
  BY <1>1, <1>5, <1>8 DEF Chain
<1> QED
  BY <1>9 DEF Explained, c


\* A board that was loaded, with what was loaded as its first operation.
LEMMA ExplainedLoaded ==
  ASSUME NEW strokes \in Plain
  PROVE  Explained(LoadedBoard(strokes), IdsOf(Elements(strokes)))
<1> DEFINE c == LoadedBoard(strokes)
           S == Elements(strokes)
<1>1. S \in Whole /\ {} \in Whole
  BY PlainWhole DEF Whole
<1>2. c.strokes = strokes /\ c.future = <<>> /\ Len(c.future) = 0
  BY DEF LoadedBoard
<1>3. CASE strokes = <<>>
  <2>1. c.past = <<>> /\ Len(c.past) = 0
    BY <1>3 DEF LoadedBoard
  <2> DEFINE sets == [k \in 0..0 |-> {}]
  <2>2. ReadAs(c, 0, 0)
    BY <1>2, <2>1, StackedIs
  <2>3. Depth(c) = 0
    BY <2>2 DEF ReadAs
  <2>4. S = {}
    BY <1>3, ElementsEmpty
  <2>5. sets \in [0..0 -> Whole] /\ sets[0] = {}
    BY <1>1
  <2> HIDE DEF sets, c, S
  <2>6. Chain(c, sets, IdsOf(S))
    BY <1>2, <2>1, <2>3, <2>4, <2>5 DEF Chain, S, IdsOf
  <2> QED
    BY <2>6 DEF Explained, c, S
<1>4. CASE strokes # <<>>
  <2> DEFINE op == Adding(strokes)
             sets == [k \in 0..1 |-> IF k = 0 THEN {} ELSE S]
  <2>1. c.past = <<op>> /\ Len(c.past) = 1 /\ c.past[1] = op
    BY <1>4 DEF LoadedBoard
  <2>2. ReadAs(c, 1, 0)
    BY <1>2, <2>1, StackedIs
  <2>3. Depth(c) = 1 /\ Stacked(c, 1) = op
    BY <2>1, <2>2 DEF ReadAs
  <2>4. op.type = "add" /\ op.strokes = strokes
    BY DEF Adding
  <2>5. NextSet({}, op) = S /\ Fits({}, op)
    BY <2>4 DEF NextSet, Fits, IdsOf
  <2>6. sets \in [0..1 -> Whole] /\ sets[0] = {} /\ sets[1] = S
    BY <1>1
  <2> HIDE DEF sets, c, S, op
  <2>7. \A k \in 1..1 : k = 1 /\ k - 1 = 0
    OBVIOUS
  <2>8. \A k \in 0..1 : IdsOf(sets[k]) \subseteq IdsOf(S)
    BY <2>6 DEF IdsOf
  <2>9. Chain(c, sets, IdsOf(S))
    BY <1>2, <2>1, <2>3, <2>5, <2>6, <2>7, <2>8 DEF Chain, S
  <2> QED
    BY <2>9 DEF Explained, c, S
<1> QED
  BY <1>3, <1>4

LEMMA EmptyLoaded == EmptyBoard = LoadedBoard(<<>>)
BY DEF EmptyBoard, LoadedBoard

\* What the operations committed make of an empty board, one after the other.
LEMMA StagesAre ==
  ASSUME NEW ops \in Seq(SoundOp)
  PROVE  /\ Stages(ops)[0] = <<>>
         /\ \A i \in 1..Len(ops) : Stages(ops)[i] = NextStrokes(Stages(ops)[i-1], ops[i])
         /\ \A i \in 0..Len(ops) : Stages(ops)[i] \in Plain
<1> DEFINE n == Len(ops)
           V == Plain
           next == [i \in 1..n |-> [v \in V |-> NextStrokes(v, ops[i])]]
           Eq(f) == f = [i \in 0..n |-> IF i = 0 THEN <<>> ELSE NextStrokes(f[i-1], ops[i])]
<1>0. n \in Nat /\ \A i \in 1..n : ops[i] \in SoundOp
  BY LenProperties, ElementOfSeq
<1>1. \A i \in 1..n : \A v \in V : NextStrokes(v, ops[i]) \in V
  BY <1>0, NextFacts
<1> HIDE DEF V
<1>2. next \in [1..n -> [V -> V]]
  BY <1>1
<1>3. <<>> \in V
  BY PlainEmpty DEF V
<1>4. \E f : Eq(f)
  <2>1. PICK f : Recurs(n, V, <<>>, next, f)
    <3> HIDE DEF next, n
    <3> QED
      BY <1>0, <1>2, <1>3, Recursion
  <2>2. f \in [0..n -> V] /\ f[0] = <<>> /\ \A i \in 1..n : f[i] = next[i][f[i-1]]
    BY <2>1 DEF Recurs
  <2>3. ASSUME NEW i \in 1..n PROVE f[i] = NextStrokes(f[i-1], ops[i])
    <3>1. i - 1 \in 0..n /\ f[i-1] \in V
      BY <1>0, <2>2
    <3> QED
      BY <2>2, <3>1
  <2>4. \A i \in 0..n : i = 0 \/ i \in 1..n
    BY <1>0
  <2>5. Eq(f)
    BY <2>2, <2>3, <2>4
  <2> QED
    BY <2>5
<1>5. Stages(ops) = CHOOSE f : Eq(f)
  BY DEF Stages
<1>6. Eq(Stages(ops))
  <2> HIDE DEF Eq
  <2> QED
    BY <1>4, <1>5
<1>7. 0 \in 0..n /\ \A i \in 1..n : i \in 0..n /\ i # 0
  BY <1>0
<1>8. Stages(ops)[0] = <<>> /\ \A i \in 1..n : Stages(ops)[i] = NextStrokes(Stages(ops)[i-1], ops[i])
  BY <1>6, <1>7
<1> DEFINE T == {i \in 0..n : Stages(ops)[i] \in V}
<1>9. 0..n \subseteq T
  <2>1. 0 \in T
    BY <1>3, <1>7, <1>8
  <2>2. \A i \in 1..n : i - 1 \in T => i \in T
    BY <1>1, <1>7, <1>8
  <2> HIDE DEF T, n
  <2> QED
    BY <1>0, <2>1, <2>2, Upward
<1> QED
  BY <1>8, <1>9 DEF V

\* The sets of an explained board are what its stages show.
LEMMA ExplainedStages ==
  ASSUME NEW b \in SoundBoard, NEW known, Explained(b, known)
  PROVE  Elements(Stages(b.past)[Len(b.past)]) = Elements(b.strokes)
<1> DEFINE n == Len(b.past)
           m == Len(b.future)
<1>1. PICK sets : Chain(b, sets, known)
  BY DEF Explained
<1>2. /\ b.past \in Seq(SoundOp) /\ n \in Nat /\ m \in Nat /\ Depth(b) = n + m
      /\ Elements(b.strokes) = sets[n]
      /\ \A k \in 1..n : b.past[k] \in SoundOp
  BY <1>1, BoardFacts, ElementOfSeq DEF Chain
<1>3. ReadAs(b, n, m)
  BY StackedIs
<1>4. /\ Stages(b.past)[0] = <<>>
      /\ \A i \in 1..n : Stages(b.past)[i] = NextStrokes(Stages(b.past)[i-1], b.past[i])
      /\ \A i \in 0..n : Stages(b.past)[i] \in Plain
  BY <1>2, StagesAre
<1> HIDE DEF n, m
<1> DEFINE T == {i \in 0..n : Elements(Stages(b.past)[i]) = sets[i]}
<1>5. 0 \in T
  <2>1. sets[0] = {}
    BY <1>1 DEF Chain
  <2>2. Elements(Stages(b.past)[0]) = sets[0]
    BY <1>4, <2>1, ElementsEmpty
  <2> QED
    BY <1>2, <2>2
<1>6. ASSUME NEW i \in 1..n, i - 1 \in T PROVE i \in T
  <2>1. i \in 0..n /\ i - 1 \in 0..n /\ i \in 1..Depth(b) /\ i <= n
    BY <1>2
  <2>2. Stacked(b, i) = b.past[i]
    BY <1>3, <2>1 DEF ReadAs
  <2>3. sets[i] = NextSet(sets[i-1], b.past[i])
    BY <1>1, <2>1, <2>2 DEF Chain
  <2>4. Elements(Stages(b.past)[i]) = NextSet(Elements(Stages(b.past)[i-1]), b.past[i])
    BY <1>2, <1>4, <2>1, NextFacts
  <2> QED
    BY <1>6, <2>1, <2>3, <2>4
<1>7. 0..n \subseteq T
  <2> HIDE DEF T
  <2> QED
    BY <1>2, <1>5, <1>6, Upward
<1>8. n \in T
  BY <1>2, <1>7
<1> QED
  BY <1>2, <1>8 DEF n

-----------------------------------------------------------------------------
(* The log of a page is the ledger and what the page has yet to commit.  What *)
(* its board and its steps have to do with the log.                         *)

Page == Pages \cup {Nobody}

Step == {<<q, n>> : q \in Page, n \in Int}

SoundEntry == [page : Page, token : Step, op : SoundServerOp]

LEMMA EntryFacts ==
  ASSUME NEW L \in Seq(SoundEntry)
  PROVE  /\ Len(L) \in Nat /\ DOMAIN L = 1..Len(L)
         /\ \A i \in 1..Len(L) : L[i] \in SoundEntry /\ L[i].op \in SoundServerOp
                                 /\ L[i].token \in Step /\ L[i].page \in Page
         /\ Ops(L) \in Seq(SoundServerOp) /\ Len(Ops(L)) = Len(L)
         /\ \A i \in 1..Len(L) : Ops(L)[i] = L[i].op
         /\ Tokens(L) \in Seq(Step) /\ Len(Tokens(L)) = Len(L)
         /\ \A i \in 1..Len(L) : Tokens(L)[i] = L[i].token
<1>1. Len(L) \in Nat /\ DOMAIN L = 1..Len(L) /\ \A i \in 1..Len(L) : L[i] \in SoundEntry
  BY LenProperties, ElementOfSeq
<1>2. \A i \in 1..Len(L) : L[i].op \in SoundServerOp /\ L[i].token \in Step /\ L[i].page \in Page
  BY <1>1 DEF SoundEntry
<1>3. Ops(L) = [i \in 1..Len(L) |-> L[i].op] /\ Tokens(L) = [i \in 1..Len(L) |-> L[i].token]
  BY <1>1 DEF Ops, Tokens
<1> HIDE DEF SoundEntry
<1>4. Ops(L) \in Seq(SoundServerOp) /\ Len(Ops(L)) = Len(L)
  BY <1>1, <1>2, <1>3
<1>5. Tokens(L) \in Seq(Step) /\ Len(Tokens(L)) = Len(L)
  BY <1>1, <1>2, <1>3
<1> QED
  BY <1>1, <1>2, <1>3, <1>4, <1>5

\* What the server replays from the first entries.
Replayed(L, n) == InOrder(States(Ops(L))[n])

LEMMA ReplayedFacts ==
  ASSUME NEW L \in Seq(SoundEntry)
  PROVE  /\ \A n \in 0..Len(L) : Replayed(L, n) \in Plain
         /\ Replayed(L, 0) = <<>>
         /\ \A n \in 1..Len(L) : New(Replayed(L, n-1), L[n].op) =>
              Replayed(L, n) = After(Replayed(L, n-1), L[n].op)
<1>1. /\ Ops(L) \in Seq(SoundServerOp) /\ Len(Ops(L)) = Len(L) /\ Len(L) \in Nat
      /\ \A i \in 1..Len(L) : Ops(L)[i] = L[i].op /\ L[i].op \in SoundServerOp
  BY EntryFacts
<1>2. /\ States(Ops(L))[0] = NoObjects
      /\ \A i \in 1..Len(L) : States(Ops(L))[i] = ApplyOp(States(Ops(L))[i-1], Ops(L)[i])
      /\ \A i \in 0..Len(L) : States(Ops(L))[i] \in SoundStates
  BY <1>1, StatesAre
<1>3. ASSUME NEW n \in 1..Len(L), New(Replayed(L, n-1), L[n].op)
      PROVE  Replayed(L, n) = After(Replayed(L, n-1), L[n].op)
  <2> DEFINE state == States(Ops(L))[n-1]
  <2>1. n - 1 \in 0..Len(L)
    BY <1>1
  <2>2. state \in SoundStates /\ States(Ops(L))[n] = ApplyOp(state, L[n].op)
    BY <1>1, <1>2, <2>1
  <2>3. IdsOf(Elements(InOrder(state))) = ObjectIds(state)
    BY <2>2, InOrderFacts
  <2>4. L[n].op.type = "create_stroke" => L[n].op.id \notin ObjectIds(state)
    BY <1>3, <2>3 DEF New, Replayed, HasStroke, IdsOf
  <2>5. InOrder(ApplyOp(state, L[n].op)) = After(InOrder(state), L[n].op)
    BY <1>1, <2>2, <2>4, ApplyFacts
  <2> QED
    BY <2>2, <2>5 DEF Replayed
<1>4. Replayed(L, 0) = <<>>
  BY <1>2, NoObjectsSound DEF Replayed
<1>5. \A n \in 0..Len(L) : Replayed(L, n) \in Plain
  BY <1>2, InOrderFacts DEF Replayed
<1> QED
  BY <1>3, <1>4, <1>5

LEMMA ReplayedPrefix ==
  ASSUME NEW L \in Seq(SoundEntry), NEW M \in Seq(SoundEntry),
         NEW n \in Nat, n <= Len(L), n <= Len(M), \A i \in 1..n : L[i] = M[i]
  PROVE  Replayed(L, n) = Replayed(M, n)
<1>1. /\ Ops(L) \in Seq(SoundServerOp) /\ Len(Ops(L)) = Len(L) /\ Len(L) \in Nat
      /\ Ops(M) \in Seq(SoundServerOp) /\ Len(Ops(M)) = Len(M) /\ Len(M) \in Nat
      /\ \A i \in 1..Len(L) : Ops(L)[i] = L[i].op
      /\ \A i \in 1..Len(M) : Ops(M)[i] = M[i].op
  BY EntryFacts
<1>2. \A i \in 1..n : Ops(L)[i] = Ops(M)[i]
  BY <1>1
<1>3. \A i \in 0..n : States(Ops(L))[i] = States(Ops(M))[i]
  BY <1>1, <1>2, StatesPrefix
<1> QED
  BY <1>3 DEF Replayed

\* The server replays what it is asked for from the operations up to there.
LEMMA TruthIs ==
  ASSUME ledger \in Seq(SoundEntry), NEW n \in 0..Len(ledger)
  PROVE  Truth(n) = Replayed(ledger, n) /\ Truth(n) \in Plain
<1> DEFINE ops == Ops(ledger)
           some == SubSeq(ops, 1, n)
<1>1. ops \in Seq(SoundServerOp) /\ Len(ops) = Len(ledger) /\ Len(ledger) \in Nat
  BY EntryFacts
<1>2. \A i \in 1..n : i \in 1..Len(ops) /\ ops[i] \in SoundServerOp
  BY <1>1, ElementOfSeq
<1> HIDE DEF ops
<1>3. /\ some \in Seq(SoundServerOp) /\ Len(some) = n
      /\ \A i \in 1..n : some[i] = ops[i]
  <2>1. /\ some \in Seq(SoundServerOp) /\ Len(some) = IF 1 <= n THEN n - 1 + 1 ELSE 0
        /\ \A i \in 1..n - 1 + 1 : some[i] = ops[1 + i - 1]
    BY <1>2, SubSeqProperties
  <2> QED
    BY <2>1
<1>4. States(some)[n] = States(ops)[n]
  <2> HIDE DEF some
  <2>1. \A i \in 0..n : States(some)[i] = States(ops)[i]
    BY <1>1, <1>3, StatesPrefix
  <2> QED
    BY <2>1
<1>5. Truth(n) = Replayed(ledger, n)
  BY <1>3, <1>4 DEF Truth, StrokesAt, ReplayAll, Replayed, ops
<1> QED
  BY <1>5, ReplayedFacts

\* No two entries of a log are the same operation, and no two draw the same stroke.
Drawing(entry) == entry.op.type = "create_stroke"

Logged(L) ==
  /\ \A i \in 1..Len(L) : \A q \in Page, n \in Int : L[i].token = <<q, n>> => n > 0
  /\ \A i, j \in 1..Len(L) : L[i].token = L[j].token => i = j
  /\ \A i, j \in 1..Len(L) :
       Drawing(L[i]) /\ Drawing(L[j]) /\ L[i].op.id = L[j].op.id => i = j

\* A restore brings back only what was drawn before it.
Restored(L) ==
  \A i \in 1..Len(L) : L[i].op.type = "restore_version" =>
    IdsOf(Elements(L[i].op.strokes)) \subseteq {L[j].op.id : j \in {k \in 1..i-1 : Drawing(L[k])}}

\* The strokes drawn by operations among these steps.
Known(L, steps) ==
  {L[i].op.id : i \in {j \in 1..Len(L) : Drawing(L[j]) /\ L[j].token \in Elements(steps)}}

Prefix(L, steps) ==
  /\ Len(steps) <= Len(L)
  /\ \A i \in 1..Len(steps) : steps[i] = L[i].token

Regular(p, steps) == Once(steps) /\ Stale(p) \notin Elements(steps)

\* What holds of a page: see AgreesWithReplay and StackExplainsBoard.
Follower(p, L, b, steps) ==
  /\ Prefix(L, steps) => b.strokes = Replayed(L, Len(steps))
  /\ Regular(p, steps) => Explained(b, Known(L, steps))


LEMMA StepsFacts ==
  ASSUME NEW steps \in Seq(Step), NEW step \in Step
  PROVE  /\ Len(steps) \in Nat
         /\ Elements(steps) = {steps[k] : k \in 1..Len(steps)}
         /\ Append(steps, step) \in Seq(Step)
         /\ Len(Append(steps, step)) = Len(steps) + 1
         /\ Append(steps, step)[Len(steps) + 1] = step
         /\ \A i \in 1..Len(steps) : Append(steps, step)[i] = steps[i]
         /\ Elements(Append(steps, step)) = Elements(steps) \cup {step}
BY AppendProperties, ElementsAre, ElementsAppend

\* A page that has applied the first operations, each once and in order, made no
\* gesture on a stale stroke.
LEMMA PrefixRegular ==
  ASSUME NEW p \in Pages, NEW L, Logged(L), Len(L) \in Nat,
         NEW steps \in Seq(Step), Prefix(L, steps)
  PROVE  Regular(p, steps)
<1>1. /\ Len(steps) \in Nat /\ Len(steps) <= Len(L)
      /\ \A i \in 1..Len(steps) : steps[i] = L[i].token
      /\ Elements(steps) = {steps[k] : k \in 1..Len(steps)}
  BY ElementsAre DEF Prefix
<1>2. \A i \in 1..Len(steps) : i \in 1..Len(L)
  BY <1>1
<1>3. Once(steps)
  BY <1>1, <1>2 DEF Once, Logged
<1>4. \A i \in 1..Len(steps) : steps[i] # Stale(p)
  <2> SUFFICES ASSUME NEW i \in 1..Len(steps), steps[i] = Stale(p) PROVE FALSE
    OBVIOUS
  <2>1. L[i].token = <<p, -1>> /\ i \in 1..Len(L) /\ p \in Page
    BY <1>1, <1>2 DEF Stale, Page
  <2>2. -1 > 0
    BY <2>1 DEF Logged
  <2> QED
    BY <2>2
<1> QED
  BY <1>1, <1>3, <1>4 DEF Regular

\* What has not been applied is not known.
LEMMA NewToPage ==
  ASSUME NEW L \in Seq(SoundEntry), Logged(L), NEW n \in 1..Len(L), NEW steps,
         L[n].token \notin Elements(steps),
         NEW b \in SoundBoard, Explained(b, Known(L, steps))
  PROVE  New(b.strokes, L[n].op)
<1> SUFFICES ASSUME Drawing(L[n]), HasStroke(b.strokes, L[n].op.id) PROVE FALSE
  BY DEF New, Drawing
<1>1. L[n].op.id \in IdsOf(Elements(b.strokes))
  BY DEF HasStroke, IdsOf
<1>2. L[n].op.id \in Known(L, steps)
  BY <1>1, ExplainedShown
<1>3. PICK j \in 1..Len(L) : /\ Drawing(L[j]) /\ L[j].token \in Elements(steps)
                             /\ L[j].op.id = L[n].op.id
  BY <1>2 DEF Known
<1>4. j = n
  BY <1>3 DEF Logged
<1> QED
  BY <1>3, <1>4

\* The page goes on by one operation.
LEMMA FollowerAdvances ==
  ASSUME NEW p \in Pages, NEW L \in Seq(SoundEntry), Logged(L), NEW n \in 1..Len(L),
         L[n].op.type # "restore_version",
         NEW b \in SoundBoard, NEW steps \in Seq(Step), Follower(p, L, b, steps),
         NEW next, Follows(b, L[n].op, next)
  PROVE  Follower(p, L, next, Append(steps, L[n].token))
<1> DEFINE t == L[n].token
           m == Len(steps)
           more == Append(steps, t)
<1>1. /\ Len(L) \in Nat /\ L[n].op \in SoundServerOp /\ t \in Step
  BY EntryFacts
<1>2. /\ m \in Nat /\ more \in Seq(Step) /\ Len(more) = m + 1 /\ more[m+1] = t
      /\ \A i \in 1..m : more[i] = steps[i]
      /\ Elements(more) = Elements(steps) \cup {t}
      /\ Elements(steps) = {steps[k] : k \in 1..m}
  BY <1>1, StepsFacts
<1> HIDE DEF t, m, more
<1>3. ASSUME Prefix(L, more) PROVE next.strokes = Replayed(L, Len(more))
  <2>1. /\ m + 1 <= Len(L)
        /\ \A i \in 1..m+1 : more[i] = L[i].token
    BY <1>2, <1>3 DEF Prefix
  <2>2. m + 1 \in 1..Len(L) /\ (m + 1) - 1 = m /\ m + 1 \in 1..m+1
    BY <1>2, <2>1
  <2>3. n = m + 1
    BY <1>2, <2>1, <2>2 DEF Logged, t
  <2>4. Prefix(L, steps)
    <3>1. m <= Len(L) /\ \A i \in 1..m : steps[i] = L[i].token
      BY <1>1, <1>2, <2>1
    <3> QED
      BY <3>1 DEF Prefix, m
  <2>5. b.strokes = Replayed(L, m) /\ Explained(b, Known(L, steps))
    BY <1>1, <2>4, PrefixRegular DEF Follower, m
  <2>6. t \notin Elements(steps)
    <3> SUFFICES ASSUME NEW i \in 1..m, steps[i] = t PROVE FALSE
      BY <1>2
    <3>1. i \in 1..Len(L) /\ i # n /\ i \in 1..m+1
      BY <1>2, <2>1, <2>3
    <3>2. L[i].token = L[n].token
      BY <1>2, <2>1, <3>1 DEF t
    <3> QED
      BY <3>1, <3>2 DEF Logged
  <2>7. New(b.strokes, L[n].op)
    BY <2>5, <2>6, NewToPage DEF t
  <2>8. next.strokes = After(Replayed(L, m), L[n].op)
    BY <2>5, <2>7 DEF Follows
  <2>9. Replayed(L, n) = After(Replayed(L, m), L[n].op)
    BY <2>2, <2>3, <2>5, <2>7, ReplayedFacts
  <2> QED
    BY <1>2, <2>3, <2>8, <2>9
<1>4. ASSUME Regular(p, more) PROVE Explained(next, Known(L, more))
  <2>1. Regular(p, steps) /\ t \notin Elements(steps)
    <3>1. \A i, j \in 1..m+1 : more[i] = more[j] => i = j
      BY <1>2, <1>4 DEF Regular, Once
    <3>2. \A i \in 1..m : i \in 1..m+1 /\ i # m+1
      BY <1>2
    <3>3. m + 1 \in 1..m+1
      BY <1>2
    <3>4. Once(steps)
      BY <1>2, <3>1, <3>2 DEF Once, m
    <3>5. t \notin Elements(steps)
      BY <1>2, <3>1, <3>2, <3>3
    <3> QED
      BY <1>2, <1>4, <3>4, <3>5 DEF Regular
  <2>2. Explained(b, Known(L, steps))
    BY <2>1 DEF Follower
  <2>3. New(b.strokes, L[n].op)
    BY <2>1, <2>2, NewToPage DEF t
  <2>4. Known(L, steps) \subseteq Known(L, more)
    BY <1>2 DEF Known
  <2>5. NamesIn(L[n].op) \subseteq Known(L, more)
    <3>1. CASE Drawing(L[n])
      <4>1. NamesIn(L[n].op) = {L[n].op.id}
        BY <3>1 DEF NamesIn, Drawing
      <4>2. L[n].op.id \in Known(L, more)
        BY <1>2, <3>1 DEF Known, t
      <4> QED
        BY <4>1, <4>2
    <3>2. CASE ~ Drawing(L[n])
      <4>1. NamesIn(L[n].op) = {}
        BY <3>2 DEF NamesIn, Drawing
      <4> QED
        BY <4>1
    <3> QED
      BY <3>1, <3>2
  <2>6. CASE next = b
    BY <2>2, <2>4, <2>6, ExplainedGrows
  <2>7. CASE next # b
    <3>1. PICK o \in SoundOp : /\ next = Commit(b, o)
                               /\ New(b.strokes, L[n].op) => Fits(Elements(b.strokes), o)
                               /\ Brings(o) \subseteq NamesIn(L[n].op)
      BY <2>7 DEF Follows
    <3> QED
      BY <2>2, <2>3, <2>4, <2>5, <3>1, ExplainedCommit
  <2> QED
    BY <2>6, <2>7
<1> QED
  BY <1>3, <1>4 DEF Follower, more, t

\* The log grows, at its end or where the ledger ends, by what the page has not
\* applied.
LEMMA FollowerKeeps ==
  ASSUME NEW p \in Pages, NEW L \in Seq(SoundEntry), NEW M \in Seq(SoundEntry),
         NEW m \in 0..Len(L), NEW k \in Nat, k > 0, Len(M) = Len(L) + k,
         \A i \in 1..m : M[i] = L[i],
         \A i \in m+1..Len(L) : M[i+k] = L[i],
         NEW b, NEW steps \in Seq(Step),
         \A i \in m+1..m+k : M[i].token \notin Elements(steps),
         Follower(p, L, b, steps)
  PROVE  Follower(p, M, b, steps)
<1> DEFINE n == Len(steps)
           l == Len(L)
<1>1. /\ n \in Nat /\ Elements(steps) = {steps[i] : i \in 1..n}
      /\ l \in Nat /\ Len(M) = l + k /\ m \in 0..l
  BY ElementsAre, EntryFacts
<1>2. ASSUME Prefix(M, steps) PROVE b.strokes = Replayed(M, n)
  <2>1. n <= l + k /\ \A i \in 1..n : steps[i] = M[i].token
    BY <1>1, <1>2 DEF Prefix
  <2> HIDE DEF l
  <2>2. n <= m
    <3> SUFFICES ASSUME n > m PROVE FALSE
      BY <1>1
    <3>1. m + 1 \in 1..n /\ m + 1 \in m+1..m+k
      BY <1>1
    <3> QED
      BY <1>1, <2>1, <3>1
  <2>3. n <= l /\ n <= l + k /\ \A i \in 1..n : i \in 1..m
    BY <1>1, <2>2
  <2>4. Prefix(L, steps)
    BY <2>1, <2>3 DEF Prefix, l
  <2>5. b.strokes = Replayed(L, n)
    BY <2>4 DEF Follower
  <2>6. Replayed(L, n) = Replayed(M, n)
    BY <1>1, <2>3, ReplayedPrefix DEF l
  <2> QED
    BY <2>5, <2>6
<1>3. Known(L, steps) \subseteq Known(M, steps)
  <2> SUFFICES ASSUME NEW i \in 1..l, Drawing(L[i]), L[i].token \in Elements(steps)
               PROVE  L[i].op.id \in Known(M, steps)
    BY DEF Known
  <2> HIDE DEF l
  <2>1. PICK j \in 1..l+k : M[j] = L[i]
    <3>1. CASE i <= m
      BY <1>1, <3>1
    <3>2. CASE i > m
      <4>1. i \in m+1..l /\ i + k \in 1..l+k
        BY <1>1, <3>2
      <4> QED
        BY <4>1 DEF l
    <3> QED
      BY <1>1, <3>1, <3>2
  <2> QED
    BY <1>1, <2>1 DEF Known
<1>4. Regular(p, steps) => Explained(b, Known(M, steps))
  BY <1>3, ExplainedGrows DEF Follower
<1> QED
  BY <1>2, <1>4 DEF Follower


\* Marks are not operations.
LEMMA MarkedFacts ==
  ASSUME NEW steps \in Seq(Step), NEW mark \in Step
  PROVE  /\ Marked(steps, mark) \in Seq(Step)
         /\ Elements(Marked(steps, mark)) = Elements(steps) \cup {mark}
         /\ Once(steps) => Once(Marked(steps, mark))
         /\ Once(Marked(steps, mark)) => Once(steps)
<1>1. CASE mark \in Elements(steps)
  BY <1>1 DEF Marked
<1>2. CASE mark \notin Elements(steps)
  <2> DEFINE more == Append(steps, mark)
             n == Len(steps)
  <2>1. Marked(steps, mark) = more
    BY <1>2 DEF Marked
  <2>2. /\ n \in Nat /\ more \in Seq(Step) /\ Len(more) = n + 1
        /\ \A i \in 1..n : more[i] = steps[i]
        /\ Elements(more) = Elements(steps) \cup {mark}
    BY StepsFacts
  <2>3. Once(steps) => Once(more)
    BY <1>2, OnceAppend
  <2> HIDE DEF more, n
  <2>4. Once(more) => Once(steps)
    <3>1. \A i \in 1..n : i \in 1..n+1
      BY <2>2
    <3> QED
      BY <2>2, <3>1 DEF Once, n
  <2> QED
    BY <2>1, <2>2, <2>3, <2>4
<1> QED
  BY <1>1, <1>2

LEMMA FollowerMarked ==
  ASSUME NEW p \in Pages, NEW L \in Seq(SoundEntry), Logged(L),
         NEW b, NEW steps \in Seq(Step), Follower(p, L, b, steps),
         NEW n \in Int, n <= 0, NEW next,
         \A known : Explained(b, known) => Explained(next, known)
  PROVE  Follower(p, L, next, Marked(steps, <<p, n>>))
<1> DEFINE mark == <<p, n>>
           more == Marked(steps, mark)
<1>1. mark \in Step /\ p \in Page
  BY DEF Step, Page
<1>2. /\ more \in Seq(Step) /\ Elements(more) = Elements(steps) \cup {mark}
      /\ Once(more) => Once(steps)
  BY <1>1, MarkedFacts
<1>3. ASSUME Prefix(L, more) PROVE FALSE
  <2>1. mark \in {more[i] : i \in 1..Len(more)}
    BY <1>2, ElementsAre
  <2>2. PICK i \in 1..Len(more) : more[i] = mark
    BY <2>1
  <2>3. i \in 1..Len(L) /\ L[i].token = mark
    <3>1. Len(more) \in Nat /\ Len(L) \in Nat
      BY <1>2, EntryFacts, LenProperties
    <3>2. Len(more) <= Len(L) /\ more[i] = L[i].token
      BY <1>3, <2>2 DEF Prefix
    <3> HIDE DEF more
    <3> QED
      BY <2>2, <3>1, <3>2
  <2> QED
    BY <1>1, <2>3 DEF Logged
<1>4. ASSUME Regular(p, more) PROVE Explained(next, Known(L, more))
  <2>1. Regular(p, steps)
    BY <1>2, <1>4 DEF Regular
  <2>2. Known(L, steps) \subseteq Known(L, more)
    BY <1>2 DEF Known
  <2> QED
    BY <2>1, <2>2, ExplainedGrows DEF Follower
<1> QED
  BY <1>3, <1>4 DEF Follower

\* The mark of a gesture on a stale stroke leaves nothing to be said, whatever
\* the page does from then on.
LEMMA FollowerStale ==
  ASSUME NEW p \in Pages, NEW L \in Seq(SoundEntry), Logged(L),
         NEW b, NEW steps \in Seq(Step), Stale(p) \in Elements(steps)
  PROVE  Follower(p, L, b, steps)
<1>1. ~ Regular(p, steps)
  BY DEF Regular
<1>2. ~ Prefix(L, steps)
  BY <1>1, EntryFacts, PrefixRegular
<1> QED
  BY <1>1, <1>2 DEF Follower

\* What is there after so many operations was drawn by one of them.
LEMMA ReplayedKnown ==
  ASSUME NEW L \in Seq(SoundEntry), Restored(L), NEW n \in 0..Len(L)
  PROVE  IdsOf(Elements(Replayed(L, n))) \subseteq
           {L[j].op.id : j \in {k \in 1..n : Drawing(L[k])}}
<1> DEFINE Had(m) == {L[j].op.id : j \in {k \in 1..m : Drawing(L[k])}}
           Ids(m) == ObjectIds(States(Ops(L))[m])
           T == {m \in 0..Len(L) : Ids(m) \subseteq Had(m)}
<1>1. /\ Ops(L) \in Seq(SoundServerOp) /\ Len(Ops(L)) = Len(L) /\ Len(L) \in Nat
      /\ \A i \in 1..Len(L) : Ops(L)[i] = L[i].op /\ L[i].op \in SoundServerOp
  BY EntryFacts
<1>2. /\ States(Ops(L))[0] = NoObjects
      /\ \A i \in 1..Len(L) : States(Ops(L))[i] = ApplyOp(States(Ops(L))[i-1], Ops(L)[i])
      /\ \A i \in 0..Len(L) : States(Ops(L))[i] \in SoundStates
  BY <1>1, StatesAre
<1>3. 0 \in T
  BY <1>1, <1>2, NoObjectsSound
<1>4. ASSUME NEW m \in 1..Len(L), m - 1 \in T PROVE m \in T
  <2>1. m \in 0..Len(L) /\ m - 1 \in 0..Len(L) /\ m \in 1..m
    BY <1>1
  <2>2. Ids(m) \subseteq Ids(m-1) \cup NamesIn(L[m].op)
    BY <1>1, <1>2, <2>1, ApplyFacts
  <2>3. Had(m-1) \subseteq Had(m)
    BY <1>1
  <2>4. NamesIn(L[m].op) \subseteq Had(m)
    <3>1. CASE Drawing(L[m])
      BY <2>1, <3>1 DEF NamesIn, Drawing
    <3>2. CASE L[m].op.type = "restore_version"
      <4>1. NamesIn(L[m].op) = IdsOf(Elements(L[m].op.strokes))
        BY <3>2 DEF NamesIn
      <4> QED
        BY <2>3, <3>2, <4>1 DEF Restored
    <3>3. CASE ~ Drawing(L[m]) /\ L[m].op.type # "restore_version"
      <4>1. NamesIn(L[m].op) = {}
        BY <3>3 DEF NamesIn, Drawing
      <4> QED
        BY <4>1
    <3> QED
      BY <3>1, <3>2, <3>3
  <2> HIDE DEF Had, Ids
  <2> QED
    BY <1>4, <2>1, <2>2, <2>3, <2>4
<1>5. 0..Len(L) \subseteq T
  <2> HIDE DEF T
  <2> QED
    BY <1>1, <1>3, <1>4, Upward
<1>6. IdsOf(Elements(Replayed(L, n))) = Ids(n)
  BY <1>2, InOrderFacts DEF Replayed
<1> QED
  BY <1>5, <1>6

\* The steps of a page that has just loaded the first operations.
LEMMA LoadedSteps ==
  ASSUME NEW L \in Seq(SoundEntry), NEW n \in 0..Len(L)
  PROVE  /\ Tokens(SubSeq(L, 1, n)) \in Seq(Step)
         /\ Len(Tokens(SubSeq(L, 1, n))) = n
         /\ \A i \in 1..n : Tokens(SubSeq(L, 1, n))[i] = L[i].token
         /\ Elements(Tokens(SubSeq(L, 1, n))) = {L[i].token : i \in 1..n}
<1> DEFINE M == SubSeq(L, 1, n)
<1>1. Len(L) \in Nat /\ \A i \in 1..n : L[i] \in SoundEntry
  BY EntryFacts
<1>2. M \in Seq(SoundEntry) /\ Len(M) = n /\ \A i \in 1..n : M[i] = L[i]
  <2>1. /\ M \in Seq(SoundEntry) /\ Len(M) = IF 1 <= n THEN n - 1 + 1 ELSE 0
        /\ \A i \in 1..n - 1 + 1 : M[i] = L[1 + i - 1]
    BY <1>1, SubSeqProperties
  <2> QED
    BY <2>1
<1> HIDE DEF M
<1>3. /\ Tokens(M) \in Seq(Step) /\ Len(Tokens(M)) = n
      /\ \A i \in 1..n : Tokens(M)[i] = L[i].token
  BY <1>2, EntryFacts
<1>4. Elements(Tokens(M)) = {Tokens(M)[i] : i \in 1..n}
  BY <1>3, ElementsAre
<1> QED
  BY <1>3, <1>4 DEF M

LEMMA FollowerLoads ==
  ASSUME NEW p \in Pages, NEW L \in Seq(SoundEntry), Restored(L), NEW n \in 0..Len(L)
  PROVE  Follower(p, L, LoadedBoard(Replayed(L, n)), Tokens(SubSeq(L, 1, n)))
<1> DEFINE b == LoadedBoard(Replayed(L, n))
           steps == Tokens(SubSeq(L, 1, n))
<1>1. Replayed(L, n) \in Plain /\ Len(L) \in Nat
  BY ReplayedFacts, EntryFacts
<1>2. b.strokes = Replayed(L, n) /\ Len(steps) = n /\ Elements(steps) = {L[i].token : i \in 1..n}
  BY <1>1, LoadedSound, LoadedSteps
<1>3. Explained(b, IdsOf(Elements(Replayed(L, n))))
  BY <1>1, ExplainedLoaded
<1>4. {L[j].op.id : j \in {k \in 1..n : Drawing(L[k])}} \subseteq Known(L, steps)
  <2> HIDE DEF steps
  <2> QED
    BY <1>1, <1>2 DEF Known
<1>5. IdsOf(Elements(Replayed(L, n))) \subseteq Known(L, steps)
  BY <1>4, ReplayedKnown
<1>6. Explained(b, Known(L, steps))
  BY <1>3, <1>5, ExplainedGrows
<1> QED
  BY <1>2, <1>6 DEF Follower


\* A stretch of a log.
LEMMA StretchFacts ==
  ASSUME NEW L \in Seq(SoundEntry), NEW n \in Nat, NEW m \in Nat, n <= m, m <= Len(L)
  PROVE  /\ SubSeq(L, n + 1, m) \in Seq(SoundEntry)
         /\ Len(SubSeq(L, n + 1, m)) = m - n
         /\ \A i \in 1..m - n : SubSeq(L, n + 1, m)[i] = L[n + i]
         /\ Tokens(SubSeq(L, n + 1, m)) \in Seq(Step)
         /\ Len(Tokens(SubSeq(L, n + 1, m))) = m - n
         /\ \A i \in 1..m - n : Tokens(SubSeq(L, n + 1, m))[i] = L[n + i].token
         /\ Elements(Tokens(SubSeq(L, n + 1, m))) = {L[i].token : i \in n + 1..m}
<1> DEFINE M == SubSeq(L, n + 1, m)
<1>1. Len(L) \in Nat /\ \A i \in 1..Len(L) : L[i] \in SoundEntry
  BY EntryFacts
<1>2. \A i \in n + 1..m : L[i] \in SoundEntry
  <2>1. \A i \in n + 1..m : i \in 1..Len(L)
    BY <1>1
  <2> QED
    BY <1>1, <2>1
<1>3. M \in Seq(SoundEntry) /\ Len(M) = m - n /\ \A i \in 1..m - n : M[i] = L[n + i]
  <2>1. /\ M \in Seq(SoundEntry) /\ Len(M) = IF n + 1 <= m THEN m - (n + 1) + 1 ELSE 0
        /\ \A i \in 1..m - (n + 1) + 1 : M[i] = L[(n + 1) + i - 1]
    BY <1>2, SubSeqProperties
  <2> HIDE DEF M
  <2>2. Len(M) = m - n
    BY <2>1
  <2>3. m - (n + 1) + 1 = m - n /\ \A i \in 1..m - n : (n + 1) + i - 1 = n + i
    OBVIOUS
  <2> QED
    BY <2>1, <2>2, <2>3
<1> HIDE DEF M
<1>4. /\ Tokens(M) \in Seq(Step) /\ Len(Tokens(M)) = m - n
      /\ \A i \in 1..m - n : Tokens(M)[i] = L[n + i].token
  <2>1. /\ Tokens(M) \in Seq(Step) /\ Len(Tokens(M)) = Len(M)
        /\ \A i \in 1..Len(M) : Tokens(M)[i] = M[i].token
    BY <1>3, EntryFacts
  <2> QED
    BY <1>3, <2>1
<1>5. Elements(Tokens(M)) = {L[i].token : i \in n + 1..m}
  <2>1. Elements(Tokens(M)) = {Tokens(M)[i] : i \in 1..m - n}
    BY <1>4, ElementsAre
  <2>2. \A i \in n + 1..m : i - n \in 1..m - n /\ n + (i - n) = i
    OBVIOUS
  <2>3. \A i \in 1..m - n : n + i \in n + 1..m
    OBVIOUS
  <2> DEFINE S == {L[i].token : i \in n + 1..m}
  <2>4. ASSUME NEW x \in Elements(Tokens(M)) PROVE x \in S
    <3>1. PICK i \in 1..m - n : x = Tokens(M)[i]
      BY <2>1
    <3> QED
      BY <1>4, <2>3, <3>1
  <2>5. ASSUME NEW x \in S PROVE x \in Elements(Tokens(M))
    <3>1. PICK i \in n + 1..m : x = L[i].token
      OBVIOUS
    <3>2. i - n \in 1..m - n /\ x = Tokens(M)[i - n]
      BY <1>4, <2>2, <3>1
    <3> QED
      BY <2>1, <3>2
  <2> HIDE DEF S
  <2> QED
    BY <2>4, <2>5 DEF S
<1> QED
  BY <1>3, <1>4, <1>5 DEF M

\* The steps of a page that has taken in a stretch of its log, and one entry more.
LEMMA StretchSteps ==
  ASSUME NEW L \in Seq(SoundEntry), NEW n \in Nat, NEW m \in Nat, n <= m, m < Len(L),
         NEW steps \in Seq(Step)
  PROVE  /\ steps \o Tokens(SubSeq(L, n + 1, m)) \in Seq(Step)
         /\ steps \o Tokens(SubSeq(L, n + 1, m + 1)) =
              Append(steps \o Tokens(SubSeq(L, n + 1, m)), L[m + 1].token)
<1> DEFINE s == Tokens(SubSeq(L, n + 1, m))
           t == Tokens(SubSeq(L, n + 1, m + 1))
           e == L[m + 1].token
           k == Len(steps)
<1>1. /\ Len(L) \in Nat /\ k \in Nat
      /\ m + 1 \in 1..Len(L) /\ m + 1 \in Nat /\ n <= m + 1 /\ m + 1 <= Len(L) /\ m <= Len(L)
  BY EntryFacts, LenProperties
<1>2. e \in Step
  BY <1>1, EntryFacts
<1>3. /\ s \in Seq(Step) /\ Len(s) = m - n /\ \A i \in 1..m - n : s[i] = L[n + i].token
  BY <1>1, StretchFacts
<1>4. /\ t \in Seq(Step) /\ Len(t) = (m + 1) - n
      /\ \A i \in 1..(m + 1) - n : t[i] = L[n + i].token
  BY <1>1, StretchFacts
<1> HIDE DEF s, t, e, k
<1>5. t = Append(s, e)
  <2>1. /\ Append(s, e) \in Seq(Step) /\ Len(Append(s, e)) = m - n + 1
        /\ \A i \in 1..m - n : Append(s, e)[i] = s[i]
        /\ Append(s, e)[m - n + 1] = e
    BY <1>2, <1>3, AppendProperties
  <2>2. ASSUME NEW i \in 1..(m + 1) - n PROVE t[i] = Append(s, e)[i]
    <3>1. CASE i <= m - n
      <4>1. i \in 1..m - n
        BY <3>1
      <4> QED
        BY <1>3, <1>4, <2>1, <4>1
    <3>2. CASE i = m - n + 1
      <4>1. n + i = m + 1
        BY <3>2
      <4> QED
        BY <1>4, <2>1, <3>2, <4>1 DEF e
    <3>3. i <= m - n \/ i = m - n + 1
      OBVIOUS
    <3> QED
      BY <3>1, <3>2, <3>3
  <2>3. (m + 1) - n = m - n + 1
    OBVIOUS
  <2> QED
    BY <1>4, <2>1, <2>2, <2>3, SeqEqual
<1>6. steps \o s \in Seq(Step)
  BY <1>3, ConcatProperties
<1>7. /\ Append(steps \o s, e) = (steps \o s) \o <<e>>
      /\ Append(s, e) = s \o <<e>>
      /\ <<e>> \in Seq(Step)
  <2>1. Append(s, e) = s \o <<e>>
    BY <1>2, <1>3, AppendIsConcat
  <2>2. Append(steps \o s, e) = (steps \o s) \o <<e>>
    BY <1>2, <1>6, AppendIsConcat
  <2> QED
    BY <1>2, <2>1, <2>2
<1>8. (steps \o s) \o <<e>> = steps \o (s \o <<e>>)
  BY <1>3, <1>7, ConcatAssociative
<1> QED
  BY <1>5, <1>6, <1>7, <1>8 DEF s, t, e

\* A page takes in a stretch of its log in which there is no restore.
LEMMA FollowerReceives ==
  ASSUME NEW p \in Pages, NEW L \in Seq(SoundEntry), Logged(L),
         NEW n \in Nat, NEW m \in Nat, n <= m, m <= Len(L),
         \A i \in n + 1..m : L[i].op.type # "restore_version",
         NEW b \in SoundBoard, NEW steps \in Seq(Step), Follower(p, L, b, steps)
  PROVE  LET ops == SubSeq(L, n + 1, m)
         IN  Follower(p, L, ReceivedAll(b, ops), steps \o Tokens(ops))
<1> DEFINE ops == SubSeq(L, n + 1, m)
           k == m - n
           S(i) == steps \o Tokens(SubSeq(L, n + 1, n + i))
           B(i) == Boards(b, ops)[i]
           T == {i \in 0..k : Follower(p, L, B(i), S(i))}
<1>1. /\ Len(L) \in Nat /\ k \in Nat /\ Len(ops) = k
      /\ \A i \in 1..k : ops[i] = L[n + i]
  BY EntryFacts, StretchFacts
<1>2. \A i \in 1..k : n + i \in 1..Len(L) /\ n + i \in n + 1..m
  BY <1>1
<1>3. \A i \in 1..k : ops[i].op \in SoundServerOp /\ ops[i].op.type # "restore_version"
  BY <1>1, <1>2, EntryFacts
<1>4. /\ B(0) = b
      /\ \A i \in 1..k : B(i) = Received(B(i-1), ops[i])
      /\ \A i \in 0..k : B(i) \in SoundBoard
  <2> HIDE DEF ops, k
  <2>1. Len(ops) \in Nat /\ \A i \in 1..Len(ops) : ops[i].op \in SoundServerOp
    BY <1>1, <1>3
  <2>2. /\ Boards(b, ops)[0] = b
        /\ \A i \in 1..Len(ops) : Boards(b, ops)[i] = Received(Boards(b, ops)[i-1], ops[i])
        /\ \A i \in 0..Len(ops) : Boards(b, ops)[i] \in SoundBoard
    BY <2>1, BoardsAre
  <2> QED
    BY <1>1, <2>2
<1>5. 0 \in T
  <2>1. SubSeq(L, n + 1, n + 0) = <<>>
    BY SubSeqEmpty
  <2>2. Tokens(<<>>) = <<>>
    BY DEF Tokens
  <2>3. S(0) = steps
    BY <2>1, <2>2, ConcatEmptySeq
  <2>4. Follower(p, L, B(0), S(0))
    BY <1>4, <2>3
  <2>5. 0 \in 0..k
    BY <1>1
  <2> HIDE DEF B, S
  <2> QED
    BY <2>4, <2>5
<1> HIDE DEF ops
<1>6. ASSUME NEW i \in 1..k, i - 1 \in T PROVE i \in T
  <2>1. /\ n + (i - 1) \in Nat /\ n <= n + (i - 1) /\ n + (i - 1) < Len(L)
        /\ n + (i - 1) + 1 = n + i /\ i \in 0..k /\ i - 1 \in 0..k
    BY <1>1
  <2>2. S(i-1) \in Seq(Step) /\ S(i) = Append(S(i-1), L[n+i].token)
    <3> DEFINE j == n + (i - 1)
    <3>1. j \in Nat /\ n <= j /\ j < Len(L) /\ j + 1 = n + i
      BY <2>1
    <3> HIDE DEF j
    <3>2. /\ steps \o Tokens(SubSeq(L, n + 1, j)) \in Seq(Step)
          /\ steps \o Tokens(SubSeq(L, n + 1, j + 1)) =
               Append(steps \o Tokens(SubSeq(L, n + 1, j)), L[j + 1].token)
      BY <3>1, StretchSteps
    <3> QED
      BY <3>1, <3>2 DEF j
  <2> HIDE DEF S, B, k
  <2>3. Follows(B(i-1), L[n+i].op, B(i))
    BY <1>1, <1>3, <1>4, <2>1, ReceivedFollows
  <2>4. L[n+i].op.type # "restore_version" /\ n + i \in 1..Len(L)
    BY <1>1, <1>2, <1>3
  <2>5. Follower(p, L, B(i-1), S(i-1)) /\ B(i-1) \in SoundBoard
    BY <1>4, <1>6, <2>1
  <2>6. Follower(p, L, B(i), S(i))
    BY <2>2, <2>3, <2>4, <2>5, FollowerAdvances
  <2> QED
    BY <2>1, <2>6
<1>7. 0..k \subseteq T
  <2> HIDE DEF T, k
  <2> QED
    BY <1>1, <1>5, <1>6, Upward
<1>8. k \in 0..k /\ n + k = m
  BY <1>1
<1>9. Follower(p, L, B(k), S(k))
  BY <1>7, <1>8
<1> QED
  BY <1>1, <1>8, <1>9 DEF ReceivedAll, ops


-----------------------------------------------------------------------------
(* The inductive invariant.                                                 *)

Hold == [gesture : {"move", "resize"}, stroke : Stroke]

Holds == {<<>>} \cup {<<h>> : h \in Hold}

Poll == [cursor : Nat, since : Nat, late : BOOLEAN]

Request == [since : Nat, first : BOOLEAN, after : Nat, upTo : Nat]

Typed ==
  /\ ledger \in Seq(SoundEntry)
  /\ board \in [Pages -> SoundBoard]
  /\ version \in [Pages -> Nat]
  /\ nextId \in [Pages -> Nat]
  /\ held \in [Pages -> Holds]
  /\ outbox \in [Pages -> Seq(SoundEntry)]
  /\ made \in [Pages -> Nat]
  /\ heard \in [Pages -> Int]
  /\ polls \in [Pages -> Seq(Poll)]
  /\ loads \in [Pages -> Seq(Request)]
  /\ applied \in [Pages -> Seq(Step)]
  /\ undos \in Nat

\* A request asks for what the ledger has, and the first load for nothing behind it.
Asks(load) ==
  /\ load.after <= load.upTo /\ load.upTo <= load.since /\ load.since <= Len(ledger)
  /\ load.first => load.after = 0 /\ load.upTo = 0

Bounded ==
  /\ \A p \in Pages :
       /\ version[p] <= Len(ledger) + Len(outbox[p])
       /\ Connecting <= heard[p] /\ heard[p] <= Len(ledger)
       /\ Len(polls[p]) <= MaxRequests
       /\ \A i \in 1..Len(loads[p]) : Asks(loads[p][i])
  /\ undos <= MaxUndos

\* Operations are counted by the page that made them, and none is there twice.
Counts(entry, counts) ==
  \E n \in Nat : /\ n > 0 /\ entry.token = <<entry.page, n>>
                 /\ n <= IF entry.page = Nobody THEN Drawn ELSE counts[entry.page]

Counted ==
  /\ Total <= MaxOps
  /\ \A i \in 1..Len(ledger) : Counts(ledger[i], made)
  /\ \A i, j \in 1..Len(ledger) : ledger[i].token = ledger[j].token => i = j
  /\ \A p \in Pages :
       /\ \A i \in 1..Len(outbox[p]) : /\ outbox[p][i].page = p /\ Counts(outbox[p][i], made)
                                       /\ outbox[p][i].op.type # "restore_version"
       /\ \A i, j \in 1..Len(outbox[p]) : outbox[p][i].token = outbox[p][j].token => i = j
       /\ \A i \in 1..Len(ledger), j \in 1..Len(outbox[p]) : ledger[i].token # outbox[p][j].token

\* A stroke is named after the page and numbered by it; a piece is numbered by the
\* page that erased, and no page gives a number twice.
Entries == Elements(ledger) \cup UNION {Elements(outbox[q]) : q \in Pages}

Number(id) == id[Len(id)]

Named ==
  /\ \A e \in Entries : Drawing(e) =>
       /\ Len(e.op.id) = 2 => e.op.id[1] = e.page
       /\ e.page = Nobody => Len(e.op.id) = 2
       /\ e.page # Nobody => Number(e.op.id) \in Nat /\ Number(e.op.id) < nextId[e.page]
  /\ \A e, f \in Entries :
       Drawing(e) /\ Drawing(f) /\ e.page = f.page /\ Number(e.op.id) = Number(f.op.id)
         => e.token = f.token

\* A page that only watches has applied all operations below its version, and
\* below the cursor of each poll that is not late.
Covers(L, n, steps) == n <= Len(L) /\ {L[i].token : i \in 1..n} \subseteq Elements(steps)

Watches(p) == made[p] = 0 /\ Unloaded(p) \notin AllApplied(p) /\ Late(p) \notin AllApplied(p)

Watched ==
  \A p \in Pages : Watches(p) =>
    /\ Covers(ledger, version[p], applied[p])
    /\ \A i \in 1..Len(polls[p]) : ~ polls[p][i].late => Covers(ledger, polls[p][i].cursor, applied[p])

Log(p) == ledger \o outbox[p]

\* The operations a page has applied are those of its log.
TokensIn(entries) == {entries[i].token : i \in 1..Len(entries)}

Owned ==
  \A p \in Pages : \A q \in Page, n \in Int :
    n > 0 /\ <<q, n>> \in AllApplied(p) => <<q, n>> \in TokensIn(ledger) \cup TokensIn(outbox[p])

Followed == NamedApart => \A p \in Pages : Follower(p, Log(p), board[p], applied[p])

-----------------------------------------------------------------------------
(* Gestures.                                                                *)

\* The entries of a gesture: operations of the page, none of them a restore, at
\* most one that draws, under a name of its own.
Drafts(p, entries) ==
  /\ entries \in Seq(SoundEntry) /\ Len(entries) \in 1..2
  /\ \A i \in 1..Len(entries) :
       /\ entries[i].page = p /\ entries[i].token = <<p, made[p] + i>>
       /\ entries[i].op.type # "restore_version"
       /\ Drawing(entries[i]) =>
            /\ Len(entries[i].op.id) = 2 => entries[i].op.id[1] = p
            /\ Number(entries[i].op.id) \in Nat
            /\ nextId[p] <= Number(entries[i].op.id) /\ Number(entries[i].op.id) < nextId'[p]
  /\ \A i, j \in 1..Len(entries) : Drawing(entries[i]) /\ Drawing(entries[j]) => i = j
  /\ Total + Len(entries) <= MaxOps

\* What they make of the board, unless the stroke was stale.
Leads(p, b, entries, steps, next) ==
  \/ Stale(p) \in Elements(steps)
  \/ Len(entries) = 1 /\ Follows(b, entries[1].op, next)
  \/ /\ Len(entries) = 2
     /\ \E mid : Follows(b, entries[1].op, mid) /\ Follows(mid, entries[2].op, next)

Makes(p, entries, steps, next) ==
  /\ Drafts(p, entries)
  /\ steps \in {applied[p], Marked(applied[p], Stale(p))}
  /\ next \in SoundBoard /\ Leads(p, board[p], entries, steps, next)
  /\ ledger' = ledger
  /\ board' = [board EXCEPT ![p] = next]
  /\ version' = [version EXCEPT ![p] = @ + Len(entries)]
  /\ nextId' \in [Pages -> Nat] /\ \A q \in Pages : nextId[q] <= nextId'[q]
  /\ held' \in [Pages -> Holds]
  /\ outbox' = [outbox EXCEPT ![p] = @ \o entries]
  /\ made' = [made EXCEPT ![p] = @ + Len(entries)]
  /\ heard' = heard /\ polls' = polls /\ loads' = loads
  /\ applied' = [applied EXCEPT ![p] = steps \o Tokens(entries)]
  /\ undos' = undos

\* What is emitted.
Entry(p, n, op) == [page |-> p, token |-> Token(p, n), op |-> op]

LEMMA EntrySound ==
  ASSUME NEW p \in Pages, NEW n \in Nat, NEW op \in SoundServerOp
  PROVE  /\ Entry(p, n, op) \in SoundEntry
         /\ Entry(p, n, op).page = p /\ Entry(p, n, op).token = <<p, n>>
         /\ Entry(p, n, op).op = op
<1>1. Token(p, n) = <<p, n>> /\ <<p, n>> \in Step /\ p \in Page
  BY DEF Token, Step, Page
<1> QED
  BY <1>1 DEF Entry, SoundEntry

LEMMA EmitOne ==
  ASSUME NEW p \in Pages, Typed, NEW op \in SoundServerOp, Emit(p, <<op>>)
  PROVE  LET entries == <<Entry(p, made[p] + 1, op)>> IN
         /\ entries \in Seq(SoundEntry) /\ Len(entries) = 1
         /\ Total + 1 <= MaxOps
         /\ outbox' = [outbox EXCEPT ![p] = @ \o entries]
         /\ made' = [made EXCEPT ![p] = @ + 1]
         /\ version' = [version EXCEPT ![p] = @ + 1]
         /\ applied' = [applied EXCEPT ![p] = @ \o Tokens(entries)]
<1> DEFINE ops == [i \in DOMAIN <<op>> |-> [page |-> p, token |-> Token(p, made[p] + i), op |-> <<op>>[i]]]
           entries == <<Entry(p, made[p] + 1, op)>>
<1>1. ops = entries
  BY DEF Entry
<1>2. made[p] \in Nat /\ made[p] + 1 \in Nat
  BY DEF Typed
<1>3. entries \in Seq(SoundEntry) /\ Len(entries) = 1
  BY <1>2, EntrySound
<1> QED
  BY <1>1, <1>3 DEF Emit

LEMMA ServerOps ==
  /\ \A stroke \in Stroke :
       /\ Create(stroke) \in SoundServerOp /\ Create(stroke).type = "create_stroke"
       /\ Create(stroke).id = stroke.id /\ Create(stroke).at = stroke.at
       /\ Delete(stroke) \in SoundServerOp /\ Delete(stroke).type = "delete_object"
       /\ Delete(stroke).id = stroke.id
  /\ ClearCanvas \in SoundServerOp /\ ClearCanvas.type = "clear_canvas"
  /\ \A id \in Names :
       /\ Move(id) \in SoundServerOp /\ Move(id).type = "move_object"
       /\ Move(id).id = id /\ Move(id).by = By
       /\ Resize(id) \in SoundServerOp /\ Resize(id).type = "resize_object"
       /\ Resize(id).id = id /\ Resize(id).about = About /\ Resize(id).by = Scale
<1>1. \A stroke \in Stroke : stroke.id \in Names /\ stroke.at \in Int
  BY DEF Stroke
<1> QED
  BY <1>1 DEF Create, Delete, ClearCanvas, Move, Resize, By, About, Scale, SoundServerOp

\* The engine's own gestures have the effect of receiving their operations.
LEMMA FollowsDraw ==
  ASSUME NEW b \in SoundBoard, NEW stroke \in Stroke
  PROVE  Follows(b, Create(stroke), Commit(b, Adding(<<stroke>>)))
<1> DEFINE entry == [op |-> Create(stroke)]
<1>1. entry.op = Create(stroke)
  OBVIOUS
<1>2. stroke = [id |-> stroke.id, at |-> stroke.at]
  BY DEF Stroke
<1>3. /\ Create(stroke) \in SoundServerOp /\ Create(stroke).type = "create_stroke"
      /\ Create(stroke).id = stroke.id /\ Create(stroke).at = stroke.at
  BY ServerOps
<1> HIDE DEF entry
<1>4. Received(b, entry) = Commit(b, Adding(<<stroke>>))
  BY <1>1, <1>2, <1>3 DEF Received
<1> QED
  BY <1>1, <1>3, <1>4, ReceivedFollows

\* A stroke that is shown is found by its id.
LEMMA FoundById ==
  ASSUME NEW b \in SoundBoard, NEW stroke \in Elements(b.strokes)
  PROVE  /\ stroke \in Stroke
         /\ HasStroke(b.strokes, stroke.id)
         /\ StrokeById(b.strokes, stroke.id) = stroke
<1>1. b.strokes \in Plain
  BY BoardFacts
<1>2. stroke \in Stroke /\ \A s, t \in Elements(b.strokes) : s.id = t.id => s = t
  BY <1>1, PlainElements
<1>3. HasStroke(b.strokes, stroke.id)
  BY DEF HasStroke
<1> QED
  BY <1>1, <1>2, <1>3, HasStrokeIs

LEMMA FollowsDelete ==
  ASSUME NEW b \in SoundBoard, NEW stroke \in Elements(b.strokes)
  PROVE  Follows(b, Delete(stroke), Commit(b, Removing(<<stroke>>)))
<1> DEFINE entry == [op |-> Delete(stroke)]
<1>1. entry.op = Delete(stroke)
  OBVIOUS
<1>2. /\ HasStroke(b.strokes, stroke.id) /\ StrokeById(b.strokes, stroke.id) = stroke
      /\ stroke \in Stroke
  BY FoundById
<1>3. /\ Delete(stroke) \in SoundServerOp /\ Delete(stroke).type = "delete_object"
      /\ Delete(stroke).id = stroke.id
  BY <1>2, ServerOps
<1> HIDE DEF entry
<1>4. Received(b, entry) = Commit(b, Removing(<<stroke>>))
  BY <1>1, <1>2, <1>3 DEF Received
<1> QED
  BY <1>1, <1>3, <1>4, ReceivedFollows

LEMMA FollowsClear ==
  ASSUME NEW b \in SoundBoard, b.strokes # <<>>
  PROVE  Follows(b, ClearCanvas, Commit(b, Clearing(b.strokes)))
<1> DEFINE entry == [op |-> ClearCanvas]
<1>1. entry.op = ClearCanvas
  OBVIOUS
<1>2. ClearCanvas \in SoundServerOp /\ ClearCanvas.type = "clear_canvas"
  BY ServerOps
<1> HIDE DEF entry
<1>3. Received(b, entry) = Commit(b, Clearing(b.strokes))
  BY <1>1, <1>2 DEF Received
<1> QED
  BY <1>1, <1>2, <1>3, ReceivedFollows

\* A stroke that was moved or resized is as the gesture found it, or gone.
LEMMA FollowsChange ==
  ASSUME NEW b \in SoundBoard, NEW from \in Stroke, NEW op \in SoundServerOp,
         op.type \in {"move_object", "resize_object"}, op.id = from.id,
         from \in Elements(b.strokes) \/ ~ HasStroke(b.strokes, from.id)
  PROVE  /\ At(from, op) \in Stroke /\ At(from, op).id = from.id
         /\ Follows(b, op, Commit(b, Changing(from, At(from, op))))
<1> DEFINE o == Changing(from, At(from, op))
           S == Elements(b.strokes)
<1>0. b.strokes \in Plain
  BY BoardFacts
<1>1. At(from, op) \in Stroke /\ At(from, op).id = from.id
  <2>1. <<from>> \in Plain /\ from \in Elements(<<from>>)
    BY PlainOne, ElementsOne
  <2> QED
    BY <2>1, ChangingOne
<1>2. /\ o \in SoundOp /\ o.type = "change" /\ o.from = from /\ o.to = At(from, op)
  BY <1>1, SoundOps DEF Changing
<1>3. Commit(b, o) \in SoundBoard /\ Commit(b, o).strokes = NextStrokes(b.strokes, o)
  BY <1>2, CommitSound
<1>4. Brings(o) \subseteq NamesIn(op)
  BY <1>2 DEF Brings
<1>5. Fits(S, o)
  BY <1>2 DEF Fits, HasStroke, IdsOf
<1>6. NextStrokes(b.strokes, o) = After(b.strokes, op)
  <2>1. CASE from \in S
    BY <1>0, <2>1, ChangingOne
  <2>2. CASE ~ HasStroke(b.strokes, from.id)
    <3>1. After(b.strokes, op) = b.strokes
      BY <1>0, <2>2, AfterAbsent
    <3>2. \A i \in DOMAIN b.strokes : b.strokes[i].id # from.id
      BY <2>2 DEF HasStroke, Elements
    <3>3. NextStrokes(b.strokes, o) =
            [i \in DOMAIN b.strokes |-> IF b.strokes[i].id = o.to.id THEN o.to ELSE b.strokes[i]]
      BY <1>2 DEF NextStrokes
    <3>4. b.strokes = [i \in DOMAIN b.strokes |-> b.strokes[i]]
      BY <1>0, LenProperties DEF Plain
    <3> HIDE DEF o
    <3>5. [i \in DOMAIN b.strokes |-> IF b.strokes[i].id = o.to.id THEN o.to ELSE b.strokes[i]]
            = [i \in DOMAIN b.strokes |-> b.strokes[i]]
      BY <1>1, <1>2, <3>2
    <3> QED
      BY <3>1, <3>3, <3>4, <3>5
  <2> QED
    BY <2>1, <2>2
<1> HIDE DEF o
<1> QED
  BY <1>1, <1>2, <1>3, <1>4, <1>5, <1>6 DEF Follows, o


\* The names a page gives.
LEMMA PageNames ==
  ASSUME NEW p \in Pages, NEW n \in Nat
  PROVE  /\ <<p, n>> \in Names /\ Len(<<p, n>>) = 2 /\ <<p, n>>[1] = p /\ Number(<<p, n>>) = n
         /\ \A id \in Names : /\ Append(id, n) \in Names /\ Len(Append(id, n)) > 2
                              /\ Number(Append(id, n)) = n
<1> DEFINE S == Pages \cup {Nobody} \cup Nat
<1>1. p \in S /\ n \in S
  OBVIOUS
<1> HIDE DEF S
<1>2. <<p, n>> \in Seq(S) /\ Len(<<p, n>>) = 2
  BY <1>1
<1>3. <<p, n>> \in Names
  BY <1>2 DEF Names, S
<1>4. Number(<<p, n>>) = n
  BY <1>2 DEF Number
<1>5. ASSUME NEW id \in Names
      PROVE  Append(id, n) \in Names /\ Len(Append(id, n)) > 2 /\ Number(Append(id, n)) = n
  <2>1. id \in Seq(S) /\ Len(id) > 1 /\ Len(id) \in Nat
    BY LenProperties DEF Names, S
  <2>2. /\ Append(id, n) \in Seq(S) /\ Len(Append(id, n)) = Len(id) + 1
        /\ Append(id, n)[Len(id) + 1] = n
    BY <1>1, <2>1, AppendProperties
  <2>3. \A k \in Nat : k > 1 => k + 1 > 2 /\ k + 1 > 1
    OBVIOUS
  <2>4. Len(Append(id, n)) > 2 /\ Len(Append(id, n)) > 1
    BY <2>1, <2>2, <2>3
  <2> QED
    BY <2>2, <2>4 DEF Names, S, Number
<1> QED
  BY <1>2, <1>3, <1>4, <1>5

\* A gesture that emits one operation.
LEMMA MakesOne ==
  ASSUME NEW p \in Pages, Typed, NEW op \in SoundServerOp, op.type # "restore_version",
         NEW next, Follows(board[p], op, next), Emit(p, <<op>>),
         board' = [board EXCEPT ![p] = next],
         nextId' \in [Pages -> Nat], \A q \in Pages : nextId[q] <= nextId'[q],
         op.type = "create_stroke" =>
           /\ Len(op.id) = 2 => op.id[1] = p
           /\ Number(op.id) \in Nat
           /\ nextId[p] <= Number(op.id) /\ Number(op.id) < nextId'[p],
         UNCHANGED <<ledger, held, netVars, undos>>
  PROVE  \E entries, steps : Makes(p, entries, steps, next)
<1> DEFINE entry == Entry(p, made[p] + 1, op)
           entries == <<entry>>
<1>1. /\ entries \in Seq(SoundEntry) /\ Len(entries) = 1 /\ Total + 1 <= MaxOps
      /\ outbox' = [outbox EXCEPT ![p] = @ \o entries]
      /\ made' = [made EXCEPT ![p] = @ + 1]
      /\ version' = [version EXCEPT ![p] = @ + 1]
      /\ applied' = [applied EXCEPT ![p] = @ \o Tokens(entries)]
  BY EmitOne
<1>2. /\ entries[1] = entry
      /\ entry.page = p /\ entry.token = <<p, made[p] + 1>> /\ entry.op = op
  <2>1. made[p] + 1 \in Nat
    BY DEF Typed
  <2> QED
    BY <2>1, EntrySound
<1>3. \A i \in 1..1 : i = 1
  OBVIOUS
<1> HIDE DEF entries, entry
<1>4. Drafts(p, entries)
  BY <1>1, <1>2, <1>3 DEF Drafts, Drawing
<1>5. Leads(p, board[p], entries, applied[p], next) /\ next \in SoundBoard
  BY <1>1, <1>2 DEF Leads, Follows
<1>6. applied' = [applied EXCEPT ![p] = applied[p] \o Tokens(entries)]
  BY <1>1
<1>7. held' \in [Pages -> Holds]
  BY DEF Typed
<1>8. Makes(p, entries, applied[p], next)
  BY <1>1, <1>4, <1>5, <1>6, <1>7 DEF Makes, netVars
<1> QED
  BY <1>8

LEMMA DrawMakes ==
  ASSUME Typed, NEW p \in Pages, Draw(p)
  PROVE  \E entries, steps, next : Makes(p, entries, steps, next)
<1> DEFINE n == nextId[p] + 1
           stroke == [id |-> <<p, n>>, at |-> Start]
           op == Create(stroke)
           next == Commit(board[p], Adding(<<stroke>>))
<1>1. n \in Nat /\ nextId[p] \in Nat /\ nextId \in [Pages -> Nat] /\ board[p] \in SoundBoard
  BY DEF Typed
<1>2. <<p, n>> \in Names /\ Len(<<p, n>>) = 2 /\ <<p, n>>[1] = p /\ Number(<<p, n>>) = n
  BY <1>1, PageNames
<1>3. stroke \in Stroke /\ stroke.id = <<p, n>>
  BY <1>2 DEF Stroke, Start
<1>4. op \in SoundServerOp /\ op.type = "create_stroke" /\ op.id = <<p, n>>
  BY <1>3, ServerOps
<1>5. Follows(board[p], op, next)
  BY <1>1, <1>3, FollowsDraw
<1>6. /\ board' = [board EXCEPT ![p] = next]
      /\ nextId' = [nextId EXCEPT ![p] = @ + 2]
      /\ Emit(p, <<op>>)
      /\ UNCHANGED <<ledger, held, netVars, undos>>
  BY DEF Draw
<1> HIDE DEF op, next, stroke
<1>7. /\ nextId' \in [Pages -> Nat] /\ \A q \in Pages : nextId[q] <= nextId'[q]
      /\ nextId[p] <= n /\ n < nextId'[p]
  BY <1>1, <1>6
<1> HIDE DEF n
<1>8. \E entries, steps : Makes(p, entries, steps, next)
  BY <1>1, <1>2, <1>4, <1>5, <1>6, <1>7, MakesOne
<1> QED
  BY <1>8

LEMMA DeleteMakes ==
  ASSUME Typed, NEW p \in Pages, NEW stroke \in Shown(p), DeleteSelection(p, stroke)
  PROVE  \E entries, steps, next : Makes(p, entries, steps, next)
<1> DEFINE op == Delete(stroke)
           next == Commit(board[p], Removing(<<stroke>>))
<1>1. board[p] \in SoundBoard /\ stroke \in Elements(board[p].strokes) /\ nextId \in [Pages -> Nat]
  BY DEF Typed, Shown
<1>2. op \in SoundServerOp /\ op.type = "delete_object"
  BY <1>1, FoundById, ServerOps
<1>3. Follows(board[p], op, next)
  BY <1>1, FollowsDelete
<1>4. /\ board' = [board EXCEPT ![p] = next] /\ Emit(p, <<op>>)
      /\ UNCHANGED <<ledger, held, netVars, undos>> /\ nextId' = nextId
  BY DEF DeleteSelection
<1> HIDE DEF op, next
<1>5. \A q \in Pages : nextId[q] <= nextId'[q]
  BY <1>1, <1>4
<1>6. \E entries, steps : Makes(p, entries, steps, next)
  BY <1>1, <1>2, <1>3, <1>4, <1>5, MakesOne
<1> QED
  BY <1>6

LEMMA ClearMakes ==
  ASSUME Typed, NEW p \in Pages, ClearBoard(p)
  PROVE  \E entries, steps, next : Makes(p, entries, steps, next)
<1> DEFINE next == Commit(board[p], Clearing(board[p].strokes))
<1>1. board[p] \in SoundBoard /\ nextId \in [Pages -> Nat] /\ board \in [Pages -> SoundBoard]
  BY DEF Typed
<1>2. /\ board[p].strokes # <<>> /\ Emit(p, <<ClearCanvas>>)
      /\ UNCHANGED <<ledger, held, netVars, undos>> /\ nextId' = nextId
  BY DEF ClearBoard
<1>3. board' = [board EXCEPT ![p] = next]
  BY <1>1 DEF ClearBoard
<1>4. Follows(board[p], ClearCanvas, next)
  BY <1>1, <1>2, FollowsClear
<1> HIDE DEF next
<1>5. ClearCanvas \in SoundServerOp /\ ClearCanvas.type = "clear_canvas"
  BY ServerOps
<1>6. \A q \in Pages : nextId[q] <= nextId'[q]
  BY <1>1, <1>2
<1>7. \E entries, steps : Makes(p, entries, steps, next)
  BY <1>1, <1>2, <1>3, <1>4, <1>5, <1>6, MakesOne
<1> QED
  BY <1>7


\* The stroke is erased whole.
LEMMA EraseMakes ==
  ASSUME Typed, NEW p \in Pages, NEW stroke \in Shown(p), FinishErase(p, stroke, 0)
  PROVE  \E entries, steps, next : Makes(p, entries, steps, next)
<1> DEFINE op == Delete(stroke)
           next == Commit(board[p], Removing(<<stroke>>))
           left == [i \in 1..0 |->
                      [id |-> Append(stroke.id, nextId[p] + i - 1), at |-> stroke.at + Start]]
<1>1. board[p] \in SoundBoard /\ stroke \in Elements(board[p].strokes) /\ nextId \in [Pages -> Nat]
  BY DEF Typed, Shown
<1>2. op \in SoundServerOp /\ op.type = "delete_object"
  BY <1>1, FoundById, ServerOps
<1>3. Follows(board[p], op, next)
  BY <1>1, FollowsDelete
<1>4. /\ board' = [board EXCEPT ![p] = next] /\ nextId' = [nextId EXCEPT ![p] = @ + 0]
      /\ Emit(p, <<op>> \o Creates(left))
      /\ UNCHANGED <<ledger, held, netVars, undos>>
  BY DEF FinishErase
<1>5. Creates(left) = <<>> /\ <<op>> \o <<>> = <<op>>
  BY DEF Creates
<1> HIDE DEF op, next, left
<1>6. Emit(p, <<op>>)
  BY <1>4, <1>5
<1>7. nextId' \in [Pages -> Nat] /\ \A q \in Pages : nextId[q] <= nextId'[q]
  BY <1>1, <1>4
<1>8. \E entries, steps : Makes(p, entries, steps, next)
  BY <1>1, <1>2, <1>3, <1>4, <1>6, <1>7, MakesOne
<1> QED
  BY <1>8

LEMMA PairConcat ==
  ASSUME NEW x, NEW y
  PROVE  <<x>> \o <<y>> = <<x, y>>
<1> DEFINE S == {x, y}
<1>1. /\ <<x>> \in Seq(S) /\ <<y>> \in Seq(S) /\ <<x, y>> \in Seq(S)
      /\ Len(<<x>>) = 1 /\ Len(<<y>>) = 1 /\ Len(<<x, y>>) = 2
      /\ <<x>>[1] = x /\ <<y>>[1] = y /\ <<x, y>>[1] = x /\ <<x, y>>[2] = y
  OBVIOUS
<1> DEFINE s == <<x>> \o <<y>>
<1>2. /\ s \in Seq(S) /\ Len(s) = 1 + 1
      /\ \A i \in 1..1 + 1 : s[i] = IF i <= 1 THEN <<x>>[i] ELSE <<y>>[i - 1]
  BY <1>1, ConcatProperties
<1> HIDE DEF s, S
<1>3. Len(s) = 2 /\ s[1] = x /\ s[2] = y
  <2>1. 1 \in 1..1 + 1 /\ 2 \in 1..1 + 1 /\ 1 <= 1 /\ ~ (2 <= 1) /\ 2 - 1 = 1
    OBVIOUS
  <2> QED
    BY <1>1, <1>2, <2>1
<1>4. \A i \in 1..2 : s[i] = <<x, y>>[i]
  <2>1. \A i \in 1..2 : i = 1 \/ i = 2
    OBVIOUS
  <2> QED
    BY <1>1, <1>3, <2>1
<1>5. s = <<x, y>>
  BY <1>1, <1>2, <1>3, <1>4, SeqEqual
<1> QED
  BY <1>5 DEF s

\* A piece of it is left.
LEMMA ErasePieceMakes ==
  ASSUME Typed, NEW p \in Pages, NEW stroke \in Shown(p), FinishErase(p, stroke, 1)
  PROVE  \E entries, steps, next : Makes(p, entries, steps, next)
<1> DEFINE n == nextId[p]
           piece == [id |-> Append(stroke.id, n), at |-> stroke.at + Start]
           left == [i \in 1..1 |->
                      [id |-> Append(stroke.id, nextId[p] + i - 1), at |-> stroke.at + Start]]
           op == Delete(stroke)
           op2 == Create(piece)
           mid == Commit(board[p], Removing(<<stroke>>))
           next == Commit(mid, Adding(<<piece>>))
           entries == <<Entry(p, made[p] + 1, op), Entry(p, made[p] + 2, op2)>>
<1>1. /\ board[p] \in SoundBoard /\ stroke \in Elements(board[p].strokes)
      /\ nextId \in [Pages -> Nat] /\ n \in Nat /\ made[p] \in Nat
  BY DEF Typed, Shown
<1>2. stroke \in Stroke /\ stroke.id \in Names /\ stroke.at \in Int
  BY <1>1, FoundById DEF Stroke
<1>3. /\ Append(stroke.id, n) \in Names /\ Len(Append(stroke.id, n)) > 2
      /\ Number(Append(stroke.id, n)) = n
  BY <1>1, <1>2, PageNames
<1>4. piece \in Stroke /\ piece.id = Append(stroke.id, n)
  BY <1>2, <1>3 DEF Stroke, Start
<1>5. /\ op \in SoundServerOp /\ op.type = "delete_object"
      /\ op2 \in SoundServerOp /\ op2.type = "create_stroke" /\ op2.id = Append(stroke.id, n)
  BY <1>2, <1>4, ServerOps
<1>6. left = <<piece>>
  <2>1. ASSUME NEW i \in 1..1
        PROVE  [id |-> Append(stroke.id, nextId[p] + i - 1), at |-> stroke.at + Start] = piece
    <3>1. nextId[p] + i - 1 = n
      BY <1>1
    <3> QED
      BY <3>1
  <2>2. left = [i \in 1..1 |-> piece]
    BY <2>1
  <2> HIDE DEF piece, left
  <2> QED
    BY <2>2
<1>7. /\ board' = [board EXCEPT ![p] = Commit(mid, Adding(left))]
      /\ nextId' = [nextId EXCEPT ![p] = @ + 1]
      /\ Emit(p, <<op>> \o Creates(left))
      /\ UNCHANGED <<ledger, held, netVars, undos>>
  BY DEF FinishErase
<1> HIDE DEF left
<1>8. Creates(left) = <<op2>> /\ <<op>> \o <<op2>> = <<op, op2>>
  <2>1. Creates(<<piece>>) = [i \in 1..1 |-> Create(<<piece>>[i])]
    BY DEF Creates
  <2> HIDE DEF piece, op
  <2>2. [i \in 1..1 |-> Create(<<piece>>[i])] = <<op2>>
    OBVIOUS
  <2> HIDE DEF op2
  <2>3. <<op>> \o <<op2>> = <<op, op2>>
    BY PairConcat
  <2> QED
    BY <1>6, <2>1, <2>2, <2>3 DEF op2
<1>9. Follows(board[p], op, mid)
  BY <1>1, FollowsDelete
<1>10. mid \in SoundBoard
  BY <1>9 DEF Follows
<1> HIDE DEF mid, op
<1>11. Follows(mid, op2, next) /\ next \in SoundBoard
  BY <1>4, <1>10, FollowsDraw DEF Follows
<1>12. board' = [board EXCEPT ![p] = next]
  BY <1>6, <1>7
<1> HIDE DEF next, op2, piece
<1>13. /\ entries \in Seq(SoundEntry) /\ Len(entries) = 2 /\ Total + 2 <= MaxOps
       /\ outbox' = [outbox EXCEPT ![p] = @ \o entries]
       /\ made' = [made EXCEPT ![p] = @ + 2]
       /\ version' = [version EXCEPT ![p] = @ + 2]
       /\ applied' = [applied EXCEPT ![p] = @ \o Tokens(entries)]
  <2> DEFINE ops == [i \in DOMAIN <<op, op2>> |->
                       [page |-> p, token |-> Token(p, made[p] + i), op |-> <<op, op2>>[i]]]
  <2>1. ops = entries
    BY DEF Entry
  <2>2. made[p] + 1 \in Nat /\ made[p] + 2 \in Nat
    BY <1>1
  <2>3. entries \in Seq(SoundEntry) /\ Len(entries) = 2
    BY <1>5, <2>2, EntrySound
  <2>4. Emit(p, <<op, op2>>)
    BY <1>7, <1>8
  <2> QED
    BY <2>1, <2>3, <2>4 DEF Emit
<1>14. /\ entries[1].page = p /\ entries[1].token = <<p, made[p] + 1>> /\ entries[1].op = op
       /\ entries[2].page = p /\ entries[2].token = <<p, made[p] + 2>> /\ entries[2].op = op2
  <2>1. made[p] + 1 \in Nat /\ made[p] + 2 \in Nat
    BY <1>1
  <2> QED
    BY <1>5, <2>1, EntrySound
<1>15. /\ nextId' \in [Pages -> Nat] /\ \A q \in Pages : nextId[q] <= nextId'[q]
       /\ n < nextId'[p] /\ nextId[p] <= n
  BY <1>1, <1>7
<1>16. \A i \in 1..2 : i = 1 \/ i = 2
  OBVIOUS
<1> HIDE DEF entries, n
<1>17. Drafts(p, entries)
  <2>1. ~ Drawing(entries[1])
    BY <1>5, <1>14 DEF Drawing
  <2>2. /\ entries[2].op.id = Append(stroke.id, n) /\ Len(entries[2].op.id) # 2
        /\ Number(entries[2].op.id) \in Nat /\ nextId[p] <= Number(entries[2].op.id)
        /\ Number(entries[2].op.id) < nextId'[p]
    <3>1. \A k \in Nat : k > 2 => k # 2
      OBVIOUS
    <3>2. Len(Append(stroke.id, n)) # 2
      BY <1>3, <3>1, LenProperties DEF Names
    <3> QED
      BY <1>1, <1>3, <1>5, <1>14, <1>15, <3>2
  <2>3. entries[1].op.type # "restore_version" /\ entries[2].op.type # "restore_version"
    BY <1>5, <1>14
  <2>4. ASSUME NEW i \in 1..2
        PROVE  /\ entries[i].page = p /\ entries[i].token = <<p, made[p] + i>>
               /\ entries[i].op.type # "restore_version"
               /\ Drawing(entries[i]) =>
                    /\ Len(entries[i].op.id) = 2 => entries[i].op.id[1] = p
                    /\ Number(entries[i].op.id) \in Nat
                    /\ nextId[p] <= Number(entries[i].op.id)
                    /\ Number(entries[i].op.id) < nextId'[p]
    <3>1. CASE i = 1
      BY <1>14, <2>1, <2>3, <3>1
    <3>2. CASE i = 2
      BY <1>14, <2>2, <2>3, <3>2
    <3> QED
      BY <1>16, <3>1, <3>2
  <2>5. \A i, j \in 1..2 : Drawing(entries[i]) /\ Drawing(entries[j]) => i = j
    BY <1>16, <2>1
  <2> QED
    BY <1>13, <2>4, <2>5 DEF Drafts
<1>18. Leads(p, board[p], entries, applied[p], next)
  BY <1>9, <1>11, <1>13, <1>14 DEF Leads
<1>19. applied' = [applied EXCEPT ![p] = applied[p] \o Tokens(entries)]
  BY <1>13
<1>20. held' \in [Pages -> Holds]
  BY <1>7 DEF Typed
<1>21. Makes(p, entries, applied[p], next)
  BY <1>7, <1>11, <1>12, <1>13, <1>15, <1>17, <1>18, <1>19, <1>20 DEF Makes, netVars
<1> QED
  BY <1>21

\* What the pages have made can be counted.
LEMMA MadeFinite ==
  ASSUME made \in [Pages -> Nat]
  PROVE  IsFiniteSet(Made) /\ Total \in Nat
<1> DEFINE f == [p \in Pages |-> {Token(p, n) : n \in 1..made[p]}]
           T == {f[p] : p \in Pages}
<1>1. IsFiniteSet(T)
  <2>1. f \in Surjection(Pages, T)
    BY DEF Surjection
  <2> QED
    BY <2>1, PagesAssumption, FS_Surjection
<1>2. ASSUME NEW p \in Pages PROVE IsFiniteSet(f[p])
  <2>1. IsFiniteSet(1..made[p])
    BY FS_Interval
  <2> DEFINE g == [n \in 1..made[p] |-> Token(p, n)]
  <2>2. g \in Surjection(1..made[p], f[p])
    BY DEF Surjection
  <2> QED
    BY <2>1, <2>2, FS_Surjection
<1>3. UNION T = Made
  BY DEF Made
<1> HIDE DEF f
<1>4. IsFiniteSet(UNION T)
  BY <1>1, <1>2, FS_UNION
<1> QED
  BY <1>3, <1>4, FS_CardinalityType DEF Total

\* The end of a drag or of a resize.
LEMMA EndMakes ==
  ASSUME Typed, NEW p \in Pages, End(p)
  PROVE  \E entries, steps, next : Makes(p, entries, steps, next)
<1> DEFINE b == board[p]
           from == held[p][1].stroke
           move == held[p][1].gesture = "move"
           at == IF move THEN Moved(from.at, By) ELSE Scaled(from.at, About, Scale)
           stale == HasStroke(b.strokes, from.id) /\ from \notin Shown(p)
           op == IF move THEN Move(from.id) ELSE Resize(from.id)
           entry == Entry(p, made[p] + 1, op)
           entries == <<entry>>
           steps == IF stale THEN Marked(applied[p], Stale(p)) ELSE applied[p]
           next == Commit(b, Changing(from, At(from, op)))
<1>1. b \in SoundBoard /\ made[p] \in Nat /\ applied[p] \in Seq(Step)
  BY DEF Typed
<1>2. from \in Stroke
  <2>1. held[p] # <<>>
    BY DEF End
  <2>2. held[p] \in Holds
    BY DEF Typed
  <2>3. PICK h \in Hold : held[p] = <<h>>
    BY <2>1, <2>2 DEF Holds
  <2> QED
    BY <2>3 DEF Hold
<1>3. from = [id |-> from.id, at |-> from.at] /\ from.id \in Names
  BY <1>2 DEF Stroke
<1>4. [from EXCEPT !.at = at] = At(from, op)
  <2>1. CASE move
    <3>1. op = Move(from.id) /\ op.type = "move_object" /\ op.by = By /\ at = Moved(from.at, By)
      BY <1>3, <2>1, ServerOps
    <3> HIDE DEF op, at, from
    <3> QED
      BY <1>3, <3>1 DEF At, NewPlace
  <2>2. CASE ~ move
    <3>1. /\ op.type = "resize_object" /\ op.about = About /\ op.by = Scale
          /\ at = Scaled(from.at, About, Scale)
      BY <1>3, <2>2, ServerOps
    <3> HIDE DEF op, at, from
    <3> QED
      BY <1>3, <3>1 DEF At, NewPlace
  <2> QED
    BY <2>1, <2>2
<1>5. /\ Total < MaxOps
      /\ held' = [held EXCEPT ![p] = <<>>]
      /\ board' = [board EXCEPT ![p] = Commit(@, Changing(from, [from EXCEPT !.at = at]))]
      /\ outbox' = [outbox EXCEPT ![p] = Append(@, entry)]
      /\ made' = [made EXCEPT ![p] = @ + 1]
      /\ version' = [version EXCEPT ![p] = @ + 1]
      /\ applied' = [applied EXCEPT ![p] =
                       (IF stale THEN Marked(@, Stale(p)) ELSE @) \o <<entry.token>>]
      /\ UNCHANGED <<ledger, nextId, netVars, undos>>
  BY DEF End, Entry
<1>6. /\ op \in SoundServerOp /\ op.type \in {"move_object", "resize_object"} /\ op.id = from.id
  BY <1>3, ServerOps
<1>7. /\ entry \in SoundEntry /\ entry.page = p /\ entry.token = <<p, made[p] + 1>> /\ entry.op = op
  <2>1. made[p] + 1 \in Nat
    BY <1>1
  <2> QED
    BY <1>6, <2>1, EntrySound
<1>8. At(from, op) \in Stroke /\ At(from, op).id = from.id
  <2>1. <<from>> \in Plain /\ from \in Elements(<<from>>)
    BY <1>2, PlainOne, ElementsOne
  <2> HIDE DEF from, op
  <2> QED
    BY <1>6, <2>1, ChangingOne
<1>9. next \in SoundBoard
  <2> HIDE DEF from, op, b
  <2> QED
    BY <1>1, <1>2, <1>8, SoundOps, CommitSound
<1>10. stale \/ Follows(b, op, next)
  <2>1. ~ stale => from \in Elements(b.strokes) \/ ~ HasStroke(b.strokes, from.id)
    BY DEF Shown
  <2> HIDE DEF from, op, b, stale
  <2> QED
    BY <1>1, <1>2, <1>6, <2>1, FollowsChange
<1>11. board' = [board EXCEPT ![p] = next]
  BY <1>4, <1>5 DEF Typed
<1>12. Stale(p) \in Step
  BY DEF Stale, Step, Page
<1>13. stale => Stale(p) \in Elements(steps)
  BY <1>1, <1>12, MarkedFacts
<1>14. steps \in {applied[p], Marked(applied[p], Stale(p))}
  OBVIOUS
<1>15. /\ entries \in Seq(SoundEntry) /\ Len(entries) = 1 /\ entries[1] = entry
       /\ Tokens(entries) = <<entry.token>>
  <2> HIDE DEF entry
  <2>1. entries \in Seq(SoundEntry) /\ Len(entries) = 1 /\ entries[1] = entry
    BY <1>7
  <2>2. Tokens(entries) = <<entry.token>>
    BY DEF Tokens
  <2> QED
    BY <2>1, <2>2
<1>16. /\ outbox' = [outbox EXCEPT ![p] = outbox[p] \o entries]
       /\ applied' = [applied EXCEPT ![p] = steps \o Tokens(entries)]
  <2>1. Append(outbox[p], entry) = outbox[p] \o entries
    <3>1. outbox[p] \in Seq(SoundEntry)
      BY DEF Typed
    <3> HIDE DEF entry
    <3> QED
      BY <1>7, <3>1, AppendIsConcat
  <2>2. /\ outbox' = [outbox EXCEPT ![p] = Append(outbox[p], entry)]
        /\ applied' = [applied EXCEPT ![p] = steps \o <<entry.token>>]
    BY <1>5
  <2> QED
    BY <1>15, <2>1, <2>2
<1>17. held' \in [Pages -> Holds]
  BY <1>5 DEF Typed, Holds
<1>18. nextId' = nextId /\ nextId \in [Pages -> Nat] /\ \A q \in Pages : nextId[q] <= nextId'[q]
  <2>1. nextId' = nextId
    BY <1>5
  <2>2. nextId \in [Pages -> Nat]
    BY DEF Typed
  <2> QED
    BY <2>1, <2>2
<1>19. Total + 1 <= MaxOps
  <2>1. Total \in Nat /\ MaxOps \in Nat
    BY MadeFinite, BoundsAssumption DEF Typed
  <2> QED
    BY <1>5, <2>1
<1> HIDE DEF entry, op, stale, next, b
<1>20. Drafts(p, entries)
  <2>1. \A i \in 1..1 : i = 1
    OBVIOUS
  <2>2. ~ Drawing(entry) /\ entry.op.type # "restore_version"
    BY <1>6, <1>7 DEF Drawing
  <2> HIDE DEF entries
  <2> QED
    BY <1>7, <1>15, <1>19, <2>1, <2>2 DEF Drafts
<1>21. Leads(p, b, entries, steps, next)
  BY <1>7, <1>10, <1>13, <1>15 DEF Leads
<1> HIDE DEF entries, steps
<1>22. Makes(p, entries, steps, next)
  BY <1>5, <1>9, <1>11, <1>14, <1>15, <1>16, <1>17, <1>18, <1>20, <1>21 DEF Makes, netVars, b
<1> QED
  BY <1>22


-----------------------------------------------------------------------------
(* What the invariant says of the logs.                                     *)

LEMMA LogFacts ==
  Typed => \A p \in Pages :
    /\ Log(p) \in Seq(SoundEntry)
    /\ Len(ledger) \in Nat /\ Len(outbox[p]) \in Nat
    /\ Len(Log(p)) = Len(ledger) + Len(outbox[p])
    /\ \A i \in 1..Len(ledger) : Log(p)[i] = ledger[i] /\ ledger[i] \in SoundEntry
    /\ \A i \in 1..Len(outbox[p]) : Log(p)[Len(ledger) + i] = outbox[p][i]
                                    /\ outbox[p][i] \in SoundEntry
<1> SUFFICES ASSUME Typed, NEW p \in Pages
             PROVE  /\ Log(p) \in Seq(SoundEntry)
                    /\ Len(ledger) \in Nat /\ Len(outbox[p]) \in Nat
                    /\ Len(Log(p)) = Len(ledger) + Len(outbox[p])
                    /\ \A i \in 1..Len(ledger) : Log(p)[i] = ledger[i] /\ ledger[i] \in SoundEntry
                    /\ \A i \in 1..Len(outbox[p]) : Log(p)[Len(ledger) + i] = outbox[p][i]
                                                    /\ outbox[p][i] \in SoundEntry
  OBVIOUS
<1> DEFINE l == Len(ledger)
           o == Len(outbox[p])
<1>1. ledger \in Seq(SoundEntry) /\ outbox[p] \in Seq(SoundEntry)
  BY DEF Typed
<1>2. l \in Nat /\ o \in Nat
  BY <1>1, LenProperties
<1>3. /\ Log(p) \in Seq(SoundEntry) /\ Len(Log(p)) = l + o
      /\ \A i \in 1..l + o : Log(p)[i] = IF i <= l THEN ledger[i] ELSE outbox[p][i - l]
  BY <1>1, ConcatProperties DEF Log
<1>4. /\ \A i \in 1..l : ledger[i] \in SoundEntry
      /\ \A i \in 1..o : outbox[p][i] \in SoundEntry
  BY <1>1, ElementOfSeq
<1> HIDE DEF l, o
<1>5. \A i \in 1..l : i \in 1..l + o /\ i <= l
  BY <1>2
<1>6. \A i \in 1..o : l + i \in 1..l + o /\ ~ (l + i <= l) /\ l + i - l = i
  BY <1>2
<1>7. \A i \in 1..l : Log(p)[i] = ledger[i]
  BY <1>3, <1>5
<1>8. ASSUME NEW i \in 1..o PROVE Log(p)[l + i] = outbox[p][i]
  <2> DEFINE k == l + i
  <2>1. k \in 1..l + o /\ ~ (k <= l) /\ k - l = i
    BY <1>2
  <2> HIDE DEF k
  <2>2. Log(p)[k] = outbox[p][i]
    BY <1>3, <2>1
  <2> QED
    BY <2>2 DEF k
<1> QED
  BY <1>2, <1>3, <1>4, <1>7, <1>8 DEF l, o

\* An entry of a log is an entry of the ledger or of the outbox.
LEMMA LogPlaces ==
  ASSUME Typed, NEW p \in Pages, NEW i \in 1..Len(Log(p))
  PROVE  \/ i \in 1..Len(ledger) /\ Log(p)[i] = ledger[i]
         \/ \E j \in 1..Len(outbox[p]) : i = Len(ledger) + j /\ Log(p)[i] = outbox[p][j]
<1> DEFINE l == Len(ledger)
           o == Len(outbox[p])
<1>1. /\ l \in Nat /\ o \in Nat /\ Len(Log(p)) = l + o
      /\ \A j \in 1..l : Log(p)[j] = ledger[j]
      /\ \A j \in 1..o : Log(p)[l + j] = outbox[p][j]
  BY LogFacts
<1> HIDE DEF l, o
<1>2. CASE i <= l
  <2>1. i \in 1..l
    BY <1>1, <1>2
  <2> QED
    BY <1>1, <2>1 DEF l
<1>3. CASE i > l
  <2>1. i - l \in 1..o /\ l + (i - l) = i
    BY <1>1, <1>3
  <2> QED
    BY <1>1, <2>1 DEF l, o
<1> QED
  BY <1>1, <1>2, <1>3

LEMMA CountsToken ==
  ASSUME NEW entry \in SoundEntry, Counts(entry, made), made \in [Pages -> Nat]
  PROVE  \A q \in Page, n \in Int : entry.token = <<q, n>> =>
           /\ n > 0 /\ q = entry.page
           /\ q \in Pages => n <= made[q]
BY PagesAssumption DEF Counts

\* Each stroke of a log is drawn once, if no two pages name a piece alike.
LEMMA LoggedNow ==
  Typed /\ Counted /\ Named /\ NamedApart => \A p \in Pages : Logged(Log(p))
<1> SUFFICES ASSUME Typed, Counted, Named, NamedApart, NEW p \in Pages
             PROVE  Logged(Log(p))
  OBVIOUS
<1> DEFINE L == Log(p)
<1>1. ASSUME NEW i \in 1..Len(L)
      PROVE  /\ L[i] \in SoundEntry /\ Counts(L[i], made) /\ L[i] \in Entries
             /\ L[i] \in Elements(ledger) \cup Elements(outbox[p])
  <2>1. \A s : \A k \in 1..Len(s) : s \in Seq(SoundEntry) => s[k] \in Elements(s)
    BY LenProperties DEF Elements
  <2>2. CASE i \in 1..Len(ledger) /\ L[i] = ledger[i]
    BY <2>1, <2>2, LogFacts DEF Counted, Typed, Entries
  <2>3. CASE \E j \in 1..Len(outbox[p]) : i = Len(ledger) + j /\ L[i] = outbox[p][j]
    <3>1. PICK j \in 1..Len(outbox[p]) : L[i] = outbox[p][j]
      BY <2>3
    <3>2. L[i] \in Elements(outbox[p])
      BY <2>1, <3>1 DEF Typed
    <3> QED
      BY <3>1, <3>2, LogFacts DEF Counted, Entries
  <2> QED
    BY <2>2, <2>3, LogPlaces
<1>2. \A i \in 1..Len(L) : \A q \in Page, n \in Int : L[i].token = <<q, n>> => n > 0
  BY <1>1, CountsToken DEF Typed
<1>3. ASSUME NEW i \in 1..Len(L), NEW j \in 1..Len(L), L[i].token = L[j].token
      PROVE  i = j
  <2>1. \/ i \in 1..Len(ledger) /\ L[i] = ledger[i]
        \/ \E k \in 1..Len(outbox[p]) : i = Len(ledger) + k /\ L[i] = outbox[p][k]
    BY LogPlaces
  <2>2. \/ j \in 1..Len(ledger) /\ L[j] = ledger[j]
        \/ \E k \in 1..Len(outbox[p]) : j = Len(ledger) + k /\ L[j] = outbox[p][k]
    BY LogPlaces
  <2> HIDE DEF L
  <2>3. CASE i \in 1..Len(ledger) /\ L[i] = ledger[i] /\ j \in 1..Len(ledger) /\ L[j] = ledger[j]
    BY <1>3, <2>3 DEF Counted
  <2>4. CASE /\ i \in 1..Len(ledger) /\ L[i] = ledger[i]
             /\ \E k \in 1..Len(outbox[p]) : j = Len(ledger) + k /\ L[j] = outbox[p][k]
    BY <1>3, <2>4 DEF Counted
  <2>5. CASE /\ j \in 1..Len(ledger) /\ L[j] = ledger[j]
             /\ \E k \in 1..Len(outbox[p]) : i = Len(ledger) + k /\ L[i] = outbox[p][k]
    BY <1>3, <2>5 DEF Counted
  <2>6. CASE /\ \E k \in 1..Len(outbox[p]) : i = Len(ledger) + k /\ L[i] = outbox[p][k]
             /\ \E k \in 1..Len(outbox[p]) : j = Len(ledger) + k /\ L[j] = outbox[p][k]
    <3>1. PICK k \in 1..Len(outbox[p]) : i = Len(ledger) + k /\ L[i] = outbox[p][k]
      BY <2>6
    <3>2. PICK m \in 1..Len(outbox[p]) : j = Len(ledger) + m /\ L[j] = outbox[p][m]
      BY <2>6
    <3>3. outbox[p][k].token = outbox[p][m].token
      BY <1>3, <3>1, <3>2
    <3>4. k = m
      BY <3>3 DEF Counted
    <3> QED
      BY <3>1, <3>2, <3>4
  <2> QED
    BY <2>1, <2>2, <2>3, <2>4, <2>5, <2>6
<1>4. ASSUME NEW i \in 1..Len(L), NEW j \in 1..Len(L),
             Drawing(L[i]), Drawing(L[j]), L[i].op.id = L[j].op.id
      PROVE  i = j
  <2> DEFINE e == L[i]
             f == L[j]
             id == e.op.id
  <2>1. CASE e.page = f.page
    <3>1. e.token = f.token
      BY <1>1, <1>4, <2>1 DEF Named
    <3> QED
      BY <1>3, <3>1
  <2>2. CASE e.page # f.page
    <3>1. Len(id) > 1 /\ Len(id) \in Nat
      <4>1. id \in Names
        BY <1>1, <1>4, ServerOpCases DEF SoundEntry, Drawing
      <4> QED
        BY <4>1, LenProperties DEF Names
    <3>4. \A k \in Nat : k > 1 => k = 2 \/ (k > 2 /\ k # 2)
      OBVIOUS
    <3>5. Len(id) = 2 \/ (Len(id) > 2 /\ Len(id) # 2)
      BY <3>1, <3>4
    <3>2. CASE Len(id) = 2
      BY <1>1, <1>4, <2>2, <3>2 DEF Named
    <3>3. CASE Len(id) > 2 /\ Len(id) # 2
      <4>1. Len(id) # 2
        BY <3>3
      <4>2. e.page # Nobody /\ f.page # Nobody
        BY <1>1, <1>4, <4>1 DEF Named
      <4>3. e.page \in Pages /\ f.page \in Pages
        BY <1>1, <4>2 DEF SoundEntry, Page
      <4>4. ASSUME NEW g \in {e, f}, Drawing(g), Len(g.op.id) > 2, g.page \in Pages,
                   g \in Elements(ledger) \cup Elements(outbox[p])
            PROVE  g.op.id \in Pieces(g.page)
        <5>1. g \in Elements(ledger) \cup Elements(outbox[g.page])
          <6>1. CASE g \in Elements(outbox[p])
            <7>1. PICK k \in 1..Len(outbox[p]) : g = outbox[p][k]
              BY <6>1, LenProperties DEF Elements, Typed
            <7>2. g.page = p
              BY <7>1 DEF Counted
            <7> QED
              BY <6>1, <7>2
          <6> QED
            BY <4>4, <6>1
        <5> QED
          BY <4>4, <5>1 DEF Pieces, Drawing
      <4>5. id \in Pieces(e.page) /\ id \in Pieces(f.page)
        BY <1>1, <1>4, <3>3, <4>3, <4>4
      <4> QED
        BY <2>2, <4>3, <4>5 DEF NamedApart
    <3> QED
      BY <3>2, <3>3, <3>5
  <2> QED
    BY <2>1, <2>2
<1> QED
  BY <1>2, <1>3, <1>4 DEF Logged


-----------------------------------------------------------------------------
(* A gesture preserves the invariant.                                       *)

\* The elements of two sequences, one after the other.
Joined(s, t, u) ==
  /\ Len(s) \in Nat /\ Len(t) \in Nat /\ Len(u) = Len(s) + Len(t)
  /\ \A i \in 1..Len(s) : u[i] = s[i] /\ i \in 1..Len(u)
  /\ \A j \in 1..Len(t) : u[Len(s) + j] = t[j] /\ Len(s) + j \in 1..Len(u)
  /\ \A i \in 1..Len(u) : \/ i \in 1..Len(s) /\ u[i] = s[i]
                          \/ \E j \in 1..Len(t) : i = Len(s) + j /\ u[i] = t[j]

LEMMA ConcatPlaces ==
  ASSUME NEW S, NEW s \in Seq(S), NEW t \in Seq(S)
  PROVE  s \o t \in Seq(S) /\ Joined(s, t, s \o t)
<1> DEFINE n == Len(s)
           m == Len(t)
           u == s \o t
<1>1. /\ n \in Nat /\ m \in Nat /\ u \in Seq(S) /\ Len(u) = n + m
      /\ \A i \in 1..n + m : u[i] = IF i <= n THEN s[i] ELSE t[i - n]
  BY ConcatProperties, LenProperties
<1> HIDE DEF n, m, u
<1>2. ASSUME NEW i \in 1..n PROVE u[i] = s[i] /\ i \in 1..n + m
  <2>1. i \in 1..n + m /\ i <= n
    BY <1>1
  <2> QED
    BY <1>1, <2>1
<1>3. ASSUME NEW j \in 1..m PROVE u[n + j] = t[j] /\ n + j \in 1..n + m
  <2> DEFINE i == n + j
  <2>1. i \in 1..n + m /\ ~ (i <= n) /\ i - n = j
    BY <1>1
  <2> HIDE DEF i
  <2>2. u[i] = t[j]
    BY <1>1, <2>1
  <2> QED
    BY <2>1, <2>2 DEF i
<1>4. ASSUME NEW i \in 1..n + m
      PROVE  \/ i \in 1..n /\ u[i] = s[i]
             \/ \E j \in 1..m : i = n + j /\ u[i] = t[j]
  <2>1. CASE i <= n
    BY <1>1, <2>1
  <2>2. CASE i > n
    <3>1. i - n \in 1..m /\ i = n + (i - n) /\ ~ (i <= n)
      BY <1>1, <2>2
    <3>2. u[i] = t[i - n]
      BY <1>1, <3>1
    <3> QED
      BY <3>1, <3>2
  <2> QED
    BY <1>1, <2>1, <2>2
<1> QED
  BY <1>1, <1>2, <1>3, <1>4 DEF Joined, n, m, u

LEMMA MakesTyped ==
  ASSUME Typed, Bounded, NEW p \in Pages, NEW entries, NEW steps, NEW next,
         Makes(p, entries, steps, next)
  PROVE  Typed' /\ Bounded' /\ steps \in Seq(Step)
<1>1. /\ entries \in Seq(SoundEntry) /\ Len(entries) \in 1..2 /\ Tokens(entries) \in Seq(Step)
  BY EntryFacts DEF Makes, Drafts
<1>2. applied[p] \in Seq(Step) /\ Stale(p) \in Step /\ outbox[p] \in Seq(SoundEntry)
  BY DEF Typed, Stale, Step, Page
<1>3. steps \in Seq(Step)
  BY <1>2, MarkedFacts DEF Makes
<1>4. steps \o Tokens(entries) \in Seq(Step)
  BY <1>1, <1>3, ConcatProperties
<1>5. /\ outbox[p] \o entries \in Seq(SoundEntry)
      /\ Len(outbox[p] \o entries) = Len(outbox[p]) + Len(entries) /\ Len(outbox[p]) \in Nat
  BY <1>1, <1>2, ConcatProperties, LenProperties
<1>6. Len(entries) \in Nat
  BY <1>1
<1>7. Typed'
  <2>1. ledger' \in Seq(SoundEntry) /\ heard' \in [Pages -> Int] /\ polls' \in [Pages -> Seq(Poll)]
        /\ loads' \in [Pages -> Seq(Request)] /\ undos' \in Nat
    BY DEF Typed, Makes
  <2>2. board' \in [Pages -> SoundBoard] /\ held' \in [Pages -> Holds] /\ nextId' \in [Pages -> Nat]
    BY DEF Typed, Makes
  <2>3. version' \in [Pages -> Nat] /\ made' \in [Pages -> Nat]
    <3>1. /\ version \in [Pages -> Nat] /\ version' = [version EXCEPT ![p] = @ + Len(entries)]
          /\ made \in [Pages -> Nat] /\ made' = [made EXCEPT ![p] = @ + Len(entries)]
      BY DEF Typed, Makes
    <3>2. version[p] + Len(entries) \in Nat /\ made[p] + Len(entries) \in Nat
      BY <1>6, <3>1
    <3> QED
      BY <3>1, <3>2
  <2>4. outbox' \in [Pages -> Seq(SoundEntry)]
    BY <1>5 DEF Typed, Makes
  <2>5. applied' \in [Pages -> Seq(Step)]
    BY <1>4 DEF Typed, Makes
  <2> QED
    BY <2>1, <2>2, <2>3, <2>4, <2>5 DEF Typed
<1>8. Bounded'
  <2>1. Len(ledger) \in Nat
    BY LenProperties DEF Typed
  <2>2. ledger' = ledger /\ heard' = heard /\ polls' = polls /\ loads' = loads /\ undos' = undos
    BY DEF Makes
  <2>3. ASSUME NEW q \in Pages PROVE version'[q] <= Len(ledger) + Len(outbox'[q])
    <3>1. CASE q = p
      <4> DEFINE k == Len(entries)
                 o == Len(outbox[p])
                 l == Len(ledger)
      <4>1. version'[p] = version[p] + k /\ Len(outbox'[p]) = o + k
        BY <1>5 DEF Makes, Typed
      <4>2. version[p] <= l + o /\ version[p] \in Nat
        BY DEF Bounded, Typed
      <4>3. k \in Nat /\ o \in Nat /\ l \in Nat
        BY <1>5, <1>6, <2>1
      <4> HIDE DEF k, o, l
      <4>4. version'[p] <= l + Len(outbox'[p])
        BY <4>1, <4>2, <4>3
      <4> QED
        BY <3>1, <4>4 DEF l
    <3>2. CASE q # p
      BY <3>2 DEF Makes, Typed, Bounded
    <3> QED
      BY <3>1, <3>2
  <2> QED
    BY <2>2, <2>3 DEF Bounded, Asks
<1> QED
  BY <1>3, <1>7, <1>8

\* What the pages have made, when one of them has made k more.
MadeBy(counts) == UNION {{Token(p, n) : n \in 1..counts[p]} : p \in Pages}

LEMMA MadeOneMore ==
  ASSUME NEW counts \in [Pages -> Nat], NEW p \in Pages
  PROVE  MadeBy([counts EXCEPT ![p] = @ + 1]) = MadeBy(counts) \cup {Token(p, counts[p] + 1)}
<1> DEFINE more == [counts EXCEPT ![p] = @ + 1]
<1>1. counts[p] \in Nat /\ more[p] = counts[p] + 1
      /\ \A q \in Pages : q # p => more[q] = counts[q]
  OBVIOUS
<1> HIDE DEF more
<1>2. \A q \in Pages : \A n \in 1..counts[q] : n \in 1..more[q]
  BY <1>1
<1>3. \A q \in Pages : \A n \in 1..more[q] : n \in 1..counts[q] \/ (q = p /\ n = counts[p] + 1)
  BY <1>1
<1>4. counts[p] + 1 \in 1..more[p]
  BY <1>1
<1>5. MadeBy(more) = MadeBy(counts) \cup {Token(p, counts[p] + 1)}
  BY <1>2, <1>3, <1>4 DEF MadeBy
<1> QED
  BY <1>5 DEF more

LEMMA MadeMore ==
  ASSUME made \in [Pages -> Nat], NEW p \in Pages, NEW k \in 1..2,
         made' = [made EXCEPT ![p] = @ + k]
  PROVE  Total \in Nat /\ Total' \in Nat /\ Total' <= Total + k
<1> DEFINE one == [made EXCEPT ![p] = @ + 1]
           two == [one EXCEPT ![p] = @ + 1]
<1>1. one \in [Pages -> Nat] /\ two = [made EXCEPT ![p] = @ + 2] /\ made' \in [Pages -> Nat]
  OBVIOUS
<1>2. Made = MadeBy(made) /\ Made' = MadeBy(made')
  BY DEF Made, MadeBy
<1>3. IsFiniteSet(MadeBy(made)) /\ Total \in Nat /\ Total = Cardinality(MadeBy(made))
  BY <1>2, MadeFinite DEF Total
<1>4. Total' = Cardinality(MadeBy(made'))
  BY <1>2 DEF Total
<1>5. /\ MadeBy(one) = MadeBy(made) \cup {Token(p, made[p] + 1)}
      /\ MadeBy(two) = MadeBy(one) \cup {Token(p, one[p] + 1)}
  BY <1>1, MadeOneMore
<1> HIDE DEF one, two
<1>6. /\ IsFiniteSet(MadeBy(one)) /\ Cardinality(MadeBy(one)) \in Nat
      /\ Cardinality(MadeBy(one)) <= Total + 1
  <2>1. /\ IsFiniteSet(MadeBy(made) \cup {Token(p, made[p] + 1)})
        /\ \/ Cardinality(MadeBy(made) \cup {Token(p, made[p] + 1)}) = Cardinality(MadeBy(made))
           \/ Cardinality(MadeBy(made) \cup {Token(p, made[p] + 1)}) = Cardinality(MadeBy(made)) + 1
    BY <1>3, FS_AddElement
  <2> QED
    BY <1>3, <1>5, <2>1
<1>7. /\ Cardinality(MadeBy(two)) \in Nat
      /\ Cardinality(MadeBy(two)) <= Total + 2
  <2>1. /\ IsFiniteSet(MadeBy(one) \cup {Token(p, one[p] + 1)})
        /\ \/ Cardinality(MadeBy(one) \cup {Token(p, one[p] + 1)}) = Cardinality(MadeBy(one))
           \/ Cardinality(MadeBy(one) \cup {Token(p, one[p] + 1)}) = Cardinality(MadeBy(one)) + 1
    BY <1>6, FS_AddElement
  <2> QED
    BY <1>3, <1>5, <1>6, <2>1
<1>8. k = 1 \/ k = 2
  OBVIOUS
<1> QED
  BY <1>1, <1>3, <1>4, <1>6, <1>7, <1>8 DEF one


\* The entries of the outbox after a gesture.
Emitted(p, entries) ==
  /\ \A q \in Pages : q # p => outbox'[q] = outbox[q] /\ made'[q] = made[q]
  /\ made'[p] = made[p] + Len(entries) /\ Len(entries) \in 1..2
  /\ Len(outbox[p]) \in Nat /\ Len(outbox'[p]) = Len(outbox[p]) + Len(entries)
  /\ \A i \in 1..Len(outbox[p]) : outbox'[p][i] = outbox[p][i] /\ i \in 1..Len(outbox'[p])
  /\ \A j \in 1..Len(entries) :
       outbox'[p][Len(outbox[p]) + j] = entries[j] /\ Len(outbox[p]) + j \in 1..Len(outbox'[p])
  /\ \A i \in 1..Len(outbox'[p]) :
       \/ i \in 1..Len(outbox[p]) /\ outbox'[p][i] = outbox[p][i]
       \/ \E j \in 1..Len(entries) : i = Len(outbox[p]) + j /\ outbox'[p][i] = entries[j]

LEMMA MakesOutbox ==
  ASSUME Typed, NEW p \in Pages, NEW entries, NEW steps, NEW next,
         Makes(p, entries, steps, next)
  PROVE  Emitted(p, entries)
<1>1. entries \in Seq(SoundEntry) /\ Len(entries) \in 1..2
  BY DEF Makes, Drafts
<1>2. outbox[p] \in Seq(SoundEntry) /\ outbox'[p] = outbox[p] \o entries
  BY DEF Typed, Makes
<1>3. \A q \in Pages : q # p => outbox'[q] = outbox[q] /\ made'[q] = made[q]
  BY DEF Typed, Makes
<1>4. made'[p] = made[p] + Len(entries)
  BY DEF Typed, Makes
<1> DEFINE s == outbox[p]
           u == s \o entries
<1>5. /\ u \in Seq(SoundEntry) /\ Len(s) \in Nat /\ Len(entries) \in Nat
      /\ Len(u) = Len(s) + Len(entries)
      /\ \A i \in 1..Len(s) : u[i] = s[i] /\ i \in 1..Len(u)
      /\ \A j \in 1..Len(entries) : u[Len(s) + j] = entries[j] /\ Len(s) + j \in 1..Len(u)
      /\ \A i \in 1..Len(u) :
           \/ i \in 1..Len(s) /\ u[i] = s[i]
           \/ \E j \in 1..Len(entries) : i = Len(s) + j /\ u[i] = entries[j]
  <2> HIDE DEF s
  <2>1. u \in Seq(SoundEntry) /\ Joined(s, entries, u)
    BY <1>1, <1>2, ConcatPlaces DEF s
  <2> QED
    BY <2>1 DEF Joined
<1>6. outbox'[p] = u
  BY <1>2
<1> HIDE DEF u
<1> QED
  BY <1>1, <1>3, <1>4, <1>5, <1>6 DEF Emitted

\* What a page emits is counted on from what it has made.
LEMMA CountsOn ==
  ASSUME NEW entry, Counts(entry, made), made \in [Pages -> Nat], made' \in [Pages -> Nat],
         entry.page \in Page, \A q \in Pages : made[q] <= made'[q]
  PROVE  Counts(entry, made')
<1>1. PICK n \in Nat : /\ n > 0 /\ entry.token = <<entry.page, n>>
                       /\ n <= IF entry.page = Nobody THEN Drawn ELSE made[entry.page]
  BY DEF Counts
<1>2. CASE entry.page = Nobody
  BY <1>1, <1>2 DEF Counts
<1>3. CASE entry.page # Nobody
  <2>1. entry.page \in Pages
    BY <1>3 DEF Page
  <2>2. n <= made'[entry.page]
    BY <1>1, <1>3, <2>1
  <2> QED
    BY <1>1, <1>3, <2>2 DEF Counts
<1> QED
  BY <1>2, <1>3

LEMMA MakesCounted ==
  ASSUME Typed, Bounded, Counted, NEW p \in Pages, NEW entries, NEW steps, NEW next,
         Makes(p, entries, steps, next)
  PROVE  Counted'
<1>1. /\ \A q \in Pages : q # p => outbox'[q] = outbox[q] /\ made'[q] = made[q]
      /\ made'[p] = made[p] + Len(entries) /\ Len(entries) \in 1..2
      /\ Len(outbox[p]) \in Nat /\ Len(outbox'[p]) = Len(outbox[p]) + Len(entries)
      /\ \A i \in 1..Len(outbox[p]) : outbox'[p][i] = outbox[p][i] /\ i \in 1..Len(outbox'[p])
      /\ \A j \in 1..Len(entries) :
           outbox'[p][Len(outbox[p]) + j] = entries[j] /\ Len(outbox[p]) + j \in 1..Len(outbox'[p])
      /\ \A i \in 1..Len(outbox'[p]) :
           \/ i \in 1..Len(outbox[p]) /\ outbox'[p][i] = outbox[p][i]
           \/ \E j \in 1..Len(entries) : i = Len(outbox[p]) + j /\ outbox'[p][i] = entries[j]
  <2>1. Emitted(p, entries)
    BY MakesOutbox
  <2> QED
    BY <2>1 DEF Emitted
<1>2. /\ ledger' = ledger /\ made' = [made EXCEPT ![p] = @ + Len(entries)]
      /\ Total + Len(entries) <= MaxOps
  BY DEF Makes, Drafts
<1>3. Typed' /\ made \in [Pages -> Nat] /\ made' \in [Pages -> Nat] /\ made[p] \in Nat
  BY MakesTyped DEF Typed
<1>4. \A i \in 1..Len(entries) :
        /\ entries[i].page = p /\ entries[i].token = <<p, made[p] + i>>
        /\ entries[i].op.type # "restore_version"
  BY DEF Makes, Drafts
<1>5. Total' <= MaxOps
  <2> DEFINE k == Len(entries)
  <2>1. k \in 1..2 /\ made' = [made EXCEPT ![p] = @ + k] /\ Total + k <= MaxOps
    BY <1>1, <1>2
  <2> HIDE DEF k
  <2>2. Total \in Nat /\ Total' \in Nat /\ Total' <= Total + k
    BY <1>3, <2>1, MadeMore
  <2> QED
    BY <2>1, <2>2, BoundsAssumption
<1>6. \A q \in Pages : made[q] <= made'[q]
  <2>1. made[p] <= made'[p]
    BY <1>1, <1>3
  <2>2. \A q \in Pages : q # p => made'[q] = made[q] /\ made[q] \in Nat
    BY <1>1, <1>3
  <2> QED
    BY <2>1, <2>2
<1>7. ASSUME NEW e, e.page \in Page, Counts(e, made) PROVE Counts(e, made')
  BY <1>3, <1>6, <1>7, CountsOn
<1>8. ASSUME NEW j \in 1..Len(entries) PROVE Counts(entries[j], made')
  <2>1. /\ entries[j].page = p /\ entries[j].token = <<p, made[p] + j>> /\ p # Nobody
        /\ made[p] + j \in Nat /\ made[p] + j > 0 /\ made[p] + j <= made'[p]
    BY <1>1, <1>3, <1>4, PagesAssumption
  <2> QED
    BY <2>1 DEF Counts
<1>9. \A i \in 1..Len(ledger) : ledger[i] \in SoundEntry /\ ledger[i].page \in Page
  BY EntryFacts DEF Typed
<1>10. \A q \in Pages : \A i \in 1..Len(outbox[q]) : outbox[q][i] \in SoundEntry /\ outbox[q][i].page \in Page
  BY EntryFacts DEF Typed
<1>11. \A i \in 1..Len(ledger') : Counts(ledger'[i], made')
  BY <1>2, <1>7, <1>9 DEF Counted
<1>12. ASSUME NEW e \in SoundEntry, Counts(e, made), NEW j \in 1..Len(entries)
       PROVE  e.token # entries[j].token
  <2> SUFFICES ASSUME e.token = <<p, made[p] + j>> PROVE FALSE
    BY <1>4
  <2>1. p \in Page /\ made[p] + j \in Int
    BY <1>3 DEF Page
  <2>2. made[p] + j <= made[p]
    BY <1>3, <1>12, <2>1, CountsToken
  <2> QED
    BY <1>1, <1>3, <2>2
<1>13. ASSUME NEW q \in Pages
       PROVE  /\ \A i \in 1..Len(outbox'[q]) :
                   /\ outbox'[q][i].page = q /\ Counts(outbox'[q][i], made')
                   /\ outbox'[q][i].op.type # "restore_version"
              /\ \A i, j \in 1..Len(outbox'[q]) :
                   outbox'[q][i].token = outbox'[q][j].token => i = j
              /\ \A i \in 1..Len(ledger), j \in 1..Len(outbox'[q]) :
                   ledger[i].token # outbox'[q][j].token
  <2>1. CASE q # p
    <3>1. outbox'[q] = outbox[q]
      BY <1>1, <2>1
    <3>2. \A i \in 1..Len(outbox[q]) : Counts(outbox'[q][i], made')
      BY <1>7, <1>10, <3>1 DEF Counted
    <3> QED
      BY <3>1, <3>2 DEF Counted
  <2>2. CASE q = p
    <3>1. ASSUME NEW i \in 1..Len(outbox'[p])
          PROVE  /\ outbox'[p][i].page = p /\ Counts(outbox'[p][i], made')
                 /\ outbox'[p][i].op.type # "restore_version"
                 /\ \A k \in 1..Len(ledger) : ledger[k].token # outbox'[p][i].token
      <4>1. CASE i \in 1..Len(outbox[p]) /\ outbox'[p][i] = outbox[p][i]
        <5>1. Counts(outbox[p][i], made)
          BY <4>1 DEF Counted
        <5>2. outbox'[p][i].page \in Page
          BY <1>10, <4>1
        <5>3. Counts(outbox'[p][i], made')
          BY <1>7, <4>1, <5>1, <5>2
        <5> QED
          BY <4>1, <5>3 DEF Counted
      <4>2. CASE \E j \in 1..Len(entries) : i = Len(outbox[p]) + j /\ outbox'[p][i] = entries[j]
        <5>1. PICK j \in 1..Len(entries) : outbox'[p][i] = entries[j]
          BY <4>2
        <5>2. Counts(outbox'[p][i], made')
          BY <1>8, <5>1
        <5>3. \A k \in 1..Len(ledger) : ledger[k].token # entries[j].token
          BY <1>9, <1>12 DEF Counted
        <5> QED
          BY <1>4, <5>1, <5>2, <5>3
      <4> QED
        BY <1>1, <4>1, <4>2
    <3>2. ASSUME NEW i \in 1..Len(outbox'[p]), NEW j \in 1..Len(outbox'[p]),
                 outbox'[p][i].token = outbox'[p][j].token
          PROVE  i = j
      <4>1. CASE /\ i \in 1..Len(outbox[p]) /\ outbox'[p][i] = outbox[p][i]
                 /\ j \in 1..Len(outbox[p]) /\ outbox'[p][j] = outbox[p][j]
        BY <3>2, <4>1 DEF Counted
      <4>2. CASE /\ i \in 1..Len(outbox[p]) /\ outbox'[p][i] = outbox[p][i]
                 /\ \E k \in 1..Len(entries) : j = Len(outbox[p]) + k /\ outbox'[p][j] = entries[k]
        <5>1. outbox[p][i] \in SoundEntry /\ Counts(outbox[p][i], made)
          BY <1>10, <4>2 DEF Counted
        <5> QED
          BY <1>12, <3>2, <4>2, <5>1
      <4>3. CASE /\ j \in 1..Len(outbox[p]) /\ outbox'[p][j] = outbox[p][j]
                 /\ \E k \in 1..Len(entries) : i = Len(outbox[p]) + k /\ outbox'[p][i] = entries[k]
        <5>1. outbox[p][j] \in SoundEntry /\ Counts(outbox[p][j], made)
          BY <1>10, <4>3 DEF Counted
        <5> QED
          BY <1>12, <3>2, <4>3, <5>1
      <4>4. CASE /\ \E k \in 1..Len(entries) : i = Len(outbox[p]) + k /\ outbox'[p][i] = entries[k]
                 /\ \E k \in 1..Len(entries) : j = Len(outbox[p]) + k /\ outbox'[p][j] = entries[k]
        <5>1. PICK k \in 1..Len(entries) : i = Len(outbox[p]) + k /\ outbox'[p][i] = entries[k]
          BY <4>4
        <5>2. PICK m \in 1..Len(entries) : j = Len(outbox[p]) + m /\ outbox'[p][j] = entries[m]
          BY <4>4
        <5>3. <<p, made[p] + k>> = <<p, made[p] + m>>
          BY <1>4, <3>2, <5>1, <5>2
        <5>4. made[p] + k = made[p] + m
          BY <5>3
        <5>5. k = m
          BY <1>1, <1>3, <5>4
        <5> QED
          BY <5>1, <5>2, <5>5
      <4> QED
        BY <1>1, <4>1, <4>2, <4>3, <4>4
    <3> QED
      BY <2>2, <3>1, <3>2
  <2> QED
    BY <2>1, <2>2
<1>14. \A i, j \in 1..Len(ledger') : ledger'[i].token = ledger'[j].token => i = j
  BY <1>2 DEF Counted
<1>15. \A q \in Pages : \A i \in 1..Len(ledger'), j \in 1..Len(outbox'[q]) :
         ledger'[i].token # outbox'[q][j].token
  BY <1>2, <1>13
<1> QED
  BY <1>5, <1>11, <1>13, <1>14, <1>15 DEF Counted


\* The entries there are, and those of a page.
LEMMA EntriesSound ==
  ASSUME Typed
  PROVE  /\ \A e \in Entries : e \in SoundEntry /\ e.page \in Page /\ e.op \in SoundServerOp
         /\ Elements(ledger) = {ledger[i] : i \in 1..Len(ledger)}
         /\ \A p \in Pages : Elements(outbox[p]) = {outbox[p][i] : i \in 1..Len(outbox[p])}
<1>1. /\ \A i \in 1..Len(ledger) : ledger[i] \in SoundEntry
      /\ Elements(ledger) = {ledger[i] : i \in 1..Len(ledger)}
  BY ElementsAre, ElementOfSeq DEF Typed
<1>2. ASSUME NEW p \in Pages
      PROVE  /\ \A i \in 1..Len(outbox[p]) : outbox[p][i] \in SoundEntry
             /\ Elements(outbox[p]) = {outbox[p][i] : i \in 1..Len(outbox[p])}
  <2>1. outbox[p] \in Seq(SoundEntry)
    BY DEF Typed
  <2> QED
    BY <2>1, ElementsAre, ElementOfSeq
<1>3. \A e \in Entries : e \in SoundEntry
  BY <1>1, <1>2 DEF Entries
<1>4. \A e \in SoundEntry : e.page \in Page /\ e.op \in SoundServerOp
  BY DEF SoundEntry
<1> QED
  BY <1>1, <1>2, <1>3, <1>4

LEMMA MakesEntries ==
  ASSUME Typed, Bounded, NEW p \in Pages, NEW entries, NEW steps, NEW next,
         Makes(p, entries, steps, next)
  PROVE  /\ Elements(ledger') = Elements(ledger)
         /\ \A q \in Pages : Elements(outbox[q]) \subseteq Elements(outbox'[q])
         /\ Entries \subseteq Entries'
         /\ \A e \in Entries' : e \in Entries \/ \E i \in 1..Len(entries) : e = entries[i]
<1>1. Emitted(p, entries) /\ Typed' /\ ledger' = ledger
  <2>1. Emitted(p, entries)
    BY MakesOutbox
  <2>2. Typed'
    BY MakesTyped
  <2> QED
    BY <2>1, <2>2 DEF Makes
<1>2. \A q \in Pages : Elements(outbox[q]) = {outbox[q][i] : i \in 1..Len(outbox[q])}
  BY EntriesSound
<1>3. ASSUME NEW q \in Pages PROVE Elements(outbox'[q]) = {outbox'[q][i] : i \in 1..Len(outbox'[q])}
  <2>1. outbox'[q] \in Seq(SoundEntry)
    BY <1>1 DEF Typed
  <2> QED
    BY <2>1, ElementsAre
<1>4. \A q \in Pages : q # p => outbox'[q] = outbox[q]
  BY <1>1 DEF Emitted
<1>5. Elements(outbox[p]) \subseteq Elements(outbox'[p])
  <2>1. \A i \in 1..Len(outbox[p]) : outbox'[p][i] = outbox[p][i] /\ i \in 1..Len(outbox'[p])
    BY <1>1 DEF Emitted
  <2>2. Elements(outbox'[p]) = {outbox'[p][i] : i \in 1..Len(outbox'[p])}
    BY <1>3
  <2>3. \A i \in 1..Len(outbox[p]) : outbox[p][i] \in Elements(outbox'[p])
    BY <2>1, <2>2
  <2> QED
    BY <1>2, <2>3
<1>6. \A e \in Elements(outbox'[p]) :
        e \in Elements(outbox[p]) \/ \E i \in 1..Len(entries) : e = entries[i]
  <2>1. \A i \in 1..Len(outbox'[p]) :
          \/ i \in 1..Len(outbox[p]) /\ outbox'[p][i] = outbox[p][i]
          \/ \E j \in 1..Len(entries) : i = Len(outbox[p]) + j /\ outbox'[p][i] = entries[j]
    BY <1>1 DEF Emitted
  <2>2. Elements(outbox'[p]) = {outbox'[p][i] : i \in 1..Len(outbox'[p])}
    BY <1>3
  <2>3. \A i \in 1..Len(outbox[p]) : outbox[p][i] \in Elements(outbox[p])
    BY <1>2
  <2> SUFFICES ASSUME NEW i \in 1..Len(outbox'[p])
               PROVE  \/ outbox'[p][i] \in Elements(outbox[p])
                      \/ \E j \in 1..Len(entries) : outbox'[p][i] = entries[j]
    BY <2>2
  <2> QED
    BY <2>1, <2>3
<1>7. Elements(ledger') = Elements(ledger)
  BY <1>1
<1>8. \A q \in Pages : Elements(outbox[q]) \subseteq Elements(outbox'[q])
  BY <1>4, <1>5
<1>9. Entries \subseteq Entries'
  BY <1>7, <1>8 DEF Entries
<1>10. ASSUME NEW e \in Entries' PROVE e \in Entries \/ \E i \in 1..Len(entries) : e = entries[i]
  <2>1. e \in Elements(ledger) \/ \E q \in Pages : e \in Elements(outbox'[q])
    BY <1>7 DEF Entries
  <2> QED
    BY <1>4, <1>6, <2>1 DEF Entries
<1> QED
  BY <1>7, <1>8, <1>9, <1>10

LEMMA MakesNamed ==
  ASSUME Typed, Bounded, Named, NEW p \in Pages, NEW entries, NEW steps, NEW next,
         Makes(p, entries, steps, next)
  PROVE  Named' /\ (NamedApart' => NamedApart)
<1>1. /\ Elements(ledger') = Elements(ledger)
      /\ \A q \in Pages : Elements(outbox[q]) \subseteq Elements(outbox'[q])
      /\ \A e \in Entries' : e \in Entries \/ \E i \in 1..Len(entries) : e = entries[i]
  BY MakesEntries
<1>2. /\ \A i \in 1..Len(entries) :
           /\ entries[i].page = p
           /\ Drawing(entries[i]) =>
                /\ Len(entries[i].op.id) = 2 => entries[i].op.id[1] = p
                /\ Number(entries[i].op.id) \in Nat
                /\ nextId[p] <= Number(entries[i].op.id) /\ Number(entries[i].op.id) < nextId'[p]
      /\ \A i, j \in 1..Len(entries) : Drawing(entries[i]) /\ Drawing(entries[j]) => i = j
  BY DEF Makes, Drafts
<1>3. /\ nextId \in [Pages -> Nat] /\ nextId' \in [Pages -> Nat]
      /\ \A q \in Pages : nextId[q] <= nextId'[q]
  BY DEF Typed, Makes
<1>4. p # Nobody
  BY PagesAssumption
<1>5. \A e \in Entries : e.page \in Page
  BY EntriesSound
<1>6. ASSUME NEW e \in Entries', Drawing(e)
      PROVE  /\ Len(e.op.id) = 2 => e.op.id[1] = e.page
             /\ e.page = Nobody => Len(e.op.id) = 2
             /\ e.page # Nobody => Number(e.op.id) \in Nat /\ Number(e.op.id) < nextId'[e.page]
  <2>1. CASE e \in Entries
    <3>1. /\ Len(e.op.id) = 2 => e.op.id[1] = e.page
          /\ e.page = Nobody => Len(e.op.id) = 2
          /\ e.page # Nobody => Number(e.op.id) \in Nat /\ Number(e.op.id) < nextId[e.page]
      BY <1>6, <2>1 DEF Named
    <3>2. e.page # Nobody => e.page \in Pages
      BY <1>5, <2>1 DEF Page
    <3>3. e.page # Nobody => Number(e.op.id) < nextId'[e.page]
      <4> SUFFICES ASSUME e.page # Nobody PROVE Number(e.op.id) < nextId'[e.page]
        OBVIOUS
      <4>1. /\ nextId[e.page] \in Nat /\ nextId'[e.page] \in Nat
            /\ nextId[e.page] <= nextId'[e.page]
        BY <1>3, <3>2
      <4> QED
        BY <3>1, <4>1
    <3> QED
      BY <3>1, <3>3
  <2>2. CASE \E i \in 1..Len(entries) : e = entries[i]
    BY <1>2, <1>4, <1>6, <2>2
  <2> QED
    BY <1>1, <2>1, <2>2
<1>7. ASSUME NEW e \in Entries, NEW j \in 1..Len(entries),
             Drawing(e), Drawing(entries[j]), e.page = p
      PROVE  Number(e.op.id) # Number(entries[j].op.id)
  <2>1. Number(e.op.id) \in Nat /\ Number(e.op.id) < nextId[p]
    BY <1>4, <1>7 DEF Named
  <2>2. Number(entries[j].op.id) \in Nat /\ nextId[p] <= Number(entries[j].op.id)
    BY <1>2, <1>7
  <2>3. nextId[p] \in Nat
    BY <1>3
  <2> QED
    BY <2>1, <2>2, <2>3
<1>8. ASSUME NEW e \in Entries', NEW f \in Entries', Drawing(e), Drawing(f),
             e.page = f.page, Number(e.op.id) = Number(f.op.id)
      PROVE  e.token = f.token
  <2>1. CASE e \in Entries /\ f \in Entries
    BY <1>8, <2>1 DEF Named
  <2>2. CASE e \in Entries /\ \E i \in 1..Len(entries) : f = entries[i]
    BY <1>2, <1>7, <1>8, <2>2
  <2>3. CASE f \in Entries /\ \E i \in 1..Len(entries) : e = entries[i]
    BY <1>2, <1>7, <1>8, <2>3
  <2>4. CASE (\E i \in 1..Len(entries) : e = entries[i]) /\ (\E i \in 1..Len(entries) : f = entries[i])
    BY <1>2, <1>8, <2>4
  <2> QED
    BY <1>1, <2>1, <2>2, <2>3, <2>4
<1>9. \A q \in Pages : Pieces(q) \subseteq Pieces(q)'
  BY <1>1 DEF Pieces
<1>10. NamedApart' => NamedApart
  BY <1>9 DEF NamedApart
<1> QED
  BY <1>6, <1>8, <1>10 DEF Named


\* A step that is an operation of the ledger or of the outbox has been counted.
LEMMA OwnedCounted ==
  ASSUME Typed, Counted, Owned, NEW p \in Pages, NEW q \in Pages, NEW n \in Int, n > made[q]
  PROVE  <<q, n>> \notin AllApplied(p)
<1> SUFFICES ASSUME <<q, n>> \in AllApplied(p) PROVE FALSE
  OBVIOUS
<1>1. made[q] \in Nat /\ made \in [Pages -> Nat] /\ q \in Page
  BY DEF Typed, Page
<1>2. n > 0
  BY <1>1
<1>3. <<q, n>> \in TokensIn(ledger) \cup TokensIn(outbox[p])
  BY <1>1, <1>2 DEF Owned
<1>4. PICK e \in SoundEntry : Counts(e, made) /\ e.token = <<q, n>>
  <2>1. CASE <<q, n>> \in TokensIn(ledger)
    <3>1. PICK i \in 1..Len(ledger) : ledger[i].token = <<q, n>>
      BY <2>1 DEF TokensIn
    <3>2. ledger[i] \in SoundEntry /\ Counts(ledger[i], made)
      BY EntryFacts DEF Typed, Counted
    <3> QED
      BY <3>1, <3>2
  <2>2. CASE <<q, n>> \in TokensIn(outbox[p])
    <3>1. PICK i \in 1..Len(outbox[p]) : outbox[p][i].token = <<q, n>>
      BY <2>2 DEF TokensIn
    <3>2. outbox[p] \in Seq(SoundEntry) /\ Counts(outbox[p][i], made)
      BY DEF Typed, Counted
    <3>3. outbox[p][i] \in SoundEntry
      BY <3>2, EntryFacts
    <3> QED
      BY <3>1, <3>2, <3>3
  <2> QED
    BY <1>3, <2>1, <2>2
<1>5. n <= made[q]
  BY <1>1, <1>4, CountsToken
<1> QED
  BY <1>1, <1>5

\* What a page has applied after a gesture.
LEMMA MakesApplied ==
  ASSUME Typed, Bounded, NEW p \in Pages, NEW entries, NEW steps, NEW next,
         Makes(p, entries, steps, next)
  PROVE  /\ \A q \in Pages : q # p => AllApplied(q)' = AllApplied(q)
         /\ AllApplied(p)' = Elements(steps) \cup TokensIn(entries)
         /\ Elements(steps) \in {AllApplied(p), AllApplied(p) \cup {Stale(p)}}
         /\ Stale(p) \in Elements(steps) \/ steps = applied[p]
<1>1. /\ entries \in Seq(SoundEntry) /\ steps \in Seq(Step) /\ applied[p] \in Seq(Step)
      /\ Stale(p) \in Step
  <2>1. steps \in Seq(Step)
    BY MakesTyped
  <2> QED
    BY <2>1 DEF Makes, Drafts, Typed, Stale, Step, Page
<1>2. /\ Tokens(entries) \in Seq(Step)
      /\ Elements(Tokens(entries)) = TokensIn(entries)
  <2>1. /\ Tokens(entries) \in Seq(Step) /\ Len(Tokens(entries)) = Len(entries)
        /\ \A i \in 1..Len(entries) : Tokens(entries)[i] = entries[i].token
    BY <1>1, EntryFacts
  <2>2. Elements(Tokens(entries)) = {Tokens(entries)[i] : i \in 1..Len(entries)}
    BY <2>1, ElementsAre
  <2> QED
    BY <2>1, <2>2 DEF TokensIn
<1>3. applied'[p] = steps \o Tokens(entries) /\ \A q \in Pages : q # p => applied'[q] = applied[q]
  BY DEF Makes, Typed
<1>4. Elements(applied'[p]) = Elements(steps) \cup TokensIn(entries)
  BY <1>1, <1>2, <1>3, ElementsConcat
<1>5. steps = applied[p] \/ steps = Marked(applied[p], Stale(p))
  BY DEF Makes
<1>6. Elements(Marked(applied[p], Stale(p))) = Elements(applied[p]) \cup {Stale(p)}
  BY <1>1, MarkedFacts
<1> QED
  BY <1>3, <1>4, <1>5, <1>6 DEF AllApplied

LEMMA MakesOwned ==
  ASSUME Typed, Bounded, Owned, Watched, NEW p \in Pages, NEW entries, NEW steps, NEW next,
         Makes(p, entries, steps, next)
  PROVE  Owned' /\ Watched'
<1>1. /\ \A q \in Pages : q # p => AllApplied(q)' = AllApplied(q)
      /\ AllApplied(p)' = Elements(steps) \cup TokensIn(entries)
      /\ Elements(steps) \in {AllApplied(p), AllApplied(p) \cup {Stale(p)}}
  BY MakesApplied
<1>2. /\ Emitted(p, entries) /\ ledger' = ledger /\ polls' = polls
      /\ \A q \in Pages : q # p => version'[q] = version[q]
  <2>1. Emitted(p, entries)
    BY MakesOutbox
  <2> QED
    BY <2>1 DEF Makes, Typed
<1>3. /\ \A q \in Pages : q # p => outbox'[q] = outbox[q] /\ made'[q] = made[q]
      /\ made'[p] = made[p] + Len(entries) /\ Len(entries) \in 1..2
  BY <1>2 DEF Emitted
<1>4. made[p] \in Nat
  BY DEF Typed
<1>5. TokensIn(outbox[p]) \subseteq TokensIn(outbox'[p])
  <2>1. \A i \in 1..Len(outbox[p]) : outbox'[p][i] = outbox[p][i] /\ i \in 1..Len(outbox'[p])
    BY <1>2 DEF Emitted
  <2>2. \A i \in 1..Len(outbox[p]) : outbox[p][i].token \in TokensIn(outbox'[p])
    BY <2>1 DEF TokensIn
  <2> QED
    BY <2>2 DEF TokensIn
<1>6. TokensIn(entries) \subseteq TokensIn(outbox'[p])
  <2>1. \A j \in 1..Len(entries) :
          outbox'[p][Len(outbox[p]) + j] = entries[j] /\ Len(outbox[p]) + j \in 1..Len(outbox'[p])
    BY <1>2 DEF Emitted
  <2>2. \A j \in 1..Len(entries) : entries[j].token \in TokensIn(outbox'[p])
    <3> SUFFICES ASSUME NEW j \in 1..Len(entries)
                 PROVE  \E i \in 1..Len(outbox'[p]) : outbox'[p][i].token = entries[j].token
      BY DEF TokensIn
    <3>1. outbox'[p][Len(outbox[p]) + j] = entries[j] /\ Len(outbox[p]) + j \in 1..Len(outbox'[p])
      BY <2>1
    <3> QED
      BY <3>1
  <2> QED
    BY <2>2 DEF TokensIn
<1>7. ASSUME NEW q \in Pages, NEW r \in Page, NEW n \in Int, n > 0, <<r, n>> \in AllApplied(q)'
      PROVE  <<r, n>> \in TokensIn(ledger') \cup TokensIn(outbox'[q])
  <2>1. CASE q # p
    BY <1>1, <1>2, <1>3, <1>7, <2>1 DEF Owned
  <2>2. CASE q = p
    <3>1. <<r, n>> # Stale(p)
      BY <1>7 DEF Stale
    <3>2. <<r, n>> \in AllApplied(p) \/ <<r, n>> \in TokensIn(entries)
      BY <1>1, <1>7, <2>2, <3>1
    <3>3. <<r, n>> \in AllApplied(p) => <<r, n>> \in TokensIn(ledger) \cup TokensIn(outbox[p])
      BY <1>7 DEF Owned
    <3> QED
      BY <1>2, <1>5, <1>6, <2>2, <3>2, <3>3
  <2> QED
    BY <2>1, <2>2
<1>8. ~ Watches(p)'
  <2>1. \A k \in 1..2 : made[p] + k # 0
    BY <1>4
  <2>2. made'[p] # 0
    BY <1>3, <2>1
  <2> QED
    BY <2>2 DEF Watches
<1>9. \A q \in Pages : q # p => (Watches(q)' <=> Watches(q)) /\ applied'[q] = applied[q]
  BY <1>1, <1>3 DEF Watches, Makes, Typed
<1>10. Watched'
  <2> SUFFICES ASSUME NEW q \in Pages, Watches(q)'
               PROVE  /\ Covers(ledger', version'[q], applied'[q])
                      /\ \A i \in 1..Len(polls'[q]) : ~ polls'[q][i].late =>
                           Covers(ledger', polls'[q][i].cursor, applied'[q])
    BY DEF Watched
  <2>1. q # p
    BY <1>8
  <2> QED
    BY <1>2, <1>9, <2>1 DEF Watched
<1> QED
  BY <1>7, <1>10 DEF Owned


LEMMA LoggedNext ==
  ASSUME Typed', Counted', Named', NamedApart'
  PROVE  \A p \in Pages : Logged(Log(p)')
<1>1. (Typed /\ Counted /\ Named /\ NamedApart => \A p \in Pages : Logged(Log(p)))'
  BY LoggedNow, PTL
<1> QED
  BY <1>1

\* What a page has applied is in its log, so an entry that is new to the log is
\* new to the page; a gesture's entries are applied one after the other.
LEMMA MakesFollowed ==
  ASSUME Typed, Bounded, Counted, Named, Owned, Followed,
         NEW p \in Pages, NEW entries, NEW steps, NEW next,
         Makes(p, entries, steps, next)
  PROVE  Followed'
<1> SUFFICES ASSUME NamedApart', NEW q \in Pages
             PROVE  Follower(q, Log(q)', board'[q], applied'[q])
  BY DEF Followed
<1>1. /\ Typed' /\ steps \in Seq(Step) /\ Counted' /\ Named' /\ NamedApart
  <2>1. Typed' /\ steps \in Seq(Step)
    BY MakesTyped
  <2>2. Counted'
    BY MakesCounted
  <2>3. Named' /\ NamedApart
    BY MakesNamed
  <2> QED
    BY <2>1, <2>2, <2>3
<1>2. Follower(q, Log(q), board[q], applied[q])
  BY <1>1 DEF Followed
<1>3. CASE q # p
  <2>1. /\ ledger' = ledger /\ outbox'[q] = outbox[q] /\ board'[q] = board[q]
        /\ applied'[q] = applied[q]
    BY <1>3 DEF Makes, Typed
  <2>2. Log(q)' = Log(q)
    BY <2>1 DEF Log
  <2> QED
    BY <1>2, <2>1, <2>2
<1>4. CASE q = p
  <2> DEFINE L == Log(p)
             M == L \o entries
             l == Len(L)
             k == Len(entries)
             b == board[p]
             mine == applied[p]
  <2>1. /\ entries \in Seq(SoundEntry) /\ k \in 1..2
        /\ \A i \in 1..k : entries[i].token = <<p, made[p] + i>>
                           /\ entries[i].op.type # "restore_version"
        /\ Leads(p, b, entries, steps, next)
        /\ ledger' = ledger /\ outbox'[p] = outbox[p] \o entries
        /\ board'[p] = next /\ applied'[p] = steps \o Tokens(entries)
    BY DEF Makes, Drafts, Typed
  <2>2. L \in Seq(SoundEntry) /\ b \in SoundBoard /\ mine \in Seq(Step) /\ made[p] \in Nat
    BY LogFacts DEF Typed
  <2>3. Log(p)' = M
    <3>1. ledger \in Seq(SoundEntry) /\ outbox[p] \in Seq(SoundEntry)
      BY DEF Typed
    <3>2. (ledger \o outbox[p]) \o entries = ledger \o (outbox[p] \o entries)
      <4> DEFINE S == SoundEntry
                 o == outbox[p]
      <4>1. ledger \in Seq(S) /\ o \in Seq(S) /\ entries \in Seq(S)
        BY <2>1, <3>1
      <4> HIDE DEF S, o
      <4>2. (ledger \o o) \o entries = ledger \o (o \o entries)
        BY <4>1, ConcatAssociative
      <4> QED
        BY <4>2 DEF o
    <3>3. Log(p)' = ledger' \o outbox'[p]
      BY DEF Log
    <3> QED
      BY <2>1, <3>2, <3>3 DEF Log
  <2>4. Logged(M)
    BY <1>1, <2>3, LoggedNext
  <2> HIDE DEF L
  <2>5. /\ M \in Seq(SoundEntry) /\ l \in Nat /\ k \in Nat /\ Len(M) = l + k
        /\ \A i \in 1..l : M[i] = L[i] /\ i \in 1..Len(M)
        /\ \A j \in 1..k : M[l + j] = entries[j] /\ l + j \in 1..Len(M)
    <3>1. M \in Seq(SoundEntry) /\ Joined(L, entries, M)
      BY <2>1, <2>2, ConcatPlaces
    <3> QED
      BY <3>1 DEF Joined
  <2> HIDE DEF M, l, k
  <2>6. Follower(p, M, b, mine)
    <3>1. \A i \in 1..k : entries[i].token \notin Elements(mine)
      <4> SUFFICES ASSUME NEW i \in 1..k PROVE <<p, made[p] + i>> \notin Elements(mine)
        BY <2>1
      <4>1. made[p] + i \in Int /\ made[p] + i > made[p]
        BY <2>2
      <4> QED
        BY <4>1, OwnedCounted DEF AllApplied
    <3>2. \A i \in l + 1..l + k : M[i].token \notin Elements(mine)
      <4> SUFFICES ASSUME NEW i \in l + 1..l + k PROVE M[i].token \notin Elements(mine)
        OBVIOUS
      <4>1. i - l \in 1..k /\ l + (i - l) = i
        BY <2>5
      <4>2. M[i] = entries[i - l]
        BY <2>5, <4>1
      <4> QED
        BY <3>1, <4>1, <4>2
    <3>3. Follower(p, L, b, mine)
      BY <1>2, <1>4 DEF L
    <3>4. l \in 0..Len(L) /\ k > 0 /\ Len(M) = Len(L) + k /\ \A i \in l + 1..Len(L) : FALSE
      BY <2>1, <2>5 DEF l
    <3>5. \A i \in 1..l : M[i] = L[i]
      BY <2>5
    <3>6. \A i \in l + 1..Len(L) : M[i + k] = L[i]
      BY <3>4
    <3> QED
      BY <2>2, <2>5, <3>2, <3>3, <3>4, <3>5, <3>6, FollowerKeeps
  <2>7. /\ Tokens(entries) \in Seq(Step) /\ Len(Tokens(entries)) = k
        /\ \A i \in 1..k : Tokens(entries)[i] = entries[i].token /\ entries[i].token \in Step
    BY <2>1, EntryFacts DEF k
  <2>8. Stale(p) \in Elements(steps) \/ steps = mine
    <3> HIDE DEF mine
    <3> QED
      BY MakesApplied DEF mine
  <2>9. CASE Stale(p) \in Elements(steps)
    <3>1. Elements(steps \o Tokens(entries)) = Elements(steps) \cup Elements(Tokens(entries))
      BY <1>1, <2>7, ElementsConcat
    <3>2. steps \o Tokens(entries) \in Seq(Step)
      BY <1>1, <2>7, ConcatProperties
    <3>3. Follower(p, M, next, steps \o Tokens(entries))
      BY <2>4, <2>5, <2>9, <3>1, <3>2, FollowerStale
    <3> QED
      BY <1>4, <2>1, <2>3, <3>3
  <2>10. CASE steps = mine /\ k = 1 /\ Follows(b, entries[1].op, next)
    <3>1. M[l + 1] = entries[1] /\ l + 1 \in 1..Len(M) /\ entries[1].op.type # "restore_version"
      BY <2>1, <2>5, <2>10
    <3>2. Follower(p, M, next, Append(mine, M[l + 1].token))
      BY <2>2, <2>4, <2>5, <2>6, <2>10, <3>1, FollowerAdvances
    <3>3. mine \o Tokens(entries) = Append(mine, entries[1].token)
      <4>1. entries[1].token \in Step /\ Tokens(entries) = <<entries[1].token>>
        BY <2>7, <2>10
      <4> QED
        BY <2>2, <4>1, AppendIsConcat
    <3> QED
      BY <1>4, <2>1, <2>3, <2>10, <3>1, <3>2, <3>3
  <2>11. CASE /\ steps = mine /\ k = 2
              /\ \E mid : Follows(b, entries[1].op, mid) /\ Follows(mid, entries[2].op, next)
    <3> PICK mid : Follows(b, entries[1].op, mid) /\ Follows(mid, entries[2].op, next)
      BY <2>11
    <3> DEFINE t1 == entries[1].token
               t2 == entries[2].token
    <3>1. /\ M[l + 1] = entries[1] /\ l + 1 \in 1..Len(M) /\ entries[1].op.type # "restore_version"
          /\ M[l + 2] = entries[2] /\ l + 2 \in 1..Len(M) /\ entries[2].op.type # "restore_version"
          /\ t1 \in Step /\ t2 \in Step /\ mid \in SoundBoard
      BY <2>1, <2>5, <2>7, <2>11 DEF Follows
    <3>2. Follower(p, M, mid, Append(mine, t1))
      <4> HIDE DEF b, mine
      <4>1. Follower(p, M, mid, Append(mine, M[l + 1].token))
        BY <2>2, <2>4, <2>5, <2>6, <3>1, FollowerAdvances
      <4> QED
        BY <3>1, <4>1
    <3>3. Append(mine, t1) \in Seq(Step)
      BY <2>2, <3>1, AppendProperties
    <3> HIDE DEF t1, t2
    <3>4. Follower(p, M, next, Append(Append(mine, t1), t2))
      <4>1. M[l + 2].token = t2
        BY <3>1 DEF t2
      <4>2. Follower(p, M, next, Append(Append(mine, t1), M[l + 2].token))
        BY <2>4, <2>5, <3>1, <3>2, <3>3, FollowerAdvances
      <4> QED
        BY <4>1, <4>2
    <3>5. mine \o Tokens(entries) = Append(Append(mine, t1), t2)
      <4>1. Tokens(entries) = <<t1, t2>>
        <5>1. <<t1, t2>> \in Seq(Step) /\ Len(<<t1, t2>>) = 2
              /\ <<t1, t2>>[1] = t1 /\ <<t1, t2>>[2] = t2
          BY <3>1
        <5>2. Tokens(entries)[1] = t1 /\ Tokens(entries)[2] = t2
          BY <2>7, <2>11 DEF t1, t2
        <5>3. \A i \in 1..2 : i = 1 \/ i = 2
          OBVIOUS
        <5> QED
          BY <2>7, <2>11, <5>1, <5>2, <5>3, SeqEqual
      <4>2. /\ <<t1>> \in Seq(Step) /\ <<t2>> \in Seq(Step) /\ <<t1>> \o <<t2>> = <<t1, t2>>
        BY <3>1, PairConcat
      <4>3. mine \o (<<t1>> \o <<t2>>) = (mine \o <<t1>>) \o <<t2>>
        BY <2>2, <4>2, ConcatAssociative
      <4>4. /\ Append(mine, t1) = mine \o <<t1>>
            /\ Append(Append(mine, t1), t2) = Append(mine, t1) \o <<t2>>
        BY <2>2, <3>1, <3>3, AppendIsConcat
      <4> QED
        BY <4>1, <4>2, <4>3, <4>4
    <3> QED
      BY <1>4, <2>1, <2>3, <2>11, <3>4, <3>5
  <2> QED
    BY <2>1, <2>8, <2>9, <2>10, <2>11 DEF Leads, k
<1> QED
  BY <1>3, <1>4


IInv ==
  Typed /\ Bounded /\ Counted /\ Named /\ Restored(ledger) /\ Owned /\ Watched /\ Followed

\* The user of a page makes a gesture.
LEMMA GestureKeeps ==
  ASSUME IInv, NEW p \in Pages, \E entries, steps, next : Makes(p, entries, steps, next)
  PROVE  IInv'
<1> PICK entries, steps, next : Makes(p, entries, steps, next)
  OBVIOUS
<1>1. Typed /\ Bounded /\ Counted /\ Named /\ Restored(ledger) /\ Owned /\ Watched /\ Followed
  BY DEF IInv
<1>2. Typed' /\ Bounded'
  BY <1>1, MakesTyped
<1>3. Counted'
  BY <1>1, MakesCounted
<1>4. Named'
  BY <1>1, MakesNamed
<1>5. Owned' /\ Watched'
  BY <1>1, MakesOwned
<1>6. Followed'
  BY <1>1, MakesFollowed
<1>7. Restored(ledger')
  BY <1>1 DEF Makes
<1> QED
  BY <1>2, <1>3, <1>4, <1>5, <1>6, <1>7 DEF IInv

-----------------------------------------------------------------------------
(* A page learns, or changes what only it knows: the logs stay as they are. *)

Turn(p) ==
  /\ ledger' = ledger /\ outbox' = outbox /\ made' = made /\ nextId' = nextId
  /\ \A q \in Pages : q # p =>
       board'[q] = board[q] /\ version'[q] = version[q] /\ polls'[q] = polls[q]
       /\ applied'[q] = applied[q]

\* What a page that only watches has to have applied.
Watching(n, requests, steps) ==
  /\ Covers(ledger, n, steps)
  /\ \A i \in 1..Len(requests) : ~ requests[i].late => Covers(ledger, requests[i].cursor, steps)

LEMMA TurnKeeps ==
  ASSUME IInv, NEW p \in Pages, Turn(p), Typed', Bounded',
         Watches(p)' => Watching(version'[p], polls'[p], applied'[p]),
         \A q \in Page, n \in Int : n > 0 /\ <<q, n>> \in Elements(applied'[p]) =>
           <<q, n>> \in Elements(applied[p]) \cup TokensIn(ledger),
         NamedApart => Follower(p, Log(p), board'[p], applied'[p])
  PROVE  IInv'
<1>1. Counted' /\ Restored(ledger')
  <2>1. Counted'
    BY DEF IInv, Turn, Counted, Total, Made
  <2> QED
    BY <2>1 DEF IInv, Turn
<1>2. Named' /\ (NamedApart' => NamedApart)
  <2>1. ledger' = ledger /\ outbox' = outbox /\ nextId' = nextId
    BY DEF Turn
  <2>2. Entries' = Entries
    BY <2>1 DEF Entries
  <2>3. Named'
    BY <2>1, <2>2 DEF IInv, Named
  <2>4. ASSUME NEW q \in Pages PROVE Pieces(q)' = Pieces(q)
    BY <2>1 DEF Pieces
  <2>5. NamedApart' => NamedApart
    BY <2>4 DEF NamedApart
  <2> QED
    BY <2>3, <2>5
<1>3. Owned'
  <2> SUFFICES ASSUME NEW q \in Pages, NEW r \in Page, NEW n \in Int,
                      n > 0, <<r, n>> \in Elements(applied'[q])
               PROVE  <<r, n>> \in TokensIn(ledger) \cup TokensIn(outbox[q])
    BY DEF Owned, AllApplied, Turn
  <2>1. <<r, n>> \in Elements(applied[q]) \cup TokensIn(ledger)
    BY DEF Turn
  <2>2. <<r, n>> \in Elements(applied[q]) => <<r, n>> \in TokensIn(ledger) \cup TokensIn(outbox[q])
    BY DEF IInv, Owned, AllApplied
  <2> QED
    BY <2>1, <2>2
<1>4. Watched'
  <2> SUFFICES ASSUME NEW q \in Pages, Watches(q)'
               PROVE  Watching(version'[q], polls'[q], applied'[q])
    BY DEF Watched, Watching, Turn
  <2>1. CASE q = p
    BY <2>1
  <2>2. CASE q # p
    <3>1. /\ version'[q] = version[q] /\ polls'[q] = polls[q] /\ applied'[q] = applied[q]
          /\ made' = made
      BY <2>2 DEF Turn
    <3>2. Watches(q)
      BY <3>1 DEF Watches, AllApplied
    <3> QED
      BY <3>1, <3>2 DEF IInv, Watched, Watching
  <2> QED
    BY <2>1, <2>2
<1>5. Followed'
  <2> SUFFICES ASSUME NamedApart', NEW q \in Pages
               PROVE  Follower(q, Log(q)', board'[q], applied'[q])
    BY DEF Followed
  <2>1. Log(q)' = Log(q)
    BY DEF Log, Turn
  <2>2. CASE q = p
    BY <1>2, <2>1, <2>2
  <2>3. CASE q # p
    <3>1. board'[q] = board[q] /\ applied'[q] = applied[q]
      BY <2>3 DEF Turn
    <3> QED
      BY <1>2, <2>1, <3>1 DEF IInv, Followed
  <2> QED
    BY <2>2, <2>3
<1> QED
  BY <1>1, <1>2, <1>3, <1>4, <1>5 DEF IInv

\* A step that leaves the board and what is applied to it alone.
LEMMA ApartKeeps ==
  ASSUME IInv, NEW p \in Pages, Turn(p), Typed', Bounded', board' = board, applied' = applied,
         Watches(p) => Watching(version'[p], polls'[p], applied[p])
  PROVE  IInv'
<1>1. Watches(p)' => Watching(version'[p], polls'[p], applied'[p])
  BY DEF Watches, Turn, AllApplied
<1>2. NamedApart => Follower(p, Log(p), board'[p], applied'[p])
  BY DEF IInv, Followed
<1> QED
  BY <1>1, <1>2, TurnKeeps

LEMMA BeginKeeps ==
  ASSUME IInv, NEW p \in Pages, NEW gesture \in {"move", "resize"}, NEW stroke \in Shown(p),
         Begin(p, gesture, stroke)
  PROVE  IInv'
<1>1. stroke \in Stroke
  BY FoundById DEF IInv, Typed, Shown
<1>2. <<[gesture |-> gesture, stroke |-> stroke]>> \in Holds
  BY <1>1 DEF Holds, Hold
<1>3. /\ held' \in [Pages -> Holds]
      /\ UNCHANGED <<ledger, board, version, nextId, outbox, made, heard, polls, loads, applied, undos>>
  BY <1>2 DEF Begin, IInv, Typed, netVars
<1>4. Typed' /\ Bounded'
  BY <1>3 DEF IInv, Typed, Bounded, Asks
<1>5. Watches(p) => Watching(version'[p], polls'[p], applied[p])
  BY <1>3 DEF IInv, Watched, Watching
<1> QED
  BY <1>3, <1>4, <1>5, ApartKeeps DEF Turn

LEMMA CancelKeeps ==
  ASSUME IInv, NEW p \in Pages, Cancel(p)
  PROVE  IInv'
<1>1. /\ held' \in [Pages -> Holds]
      /\ UNCHANGED <<ledger, board, version, nextId, outbox, made, heard, polls, loads, applied, undos>>
  BY DEF Cancel, IInv, Typed, netVars, Holds
<1>2. Typed' /\ Bounded'
  BY <1>1 DEF IInv, Typed, Bounded, Asks
<1>3. Watches(p) => Watching(version'[p], polls'[p], applied[p])
  BY <1>1 DEF IInv, Watched, Watching
<1> QED
  BY <1>1, <1>2, <1>3, ApartKeeps DEF Turn

LEMMA ConnectKeeps ==
  ASSUME IInv, NEW p \in Pages, Connect(p)
  PROVE  IInv'
<1>1. /\ heard' = [heard EXCEPT ![p] = Len(ledger)]
      /\ UNCHANGED <<ledger, board, version, nextId, held, outbox, made, polls, loads, applied, undos>>
  BY DEF Connect, pageVars
<1>2. Len(ledger) \in Nat
  BY LenProperties DEF IInv, Typed
<1>3. Typed'
  BY <1>1, <1>2 DEF IInv, Typed
<1>4. Bounded'
  <2>1. \A q \in Pages : heard'[q] = heard[q] \/ heard'[q] = Len(ledger)
    BY <1>1 DEF IInv, Typed
  <2>2. \A q \in Pages : Connecting <= heard'[q] /\ heard'[q] <= Len(ledger)
    BY <1>2, <2>1 DEF IInv, Bounded, Connecting
  <2> QED
    BY <1>1, <2>2 DEF IInv, Bounded, Asks
<1>5. Watches(p) => Watching(version'[p], polls'[p], applied[p])
  BY <1>1 DEF IInv, Watched, Watching
<1> QED
  BY <1>1, <1>3, <1>4, <1>5, ApartKeeps DEF Turn

LEMMA AskKeeps ==
  ASSUME IInv, NEW p \in Pages, Ask(p)
  PROVE  IInv'
<1> DEFINE poll == [cursor |-> version[p], since |-> Len(ledger), late |-> FALSE]
           s == polls[p]
<1>1. /\ Len(s) + Len(loads[p]) < MaxRequests
      /\ polls' = [polls EXCEPT ![p] = Append(s, poll)]
      /\ UNCHANGED <<ledger, board, version, nextId, held, outbox, made, heard, loads, applied, undos>>
  BY DEF Ask, pageVars
<1>2. Len(ledger) \in Nat /\ version[p] \in Nat /\ s \in Seq(Poll) /\ loads[p] \in Seq(Request)
  BY LenProperties DEF IInv, Typed
<1>3. poll \in Poll /\ poll.cursor = version[p]
  BY <1>2 DEF Poll
<1> HIDE DEF poll
<1>4. /\ Append(s, poll) \in Seq(Poll) /\ Len(s) \in Nat /\ Len(loads[p]) \in Nat
      /\ Len(Append(s, poll)) = Len(s) + 1
      /\ \A i \in 1..Len(s) : Append(s, poll)[i] = s[i]
      /\ Append(s, poll)[Len(s) + 1] = poll
  BY <1>2, <1>3, AppendProperties
<1>5. polls'[p] = Append(s, poll) /\ \A q \in Pages : q # p => polls'[q] = polls[q]
  BY <1>1 DEF IInv, Typed
<1>6. Typed'
  BY <1>1, <1>4 DEF IInv, Typed
<1>7. Len(polls'[p]) <= MaxRequests
  <2>1. \A n, m, k \in Nat : n + m < k => n + 1 <= k
    OBVIOUS
  <2> QED
    BY <1>1, <1>4, <1>5, <2>1, BoundsAssumption
<1>8. Bounded'
  BY <1>1, <1>5, <1>7 DEF IInv, Bounded, Asks
<1>9. Watches(p) => Watching(version'[p], polls'[p], applied[p])
  <2> SUFFICES ASSUME Watches(p) PROVE Watching(version[p], Append(s, poll), applied[p])
    BY <1>1, <1>5
  <2>1. /\ Covers(ledger, version[p], applied[p])
        /\ \A i \in 1..Len(s) : ~ s[i].late => Covers(ledger, s[i].cursor, applied[p])
    BY DEF IInv, Watched
  <2>2. \A i \in 1..Len(s) + 1 : i \in 1..Len(s) \/ i = Len(s) + 1
    BY <1>4
  <2> QED
    BY <1>3, <1>4, <2>1, <2>2 DEF Watching
<1> QED
  BY <1>1, <1>5, <1>6, <1>8, <1>9, ApartKeeps DEF Turn


\* What is left of a list of requests when one of them is answered.
LEMMA OthersFacts ==
  ASSUME NEW S, NEW s \in Seq(S), NEW i \in 1..Len(s)
  PROVE  /\ Others(s, i) \in Seq(S) /\ Len(Others(s, i)) = Len(s) - 1
         /\ \A j \in 1..Len(Others(s, i)) : \E k \in 1..Len(s) : Others(s, i)[j] = s[k]
<1> DEFINE n == Len(s)
           before == SubSeq(s, 1, i - 1)
           behind == SubSeq(s, i + 1, n)
<1>1. n \in Nat /\ i \in 1..n /\ \A k \in 1..n : s[k] \in S
  BY LenProperties, ElementOfSeq
<1>2. /\ before \in Seq(S) /\ Len(before) = i - 1
      /\ \A j \in 1..i - 1 : before[j] = s[j]
  <2>1. 1 \in Int /\ i - 1 \in Int /\ \A k \in 1..i - 1 : s[k] \in S
    BY <1>1
  <2>2. /\ before \in Seq(S) /\ Len(before) = IF 1 <= i - 1 THEN (i - 1) - 1 + 1 ELSE 0
        /\ \A j \in 1..(i - 1) - 1 + 1 : before[j] = s[1 + j - 1]
    BY <2>1, SubSeqProperties
  <2> QED
    BY <1>1, <2>2
<1>3. /\ behind \in Seq(S) /\ Len(behind) = n - i
      /\ \A j \in 1..n - i : behind[j] = s[i + j]
  <2> HIDE DEF n
  <2>1. i + 1 \in Int /\ n \in Int /\ \A k \in i + 1..n : s[k] \in S
    BY <1>1
  <2>2. /\ behind \in Seq(S) /\ Len(behind) = IF i + 1 <= n THEN n - (i + 1) + 1 ELSE 0
        /\ \A j \in 1..n - (i + 1) + 1 : behind[j] = s[(i + 1) + j - 1]
    BY <2>1, SubSeqProperties
  <2>3. n - (i + 1) + 1 = n - i /\ \A j \in 1..n - i : (i + 1) + j - 1 = i + j
    BY <1>1
  <2> HIDE DEF behind
  <2>4. Len(behind) = n - i
    BY <1>1, <2>2
  <2> QED
    BY <2>2, <2>3, <2>4
<1> DEFINE u == before \o behind
<1> HIDE DEF n, before, behind, u
<1>4. /\ u \in Seq(S) /\ Len(u) = Len(before) + Len(behind)
      /\ \A j \in 1..Len(u) : \/ j \in 1..Len(before) /\ u[j] = before[j]
                              \/ \E k \in 1..Len(behind) : j = Len(before) + k /\ u[j] = behind[k]
  <2>1. u \in Seq(S) /\ Joined(before, behind, u)
    BY <1>2, <1>3, ConcatPlaces DEF u
  <2> QED
    BY <2>1 DEF Joined
<1>5. Len(u) = n - 1
  BY <1>1, <1>2, <1>3, <1>4
<1>6. ASSUME NEW j \in 1..Len(u) PROVE \E k \in 1..n : u[j] = s[k]
  <2>1. CASE j \in 1..Len(before) /\ u[j] = before[j]
    <3>1. j \in 1..n /\ before[j] = s[j]
      BY <1>1, <1>2, <2>1
    <3> QED
      BY <2>1, <3>1
  <2>2. CASE \E k \in 1..Len(behind) : j = Len(before) + k /\ u[j] = behind[k]
    <3>1. PICK k \in 1..n - i : u[j] = behind[k]
      BY <1>3, <2>2
    <3>2. i + k \in 1..n /\ behind[k] = s[i + k]
      BY <1>1, <1>3
    <3> QED
      BY <3>1, <3>2
  <2> QED
    BY <1>4, <2>1, <2>2
<1>7. Others(s, i) = u
  BY DEF Others, u, before, behind, n
<1> QED
  BY <1>4, <1>5, <1>6, <1>7 DEF n

LEMMA WatchingMore ==
  ASSUME NEW n, NEW requests, NEW steps, NEW more,
         Watching(n, requests, steps), Elements(steps) \subseteq Elements(more)
  PROVE  Watching(n, requests, more)
BY DEF Watching, Covers

LEMMA WatchingLess ==
  ASSUME NEW n, NEW s \in Seq(Poll), NEW i \in 1..Len(s), NEW steps,
         Watching(n, s, steps)
  PROVE  Watching(n, Others(s, i), steps)
<1>1. \A j \in 1..Len(Others(s, i)) : \E k \in 1..Len(s) : Others(s, i)[j] = s[k]
  BY OthersFacts
<1>2. /\ Covers(ledger, n, steps)
      /\ \A k \in 1..Len(s) : ~ s[k].late => Covers(ledger, s[k].cursor, steps)
  BY DEF Watching
<1>3. ASSUME NEW j \in 1..Len(Others(s, i)), ~ Others(s, i)[j].late
      PROVE  Covers(ledger, Others(s, i)[j].cursor, steps)
  <2>1. PICK k \in 1..Len(s) : Others(s, i)[j] = s[k]
    BY <1>1
  <2>2. ~ s[k].late
    BY <1>3, <2>1
  <2>3. Covers(ledger, s[k].cursor, steps)
    BY <1>2, <2>2
  <2> QED
    BY <2>1, <2>3
<1> QED
  BY <1>2, <1>3 DEF Watching

LEMMA PollFailsKeeps ==
  ASSUME IInv, NEW p \in Pages, NEW i \in DOMAIN polls[p], PollFails(p, i)
  PROVE  IInv'
<1> DEFINE s == polls[p]
           u == Others(s, i)
<1>1. /\ polls' = [polls EXCEPT ![p] = u]
      /\ UNCHANGED <<ledger, board, version, nextId, held, outbox, made, heard, loads, applied, undos>>
  BY DEF PollFails, pageVars
<1>2. s \in Seq(Poll)
  BY DEF IInv, Typed
<1>3. i \in 1..Len(s) /\ Len(s) \in Nat
  BY <1>2, LenProperties
<1> HIDE DEF s
<1>4. u \in Seq(Poll) /\ Len(u) = Len(s) - 1
  BY <1>2, <1>3, OthersFacts
<1> HIDE DEF u
<1>5. polls'[p] = u /\ \A q \in Pages : q # p => polls'[q] = polls[q]
  BY <1>1 DEF IInv, Typed
<1>6. Typed'
  BY <1>1, <1>4 DEF IInv, Typed
<1>7. Len(polls'[p]) <= MaxRequests
  <2>1. Len(s) <= MaxRequests
    BY DEF IInv, Bounded, s
  <2> QED
    BY <1>3, <1>4, <1>5, <2>1, BoundsAssumption
<1>8. Bounded'
  BY <1>1, <1>5, <1>7 DEF IInv, Bounded, Asks
<1>9. Watches(p) => Watching(version'[p], polls'[p], applied[p])
  <2> SUFFICES ASSUME Watches(p) PROVE Watching(version[p], u, applied[p])
    BY <1>1, <1>5
  <2>1. Watching(version[p], s, applied[p])
    BY DEF IInv, Watched, Watching, s
  <2> QED
    BY <1>2, <1>3, <2>1, WatchingLess DEF u
<1> QED
  BY <1>1, <1>5, <1>6, <1>8, <1>9, ApartKeeps DEF Turn

\* What a page does with its stacks is no operation.
LEMMA TravelKeeps ==
  ASSUME IInv, NEW p \in Pages, NEW next, next \in SoundBoard, Travel(p, next),
         \A known : Explained(board[p], known) => Explained(next, known)
  PROVE  IInv'
<1> DEFINE steps == applied[p]
           more == Marked(steps, <<p, 0>>)
<1>1. /\ undos < MaxUndos /\ undos' = undos + 1
      /\ board' = [board EXCEPT ![p] = next] /\ applied' = [applied EXCEPT ![p] = more]
      /\ UNCHANGED <<ledger, version, nextId, held, outbox, made, heard, polls, loads>>
  BY DEF Travel, Undone, netVars
<1>2. steps \in Seq(Step) /\ <<p, 0>> \in Step
  BY DEF IInv, Typed, Step, Page
<1>3. more \in Seq(Step) /\ Elements(more) = Elements(steps) \cup {<<p, 0>>}
  BY <1>2, MarkedFacts
<1> HIDE DEF more
<1>4. /\ board'[p] = next /\ applied'[p] = more
      /\ \A q \in Pages : q # p => board'[q] = board[q] /\ applied'[q] = applied[q]
  BY <1>1 DEF IInv, Typed
<1>5. Typed'
  BY <1>1, <1>3 DEF IInv, Typed
<1>6. Bounded'
  <2>1. undos' <= MaxUndos
    BY <1>1, BoundsAssumption DEF IInv, Typed
  <2> QED
    BY <1>1, <2>1 DEF IInv, Bounded, Asks
<1>7. Watches(p)' => Watching(version'[p], polls'[p], applied'[p])
  <2> SUFFICES ASSUME Watches(p)' PROVE Watching(version[p], polls[p], more)
    BY <1>1, <1>4
  <2>1. Watches(p)
    BY <1>1, <1>3, <1>4 DEF Watches, AllApplied
  <2>2. Watching(version[p], polls[p], steps)
    BY <2>1 DEF IInv, Watched, Watching
  <2> QED
    BY <1>3, <2>2, WatchingMore
<1>8. \A q \in Page, n \in Int : n > 0 /\ <<q, n>> \in Elements(applied'[p]) =>
        <<q, n>> \in Elements(applied[p]) \cup TokensIn(ledger)
  BY <1>3, <1>4
<1>9. NamedApart => Follower(p, Log(p), board'[p], applied'[p])
  <2> SUFFICES ASSUME NamedApart PROVE Follower(p, Log(p), next, more)
    BY <1>4
  <2>1. Follower(p, Log(p), board[p], steps) /\ Log(p) \in Seq(SoundEntry)
    BY LogFacts DEF IInv, Followed
  <2>2. Logged(Log(p))
    BY LoggedNow DEF IInv
  <2> QED
    BY <1>2, <2>1, <2>2, FollowerMarked DEF more
<1>10. Turn(p)
  BY <1>1, <1>4 DEF Turn
<1> QED
  BY <1>5, <1>6, <1>7, <1>8, <1>9, <1>10, TurnKeeps

LEMMA UndoKeeps ==
  ASSUME IInv, NEW p \in Pages, UndoLast(p) \/ RedoLast(p)
  PROVE  IInv'
<1>1. board[p] \in SoundBoard
  BY DEF IInv, Typed
<1>2. CASE UndoLast(p)
  <2>1. board[p].past # <<>> /\ Travel(p, Undo(board[p]))
    BY <1>2 DEF UndoLast
  <2>2. Undo(board[p]) \in SoundBoard
    BY <1>1, <2>1, UndoSound
  <2>3. \A known : Explained(board[p], known) => Explained(Undo(board[p]), known)
    BY <1>1, <2>1, ExplainedUndo
  <2> QED
    BY <2>1, <2>2, <2>3, TravelKeeps
<1>3. CASE RedoLast(p)
  <2>1. board[p].future # <<>> /\ Travel(p, Redo(board[p]))
    BY <1>3 DEF RedoLast
  <2>2. Redo(board[p]) \in SoundBoard
    BY <1>1, <2>1, RedoSound
  <2>3. \A known : Explained(board[p], known) => Explained(Redo(board[p]), known)
    BY <1>1, <2>1, ExplainedRedo
  <2> QED
    BY <2>1, <2>2, <2>3, TravelKeeps
<1> QED
  BY <1>2, <1>3


\* The requests a page has in flight, when it asks for the board once more.
AllAsk(requests) == \A i \in 1..Len(requests) : Asks(requests[i])

LEMMA FetchAsks ==
  ASSUME Typed, NEW requests \in Seq(Request), AllAsk(requests),
         NEW after \in Nat, NEW upTo \in Nat, after <= upTo, upTo <= Len(ledger)
  PROVE  LET more == Append(requests, Fetch(FALSE, after, upTo))
         IN  more \in Seq(Request) /\ AllAsk(more)
<1> DEFINE load == Fetch(FALSE, after, upTo)
           more == Append(requests, load)
           n == Len(requests)
<1>1. Len(ledger) \in Nat
  BY LenProperties DEF Typed
<1>2. load \in Request /\ Asks(load)
  BY <1>1 DEF Fetch, Request, Asks
<1> HIDE DEF load
<1>3. /\ more \in Seq(Request) /\ n \in Nat /\ Len(more) = n + 1
      /\ \A i \in 1..n : more[i] = requests[i]
      /\ more[n + 1] = load
  BY <1>2, AppendProperties
<1> HIDE DEF more, n
<1>4. \A i \in 1..n + 1 : i \in 1..n \/ i = n + 1
  BY <1>3
<1>5. AllAsk(more)
  BY <1>2, <1>3, <1>4 DEF AllAsk, n
<1> QED
  BY <1>3, <1>5 DEF more, load

LEMMA HearKeeps ==
  ASSUME IInv, NEW p \in Pages, Hear(p)
  PROVE  IInv'
<1> DEFINE h == heard[p] + 1
           entry == ledger[h]
           restored == entry.op.type = "restore_version"
           own == entry.page = p /\ ~ restored
           L == Log(p)
<1>1. Typed /\ Bounded
  BY DEF IInv
<1>2. /\ Ready(p) /\ heard[p] < Len(ledger) /\ heard' = [heard EXCEPT ![p] = h]
      /\ restored => Load(p)
      /\ ~ restored => loads' = loads
      /\ own \/ restored => board' = board /\ applied' = applied
      /\ ~ (own \/ restored) =>
           /\ board' = [board EXCEPT ![p] = Received(@, entry)]
           /\ applied' = [applied EXCEPT ![p] = Append(@, entry.token)]
      /\ UNCHANGED <<ledger, version, nextId, held, outbox, made, polls, undos>>
  BY DEF Hear
<1>3. h \in 1..Len(ledger) /\ heard[p] \in Int /\ Len(ledger) \in Nat
  <2>1. Len(ledger) \in Nat /\ heard[p] \in Int /\ heard[p] # -1 /\ -1 <= heard[p]
    BY <1>1, <1>2, LenProperties DEF Typed, Bounded, Ready, Connecting
  <2>2. \A n \in Nat, k \in Int : k # -1 /\ -1 <= k /\ k < n => k + 1 \in 1..n
    OBVIOUS
  <2> QED
    BY <1>2, <2>1, <2>2
<1>4. /\ entry \in SoundEntry /\ entry.op \in SoundServerOp /\ entry.token \in Step
      /\ L[h] = entry /\ L \in Seq(SoundEntry) /\ h \in 1..Len(L)
  <2>1. entry \in SoundEntry /\ entry.op \in SoundServerOp /\ entry.token \in Step
    BY <1>1, <1>3, EntryFacts DEF Typed
  <2>2. /\ L[h] = entry /\ L \in Seq(SoundEntry) /\ Len(L) = Len(ledger) + Len(outbox[p])
        /\ Len(outbox[p]) \in Nat
    BY <1>1, <1>3, LogFacts
  <2>3. h \in 1..Len(L)
    <3> HIDE DEF L, h
    <3> QED
      BY <1>3, <2>2
  <2> QED
    BY <2>1, <2>2, <2>3
<1> HIDE DEF h
<1>5. /\ heard' \in [Pages -> Int]
      /\ \A q \in Pages : Connecting <= heard'[q] /\ heard'[q] <= Len(ledger)
  <2>1. h \in Int /\ Connecting <= h /\ h <= Len(ledger)
    BY <1>3 DEF Connecting
  <2> QED
    BY <1>1, <1>2, <2>1 DEF Typed, Bounded
<1>6. loads' \in [Pages -> Seq(Request)] /\ \A q \in Pages : AllAsk(loads'[q])
  <2>1. \A q \in Pages : loads[q] \in Seq(Request) /\ AllAsk(loads[q])
    BY <1>1 DEF Typed, Bounded, AllAsk
  <2>2. CASE ~ restored
    BY <1>1, <1>2, <2>1, <2>2 DEF Typed
  <2>3. CASE restored
    <3> DEFINE more == Append(loads[p], Fetch(FALSE, 0, 0))
    <3>1. more \in Seq(Request) /\ AllAsk(more)
      <4> DEFINE r == loads[p]
      <4>1. r \in Seq(Request) /\ AllAsk(r) /\ 0 \in Nat /\ 0 <= 0 /\ 0 <= Len(ledger)
        BY <1>3, <2>1
      <4> HIDE DEF r
      <4>2. LET s == Append(r, Fetch(FALSE, 0, 0)) IN s \in Seq(Request) /\ AllAsk(s)
        BY <1>1, <4>1, FetchAsks
      <4> QED
        BY <4>2 DEF r
    <3>2. loads' = [loads EXCEPT ![p] = more]
      BY <1>2, <2>3 DEF Load
    <3> HIDE DEF more
    <3> QED
      BY <1>1, <2>1, <3>1, <3>2 DEF Typed
  <2> QED
    BY <2>2, <2>3
<1>7. Bounded'
  BY <1>1, <1>2, <1>5, <1>6 DEF Bounded, AllAsk, Asks
<1>8. Watches(p) => Watching(version[p], polls[p], applied[p])
  BY DEF IInv, Watched, Watching
<1>9. CASE own \/ restored
  <2>1. Typed'
    BY <1>1, <1>2, <1>5, <1>6, <1>9 DEF Typed
  <2>2. board' = board /\ applied' = applied /\ version' = version /\ polls' = polls
    BY <1>2, <1>9
  <2>3. Turn(p)
    BY <1>2, <2>2 DEF Turn
  <2> QED
    BY <1>7, <1>8, <2>1, <2>2, <2>3, ApartKeeps
<1>10. CASE ~ (own \/ restored)
  <2> DEFINE b == board[p]
             steps == applied[p]
             next == Received(b, entry)
             more == Append(steps, entry.token)
  <2>1. b \in SoundBoard /\ steps \in Seq(Step)
    BY <1>1 DEF Typed
  <2>2. next \in SoundBoard /\ Follows(b, entry.op, next)
    BY <1>4, <1>10, <2>1, ReceivedSound, ReceivedFollows
  <2>3. more \in Seq(Step) /\ Elements(more) = Elements(steps) \cup {entry.token}
    BY <1>4, <2>1, StepsFacts
  <2>4. board' = [board EXCEPT ![p] = next] /\ applied' = [applied EXCEPT ![p] = more]
    BY <1>2, <1>10
  <2> HIDE DEF next, more
  <2>5. Typed'
    <3>1. board' \in [Pages -> SoundBoard] /\ applied' \in [Pages -> Seq(Step)]
      BY <1>1, <2>2, <2>3, <2>4 DEF Typed
    <3> QED
      BY <1>1, <1>2, <1>5, <1>6, <3>1 DEF Typed
  <2>6. /\ board'[p] = next /\ applied'[p] = more
        /\ \A q \in Pages : q # p => board'[q] = board[q] /\ applied'[q] = applied[q]
    BY <1>1, <2>4 DEF Typed
  <2>7. Watches(p)' => Watching(version'[p], polls'[p], applied'[p])
    <3> SUFFICES ASSUME Watches(p)' PROVE Watching(version[p], polls[p], more)
      BY <1>2, <2>6
    <3>1. Watches(p)
      BY <1>2, <2>3, <2>6 DEF Watches, AllApplied
    <3> QED
      BY <1>8, <2>3, <3>1, WatchingMore
  <2>8. \A q \in Page, n \in Int : n > 0 /\ <<q, n>> \in Elements(applied'[p]) =>
          <<q, n>> \in Elements(applied[p]) \cup TokensIn(ledger)
    <3>1. entry.token \in TokensIn(ledger)
      BY <1>3 DEF TokensIn
    <3> QED
      BY <2>3, <2>6, <3>1
  <2>9. NamedApart => Follower(p, Log(p), board'[p], applied'[p])
    <3> SUFFICES ASSUME NamedApart PROVE Follower(p, L, next, more)
      BY <2>6
    <3>1. Follower(p, L, b, steps)
      BY DEF IInv, Followed
    <3>2. Logged(L)
      BY LoggedNow DEF IInv
    <3>3. L[h].op.type # "restore_version" /\ Follows(b, L[h].op, next) /\ L[h].token = entry.token
      BY <1>4, <1>10, <2>2
    <3> HIDE DEF L, b, steps, entry
    <3>4. Follower(p, L, next, Append(steps, L[h].token))
      BY <1>4, <2>1, <3>1, <3>2, <3>3, FollowerAdvances
    <3> QED
      BY <3>3, <3>4 DEF more
  <2>10. Turn(p)
    BY <1>2, <2>6 DEF Turn
  <2> QED
    BY <1>7, <2>5, <2>7, <2>8, <2>9, <2>10, TurnKeeps
<1> QED
  BY <1>9, <1>10


-----------------------------------------------------------------------------
(* Polls and loads.                                                         *)

\* The page has taken in what the ledger has between two of its sequences.
TakesIn(p, view, after, last) ==
  /\ \A i \in after + 1..last : ledger[i].op.type # "restore_version"
  /\ board' = [board EXCEPT ![p] = ReceivedAll(view.board, SubSeq(ledger, after + 1, last))]
  /\ version' = [version EXCEPT ![p] = IF last = after THEN view.version ELSE last]
  /\ applied' = [applied EXCEPT ![p] = view.applied \o Tokens(SubSeq(ledger, after + 1, last))]
  /\ loads' \in [Pages -> Seq(Request)] /\ \A q \in Pages : AllAsk(loads'[q])

LEMMA PolledFacts ==
  ASSUME Typed, \A q \in Pages : AllAsk(loads[q]), NEW p \in Pages, NEW view,
         NEW requests \in Seq(Request), AllAsk(requests),
         NEW after \in Nat, NEW upTo \in Nat, after <= upTo, upTo <= Len(ledger),
         Polled(p, view, requests, after, upTo)
  PROVE  \E last \in after..upTo : TakesIn(p, view, after, last)
<1> DEFINE restores == Restores(after, upTo)
           last == IF restores = {} THEN upTo ELSE First(restores) - 1
           ops == SubSeq(ledger, after + 1, last)
<1>1. restores \in SUBSET Nat /\ restores \subseteq after + 1..upTo
  BY DEF Restores
<1>2. /\ last \in after..upTo
      /\ restores # {} => last < upTo
      /\ \A i \in after + 1..last : ledger[i].op.type # "restore_version"
  <2>1. CASE restores = {}
    BY <2>1 DEF Restores
  <2>2. CASE restores # {}
    <3>1. \E n \in restores : \A m \in restores : n <= m
      BY <1>1, <2>2, LeastOf
    <3> DEFINE n == First(restores)
    <3>2. n \in restores /\ \A m \in restores : n <= m
      <4> HIDE DEF restores
      <4> QED
        BY <3>1 DEF First
    <3>3. last = n - 1
      BY <2>2
    <3> HIDE DEF n, last
    <3>4. n \in after + 1..upTo
      BY <1>1, <3>2
    <3>5. last \in after..upTo /\ last < upTo
      BY <3>3, <3>4
    <3>6. ASSUME NEW i \in after + 1..last, ledger[i].op.type = "restore_version" PROVE FALSE
      <4>1. i \in after + 1..upTo /\ i < n
        BY <3>3, <3>4
      <4>2. i \in restores
        BY <3>6, <4>1 DEF Restores
      <4>3. n <= i
        BY <3>2, <4>2
      <4> QED
        BY <3>4, <4>1, <4>3
    <3> QED
      BY <3>5, <3>6
  <2> QED
    BY <2>1, <2>2
<1>3. /\ board' = [board EXCEPT ![p] = ReceivedAll(view.board, ops)]
      /\ version' = [version EXCEPT ![p] = IF ops = <<>> THEN view.version ELSE last]
      /\ applied' = [applied EXCEPT ![p] = view.applied \o Tokens(ops)]
      /\ loads' = [loads EXCEPT ![p] =
                     IF restores = {} THEN requests
                     ELSE Append(requests, Fetch(FALSE, last + 1, upTo))]
  BY DEF Polled, Shows
<1> HIDE DEF last
<1>4. ops = <<>> <=> last = after
  <2>1. ledger \in Seq(SoundEntry) /\ last \in Nat /\ after <= last /\ last <= Len(ledger)
    <3>1. Len(ledger) \in Nat
      BY LenProperties DEF Typed
    <3> QED
      BY <1>2, <3>1 DEF Typed
  <2>2. ops \in Seq(SoundEntry) /\ Len(ops) = last - after
    BY <2>1, StretchFacts
  <2>3. ops = <<>> <=> Len(ops) = 0
    BY <2>2, EmptySeq
  <2> QED
    BY <2>1, <2>2, <2>3
<1>5. loads' \in [Pages -> Seq(Request)] /\ \A q \in Pages : AllAsk(loads'[q])
  <2> HIDE DEF restores
  <2>1. CASE restores = {}
    <3>1. loads' = [loads EXCEPT ![p] = requests]
      BY <1>3, <2>1
    <3> QED
      BY <3>1 DEF Typed
  <2>2. CASE restores # {}
    <3> DEFINE more == Append(requests, Fetch(FALSE, last + 1, upTo))
    <3>1. more \in Seq(Request) /\ AllAsk(more)
      <4>1. last + 1 \in Nat /\ last + 1 <= upTo
        BY <1>2, <2>2
      <4> DEFINE from == last + 1
      <4> HIDE DEF from
      <4>2. LET s == Append(requests, Fetch(FALSE, from, upTo)) IN s \in Seq(Request) /\ AllAsk(s)
        BY <4>1, FetchAsks DEF from
      <4> QED
        BY <4>2 DEF from
    <3>2. loads' = [loads EXCEPT ![p] = more]
      BY <1>3, <2>2
    <3> HIDE DEF more
    <3> QED
      BY <3>1, <3>2 DEF Typed
  <2> QED
    BY <2>1, <2>2
<1>6. TakesIn(p, view, after, last)
  BY <1>2, <1>3, <1>4, <1>5 DEF TakesIn
<1> QED
  BY <1>2, <1>6

\* The ledger is the beginning of each log.
LEMMA LogStretch ==
  ASSUME Typed, NEW p \in Pages, NEW n \in Nat, NEW m \in Nat, n <= m, m <= Len(ledger)
  PROVE  SubSeq(Log(p), n + 1, m) = SubSeq(ledger, n + 1, m)
<1> DEFINE L == Log(p)
           s == SubSeq(L, n + 1, m)
           t == SubSeq(ledger, n + 1, m)
<1>1. /\ ledger \in Seq(SoundEntry) /\ L \in Seq(SoundEntry) /\ Len(ledger) \in Nat
      /\ Len(L) = Len(ledger) + Len(outbox[p]) /\ Len(outbox[p]) \in Nat
      /\ \A i \in 1..Len(ledger) : L[i] = ledger[i]
  BY LogFacts DEF Typed
<1> HIDE DEF L
<1>2. m <= Len(L)
  BY <1>1
<1>3. /\ s \in Seq(SoundEntry) /\ Len(s) = m - n /\ \A i \in 1..m - n : s[i] = L[n + i]
  BY <1>1, <1>2, StretchFacts
<1>4. /\ t \in Seq(SoundEntry) /\ Len(t) = m - n /\ \A i \in 1..m - n : t[i] = ledger[n + i]
  BY <1>1, StretchFacts
<1>5. \A i \in 1..m - n : L[n + i] = ledger[n + i]
  <2>1. \A i \in 1..m - n : n + i \in 1..Len(ledger)
    BY <1>1
  <2> QED
    BY <1>1, <2>1
<1>6. \A i \in 1..m - n : s[i] = t[i]
  BY <1>3, <1>4, <1>5
<1> HIDE DEF s, t
<1>7. s = t
  BY <1>3, <1>4, <1>6, SeqEqual
<1> QED
  BY <1>7 DEF s, t, L


\* The board and the steps of a page that takes in the ledger behind "after".
LEMMA TakesInKeeps ==
  ASSUME IInv, NEW p \in Pages, NEW view, NEW after \in Nat, NEW last \in Nat,
         after <= last, last <= Len(ledger),
         view.board \in SoundBoard, view.version \in Nat, view.applied \in Seq(Step),
         view.version <= Len(ledger) + Len(outbox[p]),
         TakesIn(p, view, after, last),
         polls' \in [Pages -> Seq(Poll)], Len(polls'[p]) <= MaxRequests,
         \A q \in Pages : q # p => polls'[q] = polls[q],
         UNCHANGED <<ledger, nextId, held, outbox, made, heard, undos>>,
         made[p] = 0 /\ {Unloaded(p), Late(p)} \cap Elements(view.applied) = {} =>
           /\ Covers(ledger, after, view.applied)
           /\ Watching(view.version, polls'[p], view.applied),
         \A q \in Page, n \in Int : n > 0 /\ <<q, n>> \in Elements(view.applied) =>
           <<q, n>> \in Elements(applied[p]) \cup TokensIn(ledger),
         NamedApart => Follower(p, Log(p), view.board, view.applied)
  PROVE  IInv'
<1> DEFINE ops == SubSeq(ledger, after + 1, last)
           next == ReceivedAll(view.board, ops)
           steps == view.applied
           more == steps \o Tokens(ops)
           reached == IF last = after THEN view.version ELSE last
<1>1. Typed /\ Bounded /\ ledger \in Seq(SoundEntry) /\ Len(ledger) \in Nat
  BY LenProperties DEF IInv, Typed
<1>2. /\ ops \in Seq(SoundEntry) /\ Len(ops) \in Nat
      /\ Tokens(ops) \in Seq(Step)
      /\ Elements(Tokens(ops)) = {ledger[i].token : i \in after + 1..last}
  <2>1. /\ ops \in Seq(SoundEntry) /\ Tokens(ops) \in Seq(Step)
        /\ Elements(Tokens(ops)) = {ledger[i].token : i \in after + 1..last}
    BY <1>1, StretchFacts
  <2> HIDE DEF ops
  <2> QED
    BY <2>1, LenProperties
<1>3. next \in SoundBoard
  <2>1. \A i \in 1..Len(ops) : ops[i].op \in SoundServerOp
    <3> HIDE DEF ops
    <3> QED
      BY <1>2, EntryFacts
  <2> HIDE DEF ops
  <2> QED
    BY <1>2, <2>1, ReceivedAllSound
<1>4. /\ more \in Seq(Step)
      /\ Elements(more) = Elements(steps) \cup {ledger[i].token : i \in after + 1..last}
  <2> HIDE DEF ops, steps
  <2>1. steps \in Seq(Step)
    BY DEF steps
  <2> QED
    BY <1>2, <2>1, ConcatProperties, ElementsConcat
<1>5. reached \in Nat /\ reached <= Len(ledger) + Len(outbox[p])
  <2>1. Len(outbox[p]) \in Nat
    BY <1>1, LogFacts
  <2> QED
    BY <1>1, <2>1
<1>6. /\ \A i \in after + 1..last : ledger[i].op.type # "restore_version"
      /\ board' = [board EXCEPT ![p] = next]
      /\ version' = [version EXCEPT ![p] = reached]
      /\ applied' = [applied EXCEPT ![p] = more]
      /\ loads' \in [Pages -> Seq(Request)] /\ \A q \in Pages : AllAsk(loads'[q])
  BY DEF TakesIn
<1> HIDE DEF next, more, reached
<1>7. /\ board'[p] = next /\ version'[p] = reached /\ applied'[p] = more
      /\ \A q \in Pages : q # p =>
           board'[q] = board[q] /\ version'[q] = version[q] /\ applied'[q] = applied[q]
  BY <1>1, <1>6 DEF Typed
<1>8. Typed'
  <2>1. /\ board' \in [Pages -> SoundBoard] /\ version' \in [Pages -> Nat]
        /\ applied' \in [Pages -> Seq(Step)]
    BY <1>1, <1>3, <1>4, <1>5, <1>6 DEF Typed
  <2> QED
    BY <1>1, <1>6, <2>1 DEF Typed
<1>9. Bounded'
  <2>1. \A q \in Pages : version'[q] <= Len(ledger) + Len(outbox[q])
    BY <1>1, <1>5, <1>7 DEF Bounded
  <2>2. \A q \in Pages : Len(polls'[q]) <= MaxRequests
    BY <1>1 DEF Bounded
  <2> QED
    BY <1>1, <1>6, <2>1, <2>2 DEF Bounded, AllAsk, Asks
<1>10. Turn(p)
  BY <1>7 DEF Turn
<1>11. Watches(p)' => Watching(version'[p], polls'[p], applied'[p])
  <2> SUFFICES ASSUME Watches(p)' PROVE Watching(reached, polls'[p], more)
    BY <1>7
  <2>1. made[p] = 0 /\ {Unloaded(p), Late(p)} \cap Elements(view.applied) = {}
    BY <1>4, <1>7 DEF Watches, AllApplied
  <2>2. /\ Covers(ledger, after, view.applied)
        /\ Watching(view.version, polls'[p], view.applied)
    BY <2>1
  <2>3. Watching(view.version, polls'[p], more)
    BY <1>4, <2>2, WatchingMore
  <2>4. CASE last = after
    BY <2>3, <2>4 DEF reached
  <2>5. CASE last # after
    <3>1. \A i \in 1..last : i \in 1..after \/ i \in after + 1..last
      OBVIOUS
    <3>2. {ledger[i].token : i \in 1..last} \subseteq Elements(more)
      BY <1>4, <2>2, <3>1 DEF Covers
    <3>3. Covers(ledger, last, more)
      BY <3>2 DEF Covers
    <3> QED
      BY <2>3, <2>5, <3>3 DEF reached, Watching
  <2> QED
    BY <2>4, <2>5
<1>12. \A q \in Page, n \in Int : n > 0 /\ <<q, n>> \in Elements(applied'[p]) =>
         <<q, n>> \in Elements(applied[p]) \cup TokensIn(ledger)
  <2>1. \A i \in after + 1..last : i \in 1..Len(ledger)
    BY <1>1
  <2>2. {ledger[i].token : i \in after + 1..last} \subseteq TokensIn(ledger)
    BY <2>1 DEF TokensIn
  <2> QED
    BY <1>4, <1>7, <2>2
<1>13. NamedApart => Follower(p, Log(p), board'[p], applied'[p])
  <2> SUFFICES ASSUME NamedApart PROVE Follower(p, Log(p), next, more)
    BY <1>7
  <2> DEFINE L == Log(p)
             b == view.board
  <2>1. Follower(p, L, b, steps) /\ b \in SoundBoard /\ steps \in Seq(Step)
    OBVIOUS
  <2>2. Logged(L)
    BY LoggedNow DEF IInv
  <2>3. /\ L \in Seq(SoundEntry) /\ last <= Len(L)
        /\ \A i \in after + 1..last : L[i].op.type # "restore_version"
    <3>1. /\ L \in Seq(SoundEntry) /\ Len(L) = Len(ledger) + Len(outbox[p])
          /\ Len(outbox[p]) \in Nat /\ \A i \in 1..Len(ledger) : L[i] = ledger[i]
      BY <1>1, LogFacts
    <3> HIDE DEF L
    <3>2. last <= Len(L) /\ \A i \in after + 1..last : i \in 1..Len(ledger)
      BY <1>1, <3>1
    <3> QED
      BY <1>6, <3>1, <3>2
  <2>4. SubSeq(L, after + 1, last) = ops
    BY <1>1, LogStretch
  <2> HIDE DEF L, b, steps, ops
  <2>5. LET taken == SubSeq(L, after + 1, last)
        IN  Follower(p, L, ReceivedAll(b, taken), steps \o Tokens(taken))
    BY <2>1, <2>2, <2>3, FollowerReceives
  <2>6. Follower(p, L, ReceivedAll(b, ops), steps \o Tokens(ops))
    BY <2>4, <2>5
  <2> QED
    BY <2>6 DEF next, more, L, b
<1> QED
  BY <1>8, <1>9, <1>10, <1>11, <1>12, <1>13, TurnKeeps

\* What a page has applied, with a mark of what went wrong, if it did.
Noted(p, wrong, n) == IF wrong THEN Marked(applied[p], <<p, n>>) ELSE applied[p]

LEMMA NotedFacts ==
  ASSUME IInv, NEW p \in Pages, NEW wrong \in BOOLEAN, NEW n \in Int, n <= 0
  PROVE  /\ Noted(p, wrong, n) \in Seq(Step)
         /\ wrong => <<p, n>> \in Elements(Noted(p, wrong, n))
         /\ ~ wrong => Noted(p, wrong, n) = applied[p]
         /\ \A q \in Page, m \in Int : m > 0 /\ <<q, m>> \in Elements(Noted(p, wrong, n)) =>
              <<q, m>> \in Elements(applied[p])
         /\ NamedApart => Follower(p, Log(p), board[p], Noted(p, wrong, n))
<1> DEFINE steps == applied[p]
           more == Marked(steps, <<p, n>>)
<1>1. steps \in Seq(Step) /\ <<p, n>> \in Step
  BY DEF IInv, Typed, Step, Page
<1>2. more \in Seq(Step) /\ Elements(more) = Elements(steps) \cup {<<p, n>>}
  BY <1>1, MarkedFacts
<1>3. NamedApart => Follower(p, Log(p), board[p], steps)
  BY DEF IInv, Followed
<1>4. ASSUME NamedApart PROVE Follower(p, Log(p), board[p], more)
  <2> DEFINE L == Log(p)
             b == board[p]
  <2>1. Follower(p, L, b, steps) /\ L \in Seq(SoundEntry)
    BY <1>4, LogFacts DEF IInv, Followed
  <2>2. Logged(L)
    BY <1>4, LoggedNow DEF IInv
  <2>3. \A known : Explained(b, known) => Explained(b, known)
    OBVIOUS
  <2> HIDE DEF L, b, steps
  <2>4. Follower(p, L, b, Marked(steps, <<p, n>>))
    BY <1>1, <2>1, <2>2, <2>3, FollowerMarked
  <2> QED
    BY <2>4 DEF more, L, b
<1> HIDE DEF more
<1>5. CASE wrong
  <2>1. Noted(p, wrong, n) = more
    BY <1>5 DEF Noted, more, steps
  <2>2. ASSUME NEW q \in Page, NEW m \in Int, m > 0, <<q, m>> \in Elements(more)
        PROVE  <<q, m>> \in Elements(steps)
    <3>1. m # n
      BY <2>2
    <3>2. <<q, m>> # <<p, n>>
      BY <3>1
    <3> QED
      BY <1>2, <2>2, <3>2
  <2> HIDE DEF steps
  <2>3. \A q \in Page, m \in Int : m > 0 /\ <<q, m>> \in Elements(more) => <<q, m>> \in Elements(steps)
    BY <2>2
  <2> QED
    BY <1>2, <1>4, <1>5, <2>1, <2>3 DEF steps
<1>6. CASE ~ wrong
  <2>1. Noted(p, wrong, n) = steps
    BY <1>6 DEF Noted, steps
  <2> QED
    BY <1>1, <1>3, <1>6, <2>1
<1> QED
  BY <1>5, <1>6

\* A poll is no longer in flight.
LEMMA AnswerFacts ==
  ASSUME IInv, NEW p \in Pages, NEW i \in DOMAIN polls[p],
         polls' = [polls EXCEPT ![p] = Others(@, i)]
  PROVE  /\ i \in 1..Len(polls[p]) /\ polls[p] \in Seq(Poll) /\ polls[p][i] \in Poll
         /\ polls' \in [Pages -> Seq(Poll)] /\ polls'[p] = Others(polls[p], i)
         /\ Len(polls'[p]) <= MaxRequests
         /\ \A q \in Pages : q # p => polls'[q] = polls[q]
<1> DEFINE s == polls[p]
           u == Others(s, i)
<1>1. s \in Seq(Poll) /\ Len(s) <= MaxRequests
  BY DEF IInv, Typed, Bounded
<1>2. i \in 1..Len(s) /\ Len(s) \in Nat
  BY <1>1, LenProperties
<1> HIDE DEF s
<1>3. u \in Seq(Poll) /\ Len(u) = Len(s) - 1
  BY <1>1, <1>2, OthersFacts
<1>4. s[i] \in Poll
  BY <1>1, <1>2, ElementOfSeq
<1> HIDE DEF u
<1>5. polls' = [polls EXCEPT ![p] = u]
  BY DEF u, s
<1>6. /\ polls' \in [Pages -> Seq(Poll)] /\ polls'[p] = u
      /\ \A q \in Pages : q # p => polls'[q] = polls[q]
  BY <1>3, <1>5 DEF IInv, Typed
<1>7. Len(u) <= MaxRequests
  BY <1>1, <1>2, <1>3, BoundsAssumption
<1> QED
  BY <1>1, <1>2, <1>4, <1>6, <1>7 DEF s, u

LEMMA TakePollKeeps ==
  ASSUME IInv, NEW p \in Pages, NEW i \in DOMAIN polls[p], NEW upTo \in 0..Len(ledger),
         TakePoll(p, i, upTo)
  PROVE  IInv'
<1> DEFINE poll == polls[p][i]
           steps == Noted(p, poll.late, -3)
           view == [View(p) EXCEPT !.applied = IF poll.late THEN Marked(@, Late(p)) ELSE @]
<1>1. /\ polls' = [polls EXCEPT ![p] = Others(@, i)]
      /\ poll.cursor < upTo => Polled(p, view, loads[p], poll.cursor, upTo)
      /\ ~ (poll.cursor < upTo) =>
           /\ Shows(p, [view EXCEPT !.version = IF upTo > @ THEN upTo ELSE @])
           /\ loads' = loads
      /\ UNCHANGED <<ledger, nextId, held, outbox, made, heard, undos>>
  BY DEF TakePoll
<1>2. Typed /\ Bounded /\ Len(ledger) \in Nat /\ upTo \in Nat /\ upTo <= Len(ledger)
  BY LenProperties DEF IInv, Typed
<1>3. /\ i \in 1..Len(polls[p]) /\ polls[p] \in Seq(Poll) /\ poll \in Poll
      /\ polls' \in [Pages -> Seq(Poll)] /\ polls'[p] = Others(polls[p], i)
      /\ Len(polls'[p]) <= MaxRequests
      /\ \A q \in Pages : q # p => polls'[q] = polls[q]
  BY <1>1, AnswerFacts
<1>4. view = [board |-> board[p], version |-> version[p], applied |-> steps]
  BY DEF View, Noted, Late
<1>5. poll.late \in BOOLEAN /\ poll.cursor \in Nat
  BY <1>3 DEF Poll
<1>6. /\ steps \in Seq(Step)
      /\ poll.late => Late(p) \in Elements(steps)
      /\ ~ poll.late => steps = applied[p]
      /\ \A q \in Page, m \in Int : m > 0 /\ <<q, m>> \in Elements(steps) =>
           <<q, m>> \in Elements(applied[p])
      /\ NamedApart => Follower(p, Log(p), board[p], steps)
  <2> DEFINE late == poll.late
  <2>1. late \in BOOLEAN /\ -3 \in Int /\ -3 <= 0
    BY <1>5
  <2> HIDE DEF late
  <2>2. LET more == Noted(p, late, -3) IN
        /\ more \in Seq(Step)
        /\ late => <<p, -3>> \in Elements(more)
        /\ ~ late => more = applied[p]
        /\ \A q \in Page, m \in Int : m > 0 /\ <<q, m>> \in Elements(more) =>
             <<q, m>> \in Elements(applied[p])
        /\ NamedApart => Follower(p, Log(p), board[p], more)
    BY <2>1, NotedFacts
  <2> QED
    BY <2>2 DEF Late, late
<1> HIDE DEF steps, view
<1>7. ASSUME made[p] = 0, {Unloaded(p), Late(p)} \cap Elements(steps) = {}
      PROVE  /\ Covers(ledger, poll.cursor, steps)
             /\ Watching(version[p], polls'[p], steps)
  <2>1. ~ poll.late /\ steps = applied[p]
    BY <1>5, <1>6, <1>7
  <2>2. Watches(p)
    BY <1>7, <2>1 DEF Watches, AllApplied
  <2>3. Watching(version[p], polls[p], steps)
    BY <2>1, <2>2 DEF IInv, Watched, Watching
  <2>4. Covers(ledger, poll.cursor, steps)
    BY <1>3, <2>1, <2>3 DEF Watching
  <2>5. Watching(version[p], Others(polls[p], i), steps)
    <3> DEFINE s == polls[p]
    <3>1. s \in Seq(Poll) /\ i \in 1..Len(s) /\ Watching(version[p], s, steps)
      BY <1>3, <2>3
    <3> HIDE DEF s
    <3>2. Watching(version[p], Others(s, i), steps)
      BY <3>1, WatchingLess
    <3> QED
      BY <3>2 DEF s
  <2> QED
    BY <1>3, <2>4, <2>5
<1>8. /\ view.board = board[p] /\ view.version = version[p] /\ view.applied = steps
      /\ board[p] \in SoundBoard /\ version[p] \in Nat
      /\ version[p] <= Len(ledger) + Len(outbox[p])
  BY <1>2, <1>4 DEF Typed, Bounded
<1>9. CASE poll.cursor < upTo
  <2> DEFINE after == poll.cursor
             requests == loads[p]
  <2>1. /\ \A q \in Pages : AllAsk(loads[q])
        /\ requests \in Seq(Request) /\ AllAsk(requests)
        /\ after \in Nat /\ after <= upTo
        /\ Polled(p, view, requests, after, upTo)
    <3>1. \A q \in Pages : loads[q] \in Seq(Request) /\ AllAsk(loads[q])
      BY <1>2 DEF Typed, Bounded, AllAsk
    <3>2. after \in Nat /\ after <= upTo
      BY <1>2, <1>5, <1>9
    <3> QED
      BY <1>1, <1>9, <3>1, <3>2
  <2>2. /\ made[p] = 0 /\ {Unloaded(p), Late(p)} \cap Elements(view.applied) = {} =>
             /\ Covers(ledger, after, view.applied)
             /\ Watching(view.version, polls'[p], view.applied)
        /\ \A q \in Page, n \in Int : n > 0 /\ <<q, n>> \in Elements(view.applied) =>
             <<q, n>> \in Elements(applied[p]) \cup TokensIn(ledger)
        /\ NamedApart => Follower(p, Log(p), view.board, view.applied)
    BY <1>6, <1>7, <1>8
  <2> HIDE DEF after, requests
  <2>3. PICK last \in after..upTo : TakesIn(p, view, after, last)
    BY <1>2, <2>1, PolledFacts
  <2>4. last \in Nat /\ after <= last /\ last <= Len(ledger)
    BY <1>2, <2>1
  <2>5. view.board \in SoundBoard /\ view.version \in Nat /\ view.applied \in Seq(Step)
        /\ view.version <= Len(ledger) + Len(outbox[p])
    BY <1>6, <1>8
  <2> QED
    BY <1>1, <1>3, <2>1, <2>2, <2>3, <2>4, <2>5, TakesInKeeps
<1>10. CASE ~ (poll.cursor < upTo)
  <2> DEFINE n == IF upTo > version[p] THEN upTo ELSE version[p]
  <2>1. /\ board' = [board EXCEPT ![p] = board[p]]
        /\ version' = [version EXCEPT ![p] = n]
        /\ applied' = [applied EXCEPT ![p] = steps]
        /\ loads' = loads
    BY <1>1, <1>4, <1>10 DEF Shows
  <2>2. n \in Nat /\ n <= Len(ledger) + Len(outbox[p])
    <3>1. Len(outbox[p]) \in Nat
      BY <1>2, LogFacts
    <3> QED
      BY <1>2, <1>8, <3>1
  <2>3. n = upTo \/ n = version[p]
    OBVIOUS
  <2> HIDE DEF n
  <2>4. /\ board' = board /\ version'[p] = n /\ applied'[p] = steps
        /\ \A q \in Pages : q # p => version'[q] = version[q] /\ applied'[q] = applied[q]
    BY <1>2, <2>1 DEF Typed
  <2>5. Typed'
    BY <1>1, <1>2, <1>3, <1>6, <2>1, <2>2, <2>4 DEF Typed
  <2>6. Bounded'
    <3>1. \A q \in Pages : /\ version'[q] <= Len(ledger) + Len(outbox[q])
                           /\ Len(polls'[q]) <= MaxRequests
      BY <1>2, <1>3, <2>2, <2>4 DEF Bounded
    <3> QED
      BY <1>1, <1>2, <2>1, <3>1 DEF Bounded, Asks
  <2>7. Watches(p)' => Watching(version'[p], polls'[p], applied'[p])
    <3> SUFFICES ASSUME Watches(p)' PROVE Watching(n, polls'[p], steps)
      BY <2>4
    <3>1. made[p] = 0 /\ {Unloaded(p), Late(p)} \cap Elements(steps) = {}
      BY <1>1, <2>4 DEF Watches, AllApplied
    <3>2. Covers(ledger, poll.cursor, steps) /\ Watching(version[p], polls'[p], steps)
      BY <1>7, <3>1
    <3>3. Covers(ledger, upTo, steps)
      <4>1. upTo <= poll.cursor /\ \A k \in 1..upTo : k \in 1..poll.cursor
        BY <1>2, <1>5, <1>10
      <4> QED
        BY <1>2, <3>2, <4>1 DEF Covers
    <3> QED
      BY <2>3, <3>2, <3>3 DEF Watching
  <2>8. Turn(p)
    BY <1>1, <1>3, <2>4 DEF Turn
  <2>9. \A q \in Page, m \in Int : m > 0 /\ <<q, m>> \in Elements(applied'[p]) =>
          <<q, m>> \in Elements(applied[p]) \cup TokensIn(ledger)
    BY <1>6, <2>4
  <2>10. NamedApart => Follower(p, Log(p), board'[p], applied'[p])
    BY <1>6, <2>4
  <2> QED
    BY <2>5, <2>6, <2>7, <2>8, <2>9, <2>10, TurnKeeps
<1> QED
  BY <1>9, <1>10

\* A request for the board is no longer in flight.
LEMMA RequestFacts ==
  ASSUME IInv, NEW p \in Pages, NEW i \in DOMAIN loads[p]
  PROVE  /\ loads[p][i] \in Request /\ Asks(loads[p][i])
         /\ Others(loads[p], i) \in Seq(Request) /\ AllAsk(Others(loads[p], i))
         /\ \A q \in Pages : AllAsk(loads[q])
<1> DEFINE s == loads[p]
           u == Others(s, i)
<1>1. \A q \in Pages : loads[q] \in Seq(Request) /\ AllAsk(loads[q])
  BY DEF IInv, Typed, Bounded, AllAsk
<1>2. s \in Seq(Request) /\ i \in 1..Len(s)
  BY <1>1, LenProperties
<1>3. \A k \in 1..Len(s) : Asks(s[k])
  BY <1>1 DEF AllAsk
<1> HIDE DEF s
<1>4. s[i] \in Request
  BY <1>2, ElementOfSeq
<1>5. u \in Seq(Request) /\ \A j \in 1..Len(u) : \E k \in 1..Len(s) : u[j] = s[k]
  <2>1. Others(s, i) \in Seq(Request)
    BY <1>2, OthersFacts
  <2>2. \A j \in 1..Len(Others(s, i)) : \E k \in 1..Len(s) : Others(s, i)[j] = s[k]
    BY <1>2, OthersFacts
  <2> QED
    BY <2>1, <2>2
<1> HIDE DEF u
<1>6. ASSUME NEW j \in 1..Len(u) PROVE Asks(u[j])
  <2>1. PICK k \in 1..Len(s) : u[j] = s[k]
    BY <1>5
  <2>2. Asks(s[k])
    BY <1>3
  <2> QED
    BY <2>1, <2>2
<1>7. AllAsk(u)
  BY <1>6 DEF AllAsk
<1> QED
  BY <1>1, <1>2, <1>3, <1>4, <1>5, <1>7 DEF s, u

LEMMA LoadFailsKeeps ==
  ASSUME IInv, NEW p \in Pages, NEW i \in DOMAIN loads[p], LoadFails(p, i)
  PROVE  IInv'
<1> DEFINE load == loads[p][i]
           failed == ~ load.first
           steps == Noted(p, failed, -2)
           view == [View(p) EXCEPT !.applied = IF load.first THEN @ ELSE Marked(@, Unloaded(p))]
           requests == Others(loads[p], i)
           after == load.after
           upTo == load.upTo
<1>1. /\ Polled(p, view, requests, after, upTo)
      /\ polls' = polls
      /\ UNCHANGED <<ledger, nextId, held, outbox, made, heard, undos>>
  BY DEF LoadFails
<1>2. /\ load \in Request /\ Asks(load) /\ requests \in Seq(Request) /\ AllAsk(requests)
      /\ \A q \in Pages : AllAsk(loads[q])
  BY RequestFacts
<1>3. Typed /\ Bounded /\ Len(ledger) \in Nat
  BY LenProperties DEF IInv, Typed
<1>4. /\ after \in Nat /\ upTo \in Nat /\ after <= upTo /\ upTo <= Len(ledger)
      /\ failed \in BOOLEAN
      /\ ~ failed => after = 0
  BY <1>2, <1>3 DEF Request, Asks
<1>5. view = [board |-> board[p], version |-> version[p], applied |-> steps]
  <2> DEFINE first == load.first
  <2>1. first \in BOOLEAN
    BY <1>2 DEF Request
  <2>2. steps = IF first THEN applied[p] ELSE Marked(applied[p], <<p, -2>>)
    <3> HIDE DEF load
    <3> QED
      BY <2>1 DEF Noted
  <2> HIDE DEF first, steps
  <2> QED
    BY <2>2 DEF View, Unloaded, first
<1> HIDE DEF view, failed, requests, after, upTo
<1>6. /\ steps \in Seq(Step)
      /\ failed => Unloaded(p) \in Elements(steps)
      /\ ~ failed => steps = applied[p]
      /\ \A q \in Page, m \in Int : m > 0 /\ <<q, m>> \in Elements(steps) =>
           <<q, m>> \in Elements(applied[p])
      /\ NamedApart => Follower(p, Log(p), board[p], steps)
  <2>1. -2 \in Int /\ -2 <= 0
    OBVIOUS
  <2>2. LET more == Noted(p, failed, -2) IN
        /\ more \in Seq(Step)
        /\ failed => <<p, -2>> \in Elements(more)
        /\ ~ failed => more = applied[p]
        /\ \A q \in Page, m \in Int : m > 0 /\ <<q, m>> \in Elements(more) =>
             <<q, m>> \in Elements(applied[p])
        /\ NamedApart => Follower(p, Log(p), board[p], more)
    BY <1>4, <2>1, NotedFacts
  <2> QED
    BY <2>2 DEF Unloaded
<1> HIDE DEF steps
<1>7. /\ view.board = board[p] /\ view.version = version[p] /\ view.applied = steps
      /\ board[p] \in SoundBoard /\ version[p] \in Nat
      /\ version[p] <= Len(ledger) + Len(outbox[p])
  BY <1>3, <1>5 DEF Typed, Bounded
<1>8. ASSUME made[p] = 0, {Unloaded(p), Late(p)} \cap Elements(steps) = {}
      PROVE  /\ Covers(ledger, after, steps)
             /\ Watching(version[p], polls'[p], steps)
  <2>1. ~ failed /\ steps = applied[p] /\ after = 0
    BY <1>4, <1>6, <1>8
  <2>2. Watches(p)
    BY <1>8, <2>1 DEF Watches, AllApplied
  <2>3. Watching(version[p], polls'[p], steps)
    BY <1>1, <2>1, <2>2 DEF IInv, Watched, Watching
  <2>4. Covers(ledger, after, steps)
    BY <1>3, <2>1 DEF Covers
  <2> QED
    BY <2>3, <2>4
<1>9. PICK last \in after..upTo : TakesIn(p, view, after, last)
  BY <1>1, <1>2, <1>3, <1>4, PolledFacts
<1>10. last \in Nat /\ after <= last /\ last <= Len(ledger)
  BY <1>3, <1>4
<1>11. /\ view.board \in SoundBoard /\ view.version \in Nat /\ view.applied \in Seq(Step)
       /\ view.version <= Len(ledger) + Len(outbox[p])
  BY <1>6, <1>7
<1>12. /\ polls' \in [Pages -> Seq(Poll)] /\ Len(polls'[p]) <= MaxRequests
       /\ \A q \in Pages : q # p => polls'[q] = polls[q]
  BY <1>1, <1>3 DEF Typed, Bounded
<1>13. /\ made[p] = 0 /\ {Unloaded(p), Late(p)} \cap Elements(view.applied) = {} =>
            /\ Covers(ledger, after, view.applied)
            /\ Watching(view.version, polls'[p], view.applied)
       /\ \A q \in Page, n \in Int : n > 0 /\ <<q, n>> \in Elements(view.applied) =>
            <<q, n>> \in Elements(applied[p]) \cup TokensIn(ledger)
       /\ NamedApart => Follower(p, Log(p), view.board, view.applied)
  BY <1>6, <1>7, <1>8
<1> QED
  BY <1>1, <1>4, <1>9, <1>10, <1>11, <1>12, <1>13, TakesInKeeps

\* Nothing that waits to be stored restores the board.
LEMMA LogRestored ==
  ASSUME Typed, Counted, Restored(ledger), NEW p \in Pages
  PROVE  Restored(Log(p))
<1> DEFINE L == Log(p)
           n == Len(ledger)
<1>1. /\ Len(ledger) \in Nat
      /\ \A i \in 1..Len(ledger) : L[i] = ledger[i]
  BY LogFacts
<1> SUFFICES ASSUME NEW i \in 1..Len(L), L[i].op.type = "restore_version"
             PROVE  IdsOf(Elements(L[i].op.strokes)) \subseteq
                      {L[j].op.id : j \in {k \in 1..i-1 : Drawing(L[k])}}
  BY DEF Restored
<1>2. \/ i \in 1..Len(ledger) /\ L[i] = ledger[i]
      \/ \E j \in 1..Len(outbox[p]) : i = Len(ledger) + j /\ L[i] = outbox[p][j]
  BY LogPlaces
<1> HIDE DEF L
<1>3. i \in 1..n /\ L[i] = ledger[i]
  BY <1>2 DEF Counted
<1>4. IdsOf(Elements(L[i].op.strokes)) \subseteq
        {ledger[j].op.id : j \in {k \in 1..i-1 : Drawing(ledger[k])}}
  BY <1>3 DEF Restored
<1>5. \A k \in 1..i-1 : L[k] = ledger[k]
  BY <1>1, <1>3
<1>6. \A k \in 1..i-1 : Drawing(ledger[k]) <=> Drawing(L[k])
  BY <1>5 DEF Drawing
<1> QED
  BY <1>4, <1>5, <1>6

\* A page that has just loaded the board follows its log.
LEMMA LoadedFollows ==
  ASSUME Typed, Counted, Restored(ledger), NEW p \in Pages, NEW upTo \in 0..Len(ledger)
  PROVE  /\ LoadedBoard(Truth(upTo)) \in SoundBoard
         /\ Tokens(SubSeq(ledger, 1, upTo)) \in Seq(Step)
         /\ Elements(Tokens(SubSeq(ledger, 1, upTo))) = {ledger[i].token : i \in 1..upTo}
         /\ Follower(p, Log(p), LoadedBoard(Truth(upTo)), Tokens(SubSeq(ledger, 1, upTo)))
<1> DEFINE L == Log(p)
<1>1. Typed /\ ledger \in Seq(SoundEntry) /\ Len(ledger) \in Nat /\ upTo \in Nat /\ upTo <= Len(ledger)
  BY LenProperties DEF Typed
<1>2. Truth(upTo) = Replayed(ledger, upTo) /\ Truth(upTo) \in Plain
  BY <1>1, TruthIs
<1>3. LoadedBoard(Truth(upTo)) \in SoundBoard
  BY <1>2, LoadedSound
<1>4. /\ Tokens(SubSeq(ledger, 1, upTo)) \in Seq(Step)
      /\ Elements(Tokens(SubSeq(ledger, 1, upTo))) = {ledger[i].token : i \in 1..upTo}
  BY <1>1, LoadedSteps
<1>5. /\ L \in Seq(SoundEntry) /\ Len(L) = Len(ledger) + Len(outbox[p]) /\ Len(outbox[p]) \in Nat
      /\ \A i \in 1..Len(ledger) : L[i] = ledger[i]
  BY <1>1, LogFacts
<1>6. Restored(L)
  BY LogRestored
<1>7. SubSeq(L, 1, upTo) = SubSeq(ledger, 1, upTo)
  <2>1. 0 \in Nat /\ 0 <= upTo /\ 0 + 1 = 1
    BY <1>1
  <2>2. \A n \in Nat : n <= upTo => SubSeq(L, n + 1, upTo) = SubSeq(ledger, n + 1, upTo)
    BY <1>1, LogStretch
  <2>3. SubSeq(L, 0 + 1, upTo) = SubSeq(ledger, 0 + 1, upTo)
    BY <2>1, <2>2
  <2> QED
    BY <2>1, <2>3
<1> HIDE DEF L
<1>8. upTo \in 0..Len(L)
  BY <1>1, <1>5
<1>9. \A i \in 1..upTo : L[i] = ledger[i]
  BY <1>1, <1>5
<1>10. Replayed(L, upTo) = Replayed(ledger, upTo)
  BY <1>1, <1>5, <1>8, <1>9, ReplayedPrefix
<1>11. Follower(p, L, LoadedBoard(Replayed(L, upTo)), Tokens(SubSeq(L, 1, upTo)))
  BY <1>5, <1>6, <1>8, FollowerLoads
<1> QED
  BY <1>2, <1>3, <1>4, <1>7, <1>10, <1>11 DEF L

LEMMA TakeLoadKeeps ==
  ASSUME IInv, NEW p \in Pages, NEW i \in DOMAIN loads[p],
         NEW seq \in 0..Len(ledger), NEW upTo \in 0..Len(ledger),
         TakeLoad(p, i, seq, upTo)
  PROVE  IInv'
<1> DEFINE load == loads[p][i]
           ignored == load.first /\ Truth(upTo) = <<>>
           view == IF ignored THEN View(p) ELSE LoadedView(seq, upTo)
           requests == Others(loads[p], i)
           after == load.after
           behind == load.upTo
           aged == [k \in DOMAIN polls[p] |-> [polls[p][k] EXCEPT !.late = TRUE]]
<1>1. /\ load.since <= seq /\ seq <= upTo
      /\ ignored => polls' = polls
      /\ ~ ignored => polls' = [polls EXCEPT ![p] = aged]
      /\ Polled(p, view, requests, after, behind)
      /\ UNCHANGED <<ledger, nextId, held, outbox, made, heard, undos>>
  BY DEF TakeLoad
<1>2. /\ load \in Request /\ Asks(load) /\ requests \in Seq(Request) /\ AllAsk(requests)
      /\ \A q \in Pages : AllAsk(loads[q])
  BY RequestFacts
<1>3. Typed /\ Bounded /\ Len(ledger) \in Nat /\ seq \in Nat /\ upTo \in Nat /\ upTo <= Len(ledger)
  <2>1. Typed /\ Bounded
    BY DEF IInv
  <2>2. Len(ledger) \in Nat
    BY <2>1, LenProperties DEF Typed
  <2> QED
    BY <2>1, <2>2
<1>4. /\ after \in Nat /\ behind \in Nat /\ after <= behind /\ behind <= Len(ledger)
      /\ after <= upTo /\ seq <= Len(ledger)
      /\ ignored => after = 0
  BY <1>1, <1>2, <1>3 DEF Request, Asks
<1>5. /\ aged \in Seq(Poll) /\ Len(aged) = Len(polls[p])
      /\ \A k \in 1..Len(aged) : aged[k].late
  <2> DEFINE s == polls[p]
  <2>1. s \in Seq(Poll) /\ Len(s) \in Nat /\ DOMAIN s = 1..Len(s)
    BY <1>3, LenProperties DEF Typed
  <2>2. \A k \in 1..Len(s) : s[k] \in Poll
    BY <2>1, ElementOfSeq
  <2> HIDE DEF s
  <2> DEFINE old == [k \in 1..Len(s) |-> [s[k] EXCEPT !.late = TRUE]]
  <2>3. \A k \in 1..Len(s) : old[k] \in Poll /\ old[k].late
    BY <2>2 DEF Poll
  <2>4. old \in Seq(Poll) /\ Len(old) = Len(s)
    <3>1. old \in [1..Len(s) -> Poll]
      BY <2>3
    <3> QED
      BY <2>1, <3>1, LenProperties
  <2>5. aged = old
    BY <2>1 DEF s
  <2> HIDE DEF old, aged
  <2> QED
    BY <2>3, <2>4, <2>5 DEF s
<1> HIDE DEF aged
<1>6. /\ LoadedBoard(Truth(upTo)) \in SoundBoard
      /\ Tokens(SubSeq(ledger, 1, upTo)) \in Seq(Step)
      /\ Elements(Tokens(SubSeq(ledger, 1, upTo))) = {ledger[k].token : k \in 1..upTo}
      /\ Follower(p, Log(p), LoadedBoard(Truth(upTo)), Tokens(SubSeq(ledger, 1, upTo)))
  BY LoadedFollows DEF IInv
<1> HIDE DEF ignored
<1>7. ignored => /\ view.board = board[p] /\ view.version = version[p]
                 /\ view.applied = applied[p]
  BY DEF View
<1>8. ~ ignored => /\ view.board = LoadedBoard(Truth(upTo)) /\ view.version = seq
                   /\ view.applied = Tokens(SubSeq(ledger, 1, upTo))
  BY DEF LoadedView
<1> HIDE DEF view, requests, after, behind
<1>9. /\ view.board \in SoundBoard /\ view.version \in Nat /\ view.applied \in Seq(Step)
      /\ view.version <= Len(ledger) + Len(outbox[p])
  <2>1. Len(outbox[p]) \in Nat
    BY <1>3, LogFacts
  <2>2. seq <= Len(ledger) + Len(outbox[p])
    BY <1>3, <1>4, <2>1
  <2>3. /\ board[p] \in SoundBoard /\ version[p] \in Nat /\ applied[p] \in Seq(Step)
        /\ version[p] <= Len(ledger) + Len(outbox[p])
    BY <1>3 DEF Typed, Bounded
  <2> QED
    BY <1>3, <1>6, <1>7, <1>8, <2>2, <2>3
<1>10. /\ polls' \in [Pages -> Seq(Poll)] /\ Len(polls'[p]) <= MaxRequests
       /\ \A q \in Pages : q # p => polls'[q] = polls[q]
       /\ ~ ignored => polls'[p] = aged
  <2>1. polls \in [Pages -> Seq(Poll)] /\ Len(polls[p]) <= MaxRequests
    BY <1>3 DEF Typed, Bounded
  <2>2. CASE ignored
    BY <1>1, <2>1, <2>2
  <2>3. CASE ~ ignored
    <3>1. polls' = [polls EXCEPT ![p] = aged]
      BY <1>1, <2>3
    <3> QED
      BY <1>5, <2>1, <2>3, <3>1
  <2> QED
    BY <2>2, <2>3
<1>11. ASSUME made[p] = 0, {Unloaded(p), Late(p)} \cap Elements(view.applied) = {}
       PROVE  /\ Covers(ledger, after, view.applied)
              /\ Watching(view.version, polls'[p], view.applied)
  <2>1. CASE ignored
    <3>1. Watches(p)
      BY <1>7, <1>11, <2>1 DEF Watches, AllApplied
    <3>2. Watching(view.version, polls'[p], view.applied)
      BY <1>1, <1>7, <2>1, <3>1 DEF IInv, Watched, Watching
    <3>3. Covers(ledger, after, view.applied)
      BY <1>3, <1>4, <2>1 DEF Covers
    <3> QED
      BY <3>2, <3>3
  <2>2. CASE ~ ignored
    <3>1. Elements(view.applied) = {ledger[k].token : k \in 1..upTo}
      BY <1>6, <1>8, <2>2
    <3>2. \A n \in Nat : n <= upTo => Covers(ledger, n, view.applied)
      <4> SUFFICES ASSUME NEW n \in Nat, n <= upTo PROVE Covers(ledger, n, view.applied)
        OBVIOUS
      <4>1. n <= Len(ledger) /\ \A k \in 1..n : k \in 1..upTo
        BY <1>3
      <4> QED
        BY <3>1, <4>1 DEF Covers
    <3>3. Covers(ledger, after, view.applied) /\ Covers(ledger, seq, view.applied)
      BY <1>1, <1>3, <1>4, <3>2
    <3> QED
      BY <1>5, <1>8, <1>10, <2>2, <3>3 DEF Watching
  <2> QED
    BY <2>1, <2>2
<1>12. \A q \in Page, n \in Int : n > 0 /\ <<q, n>> \in Elements(view.applied) =>
         <<q, n>> \in Elements(applied[p]) \cup TokensIn(ledger)
  <2>1. \A k \in 1..upTo : k \in 1..Len(ledger)
    BY <1>3
  <2>2. {ledger[k].token : k \in 1..upTo} \subseteq TokensIn(ledger)
    BY <2>1 DEF TokensIn
  <2>3. Elements(view.applied) \subseteq Elements(applied[p]) \cup TokensIn(ledger)
    BY <1>6, <1>7, <1>8, <2>2
  <2> QED
    BY <2>3
<1>13. NamedApart => Follower(p, Log(p), view.board, view.applied)
  <2>1. NamedApart => Follower(p, Log(p), board[p], applied[p])
    BY DEF IInv, Followed
  <2> QED
    BY <1>6, <1>7, <1>8, <2>1
<1>14. PICK last \in after..behind : TakesIn(p, view, after, last)
  BY <1>1, <1>2, <1>3, <1>4, PolledFacts
<1>15. last \in Nat /\ after <= last /\ last <= Len(ledger)
  BY <1>3, <1>4
<1> QED
  BY <1>1, <1>4, <1>9, <1>10, <1>11, <1>12, <1>13, <1>14, <1>15, TakesInKeeps

-----------------------------------------------------------------------------
(* The ledger grows.                                                        *)

LEMMA LedgerGrows ==
  ASSUME Typed, NEW e \in SoundEntry, ledger' = Append(ledger, e)
  PROVE  /\ ledger' \in Seq(SoundEntry) /\ Len(ledger) \in Nat /\ Len(ledger') = Len(ledger) + 1
         /\ \A i \in 1..Len(ledger) : ledger'[i] = ledger[i]
         /\ ledger'[Len(ledger) + 1] = e
         /\ \A i \in 1..Len(ledger') : i \in 1..Len(ledger) \/ i = Len(ledger) + 1
         /\ \A i \in 1..Len(ledger) : i \in 1..Len(ledger')
         /\ Len(ledger) + 1 \in 1..Len(ledger')
<1> DEFINE n == Len(ledger)
           M == Append(ledger, e)
<1>1. ledger \in Seq(SoundEntry) /\ n \in Nat
  BY LenProperties DEF Typed
<1>2. /\ M \in Seq(SoundEntry) /\ Len(M) = n + 1
      /\ \A i \in 1..n : M[i] = ledger[i]
      /\ M[n + 1] = e
  BY <1>1, AppendProperties
<1> HIDE DEF n, M
<1>3. /\ \A i \in 1..n + 1 : i \in 1..n \/ i = n + 1
      /\ \A i \in 1..n : i \in 1..n + 1
      /\ n + 1 \in 1..n + 1
  BY <1>1
<1>4. ledger' = M
  BY DEF M
<1> QED
  BY <1>1, <1>2, <1>3, <1>4 DEF n

\* What was covered stays covered, and what was applied stays known.
LEMMA GrownCovers ==
  ASSUME Typed, NEW e \in SoundEntry, ledger' = Append(ledger, e)
  PROVE  /\ \A n \in Nat : \A steps : Covers(ledger, n, steps) => Covers(ledger', n, steps)
         /\ TokensIn(ledger') = TokensIn(ledger) \cup {e.token}
         /\ Elements(ledger') = Elements(ledger) \cup {e}
<1> DEFINE l == Len(ledger)
           M == ledger'
<1>1. /\ M \in Seq(SoundEntry) /\ l \in Nat /\ Len(M) = l + 1
      /\ \A i \in 1..l : M[i] = ledger[i]
      /\ M[l + 1] = e
      /\ \A i \in 1..Len(M) : i \in 1..l \/ i = l + 1
      /\ \A i \in 1..l : i \in 1..Len(M)
      /\ l + 1 \in 1..Len(M)
  BY LedgerGrows
<1>2. ledger \in Seq(SoundEntry) /\ DOMAIN ledger = 1..Len(ledger) /\ DOMAIN M = 1..Len(M)
  BY <1>1, LenProperties DEF Typed
<1>3. ASSUME NEW n \in Nat, NEW steps, Covers(ledger, n, steps) PROVE Covers(M, n, steps)
  <2>1. n <= Len(ledger) /\ {ledger[i].token : i \in 1..n} \subseteq Elements(steps)
    BY <1>3 DEF Covers
  <2>2. \A i \in 1..n : i \in 1..l
    BY <1>1, <2>1
  <2>3. \A i \in 1..n : M[i] = ledger[i]
    BY <1>1, <2>2
  <2>4. n <= Len(M)
    BY <1>1, <2>1
  <2> HIDE DEF M
  <2> QED
    BY <2>1, <2>3, <2>4 DEF Covers
<1> HIDE DEF l, M
<1>4. TokensIn(M) = TokensIn(ledger) \cup {e.token}
  BY <1>1 DEF TokensIn, l
<1>5. Elements(M) = Elements(ledger) \cup {e}
  BY <1>1, <1>2 DEF Elements, l
<1> QED
  BY <1>3, <1>4, <1>5 DEF M

LEMMA GrownRestored ==
  ASSUME Typed, NEW e \in SoundEntry, ledger' = Append(ledger, e), Restored(ledger),
         e.op.type = "restore_version" =>
           IdsOf(Elements(e.op.strokes)) \subseteq
             {ledger[j].op.id : j \in {k \in 1..Len(ledger) : Drawing(ledger[k])}}
  PROVE  Restored(ledger')
<1> DEFINE l == Len(ledger)
           M == ledger'
<1>1. /\ l \in Nat
      /\ \A i \in 1..l : M[i] = ledger[i]
      /\ M[l + 1] = e
      /\ \A i \in 1..Len(M) : i \in 1..l \/ i = l + 1
  BY LedgerGrows
<1> HIDE DEF M
<1> SUFFICES ASSUME NEW i \in 1..Len(M), M[i].op.type = "restore_version"
             PROVE  IdsOf(Elements(M[i].op.strokes)) \subseteq
                      {M[j].op.id : j \in {k \in 1..i-1 : Drawing(M[k])}}
  BY DEF Restored, M
<1>2. i \in 1..l \/ i = l + 1
  BY <1>1
<1>3. \A k \in 1..i-1 : M[k] = ledger[k]
  BY <1>1, <1>2
<1>4. \A k \in 1..i-1 : Drawing(ledger[k]) <=> Drawing(M[k])
  BY <1>3 DEF Drawing
<1>5. IdsOf(Elements(M[i].op.strokes)) \subseteq
        {ledger[j].op.id : j \in {k \in 1..i-1 : Drawing(ledger[k])}}
  <2>1. CASE i \in 1..l
    BY <1>1, <2>1 DEF Restored
  <2>2. CASE i = l + 1
    <3>1. M[i] = e /\ i - 1 = l
      BY <1>1, <2>2
    <3> QED
      BY <3>1
  <2> QED
    BY <1>2, <2>1, <2>2
<1> QED
  BY <1>3, <1>4, <1>5

\* The same for a single entry.
LEMMA FollowerAdmits ==
  ASSUME NEW p \in Pages, NEW L \in Seq(SoundEntry), NEW M \in Seq(SoundEntry),
         NEW m \in 0..Len(L), Len(M) = Len(L) + 1,
         \A i \in 1..m : M[i] = L[i],
         \A i \in m+1..Len(L) : M[i+1] = L[i],
         NEW b, NEW steps \in Seq(Step),
         M[m+1].token \notin Elements(steps),
         Follower(p, L, b, steps)
  PROVE  Follower(p, M, b, steps)
<1>1. 1 \in Nat /\ 1 > 0 /\ \A i \in m+1..m+1 : i = m + 1
  OBVIOUS
<1>2. \A i \in m+1..m+1 : M[i].token \notin Elements(steps)
  BY <1>1
<1> QED
  BY <1>1, <1>2, FollowerKeeps

\* A page whose own log grows in the middle, by what it has not applied, follows it.
LEMMA GrownFollower ==
  ASSUME Typed, NEW e \in SoundEntry, ledger' = Append(ledger, e),
         NEW q \in Pages, outbox'[q] = outbox[q],
         e.token \notin AllApplied(q), Follower(q, Log(q), board[q], applied[q])
  PROVE  Follower(q, Log(q)', board[q], applied[q])
<1> DEFINE l == Len(ledger)
           o == outbox[q]
           L == Log(q)
           grown == ledger'
           M == grown \o o
<1>1. /\ grown \in Seq(SoundEntry) /\ l \in Nat /\ Len(grown) = l + 1
      /\ \A i \in 1..l : grown[i] = ledger[i]
      /\ grown[l + 1] = e
  BY LedgerGrows
<1>2. /\ L \in Seq(SoundEntry) /\ Len(o) \in Nat /\ Len(L) = l + Len(o)
      /\ \A i \in 1..l : L[i] = ledger[i]
      /\ \A i \in 1..Len(o) : L[l + i] = o[i]
  BY LogFacts
<1>3. o \in Seq(SoundEntry)
  BY DEF Typed
<1>4. Log(q)' = M
  BY DEF Log
<1> DEFINE k == Len(o)
<1> HIDE DEF grown, L, o
<1>5. M \in Seq(SoundEntry) /\ Joined(grown, o, M)
  BY <1>1, <1>3, ConcatPlaces
<1> HIDE DEF M
<1>6. /\ Len(M) = l + 1 + k
      /\ \A i \in 1..l + 1 : M[i] = grown[i]
      /\ \A i \in 1..k : M[l + 1 + i] = o[i]
  BY <1>1, <1>5 DEF Joined
<1> HIDE DEF k, l
<1>7. l \in 0..Len(L) /\ Len(M) = Len(L) + 1 /\ k \in Nat
  BY <1>1, <1>2, <1>6 DEF k
<1>8. \A i \in 1..l : M[i] = L[i]
  BY <1>1, <1>2, <1>6
<1>9. \A i \in l+1..Len(L) : M[i + 1] = L[i]
  <2> SUFFICES ASSUME NEW i \in l+1..Len(L) PROVE M[i + 1] = L[i]
    OBVIOUS
  <2> DEFINE j == i - l
  <2>1. j \in 1..k /\ i = l + j /\ i + 1 = l + 1 + j
    BY <1>1, <1>2, <1>7 DEF k
  <2> HIDE DEF j
  <2>2. M[l + 1 + j] = o[j] /\ L[l + j] = o[j]
    BY <1>2, <1>6, <2>1 DEF k
  <2> QED
    BY <2>1, <2>2
<1> DEFINE b == board[q]
           steps == applied[q]
<1>10. M[l+1].token \notin Elements(steps)
  <2>1. l + 1 \in 1..l + 1
    BY <1>1
  <2>2. M[l + 1] = e
    BY <1>1, <1>6, <2>1
  <2> QED
    BY <2>1, <2>2 DEF AllApplied
<1>11. steps \in Seq(Step) /\ Follower(q, L, b, steps)
  BY DEF Typed, L
<1> HIDE DEF b, steps
<1>12. Follower(q, M, b, steps)
  BY <1>2, <1>5, <1>7, <1>8, <1>9, <1>10, <1>11, FollowerAdmits
<1> QED
  BY <1>4, <1>12 DEF b, steps

\* What is stored is the oldest of what the page has emitted.
LEMMA StoreFacts ==
  ASSUME IInv, NEW p \in Pages, Store(p)
  PROVE  LET e == outbox[p][1] IN
         /\ e \in SoundEntry /\ e.page = p /\ Counts(e, made)
         /\ e.op.type # "restore_version"
         /\ ledger' = Append(ledger, e)
         /\ outbox'[p] \in Seq(SoundEntry)
         /\ Len(outbox[p]) \in Nat /\ Len(outbox'[p]) = Len(outbox[p]) - 1
         /\ 1 \in 1..Len(outbox[p])
         /\ \A i \in 1..Len(outbox'[p]) : /\ outbox'[p][i] = outbox[p][i + 1]
                                          /\ i + 1 \in 1..Len(outbox[p]) /\ i + 1 # 1
         /\ outbox' \in [Pages -> Seq(SoundEntry)]
         /\ \A q \in Pages : q # p => outbox'[q] = outbox[q]
         /\ UNCHANGED <<board, version, nextId, held, made, heard, polls, loads, applied, undos>>
<1> DEFINE o == outbox[p]
           t == Tail(o)
           n == Len(o)
<1>1. o \in Seq(SoundEntry) /\ o # <<>>
  BY DEF IInv, Typed, Store
<1>2. /\ ledger' = Append(ledger, Head(o)) /\ outbox' = [outbox EXCEPT ![p] = t]
      /\ UNCHANGED <<board, version, nextId, held, made, heard, polls, loads, applied, undos>>
  BY DEF Store, netVars
<1>3. n \in Nat /\ n > 0
  BY <1>1, EmptySeq, LenProperties
<1>4. o[1] \in SoundEntry /\ Head(o) = o[1] /\ 1 \in 1..n
  <2>1. Head(o) = o[1]
    BY <1>1, HeadTailProperties
  <2>2. 1 \in 1..n
    BY <1>3
  <2> QED
    BY <1>1, <2>1, <2>2, ElementOfSeq
<1>5. /\ t \in Seq(SoundEntry) /\ Len(t) = n - 1
      /\ \A i \in 1..n - 1 : t[i] = o[i + 1]
  BY <1>1, HeadTailProperties
<1>6. /\ o[1].page = p /\ Counts(o[1], made)
      /\ o[1].op.type # "restore_version"
  BY <1>4 DEF IInv, Counted
<1> HIDE DEF t, n
<1>7. \A i \in 1..n - 1 : i + 1 \in 1..n /\ i + 1 # 1
  BY <1>3
<1>8. /\ outbox'[p] = t /\ outbox' \in [Pages -> Seq(SoundEntry)]
      /\ \A q \in Pages : q # p => outbox'[q] = outbox[q]
  BY <1>2, <1>5 DEF IInv, Typed
<1> QED
  BY <1>2, <1>3, <1>4, <1>5, <1>6, <1>7, <1>8 DEF n

LEMMA StoreTyped ==
  ASSUME IInv, NEW p \in Pages, Store(p)
  PROVE  Typed' /\ Bounded'
<1> DEFINE e == outbox[p][1]
<1>1. /\ e \in SoundEntry /\ ledger' = Append(ledger, e)
      /\ outbox' \in [Pages -> Seq(SoundEntry)]
      /\ Len(outbox[p]) \in Nat /\ Len(outbox'[p]) = Len(outbox[p]) - 1
      /\ \A q \in Pages : q # p => outbox'[q] = outbox[q]
      /\ UNCHANGED <<board, version, nextId, held, made, heard, polls, loads, applied, undos>>
  BY StoreFacts
<1>2. Typed /\ Bounded
  BY DEF IInv
<1> HIDE DEF e
<1>3. ledger' \in Seq(SoundEntry) /\ Len(ledger) \in Nat /\ Len(ledger') = Len(ledger) + 1
  BY <1>1, <1>2, LedgerGrows
<1>4. Typed'
  BY <1>1, <1>2, <1>3 DEF Typed
<1>5. ASSUME NEW q \in Pages PROVE version'[q] <= Len(ledger') + Len(outbox'[q])
  <2>1. Len(outbox[q]) \in Nat /\ version[q] \in Nat /\ version[q] <= Len(ledger) + Len(outbox[q])
    BY <1>2, LogFacts DEF Typed, Bounded
  <2>2. CASE q = p
    BY <1>1, <1>3, <2>1, <2>2
  <2>3. CASE q # p
    BY <1>1, <1>3, <2>1, <2>3
  <2> QED
    BY <2>2, <2>3
<1>6. ASSUME NEW q \in Pages
      PROVE  /\ Connecting <= heard'[q] /\ heard'[q] <= Len(ledger')
             /\ Len(polls'[q]) <= MaxRequests
  <2>1. heard[q] \in Int /\ Connecting <= heard[q] /\ heard[q] <= Len(ledger) /\ Len(polls[q]) <= MaxRequests
    BY <1>2 DEF Typed, Bounded
  <2> QED
    BY <1>1, <1>3, <2>1
<1>7. ASSUME NEW q \in Pages, NEW i \in 1..Len(loads'[q]) PROVE Asks(loads[q][i])'
  <2> DEFINE r == loads'[q]
  <2>1. r \in Seq(Request) /\ i \in 1..Len(r) /\ Asks(r[i])
    BY <1>1, <1>2, <1>7 DEF Typed, Bounded
  <2>2. r[i] \in Request
    BY <2>1, ElementOfSeq
  <2> DEFINE since == r[i].since
             upTo == r[i].upTo
             more == Len(ledger')
  <2>3. /\ since \in Nat /\ upTo \in Nat
        /\ r[i].after <= upTo /\ upTo <= since /\ since <= Len(ledger)
        /\ r[i].first => r[i].after = 0 /\ upTo = 0
    BY <2>1, <2>2 DEF Asks, Request
  <2> HIDE DEF since
  <2>4. since <= more
    BY <1>3, <2>3
  <2> HIDE DEF more
  <2> QED
    BY <2>3, <2>4 DEF Asks, since, more
<1>8. Bounded'
  BY <1>1, <1>2, <1>5, <1>6, <1>7 DEF Bounded
<1> QED
  BY <1>4, <1>8

LEMMA StoreCounted ==
  ASSUME IInv, NEW p \in Pages, Store(p)
  PROVE  Counted'
<1> DEFINE e == outbox[p][1]
           l == Len(ledger)
           o == outbox[p]
           t == outbox'[p]
           M == ledger'
<1>1. /\ e \in SoundEntry /\ e.page = p /\ Counts(e, made) /\ ledger' = Append(ledger, e)
      /\ 1 \in 1..Len(o)
      /\ \A i \in 1..Len(t) : t[i] = o[i + 1] /\ i + 1 \in 1..Len(o) /\ i + 1 # 1
      /\ \A q \in Pages : q # p => outbox'[q] = outbox[q]
      /\ made' = made
  BY StoreFacts
<1>2. Typed /\ Counted
  BY DEF IInv
<1>3. /\ l \in Nat /\ Len(M) = l + 1
      /\ \A i \in 1..l : M[i] = ledger[i]
      /\ M[l + 1] = e
      /\ \A i \in 1..Len(M) : i \in 1..l \/ i = l + 1
  BY <1>1, <1>2, LedgerGrows
<1>4. /\ \A i \in 1..l : Counts(ledger[i], made)
      /\ \A i, j \in 1..l : ledger[i].token = ledger[j].token => i = j
      /\ \A q \in Pages :
           /\ \A i \in 1..Len(outbox[q]) : /\ outbox[q][i].page = q /\ Counts(outbox[q][i], made)
                                           /\ outbox[q][i].op.type # "restore_version"
           /\ \A i, j \in 1..Len(outbox[q]) : outbox[q][i].token = outbox[q][j].token => i = j
           /\ \A i \in 1..l, j \in 1..Len(outbox[q]) : ledger[i].token # outbox[q][j].token
  BY <1>2 DEF Counted
<1>5. \A i \in 1..l : e.token # ledger[i].token
  BY <1>1, <1>4
<1>6. /\ \A j \in 1..Len(t) : e.token # t[j].token
      /\ \A i, j \in 1..Len(t) : t[i].token = t[j].token => i = j
  <2>1. \A i, j \in 1..Len(o) : o[i].token = o[j].token => i = j
    BY <1>4
  <2>2. ASSUME NEW j \in 1..Len(t), o[1].token = t[j].token PROVE FALSE
    <3>1. t[j] = o[j + 1] /\ j + 1 \in 1..Len(o) /\ j + 1 # 1
      BY <1>1
    <3> HIDE DEF o, t
    <3>2. 1 = j + 1
      BY <1>1, <2>1, <2>2, <3>1
    <3> QED
      BY <3>1, <3>2
  <2>3. ASSUME NEW i \in 1..Len(t), NEW j \in 1..Len(t), t[i].token = t[j].token PROVE i = j
    <3>1. /\ t[i] = o[i + 1] /\ i + 1 \in 1..Len(o)
          /\ t[j] = o[j + 1] /\ j + 1 \in 1..Len(o)
      BY <1>1
    <3> HIDE DEF o, t
    <3>2. i + 1 = j + 1
      BY <2>1, <2>3, <3>1
    <3> QED
      BY <3>2
  <2> QED
    BY <2>2, <2>3
<1> HIDE DEF e, l, M
<1>7. Total' <= MaxOps
  BY <1>1, <1>2 DEF Counted, Total, Made
<1>8. \A i \in 1..Len(M) : Counts(M[i], made)
  BY <1>1, <1>3, <1>4
<1>9. \A i, j \in 1..Len(M) : M[i].token = M[j].token => i = j
  BY <1>3, <1>4, <1>5
<1>10. ASSUME NEW q \in Pages
       PROVE  /\ \A i \in 1..Len(outbox'[q]) :
                   /\ outbox'[q][i].page = q /\ Counts(outbox'[q][i], made)
                   /\ outbox'[q][i].op.type # "restore_version"
              /\ \A i, j \in 1..Len(outbox'[q]) : outbox'[q][i].token = outbox'[q][j].token => i = j
              /\ \A i \in 1..Len(M), j \in 1..Len(outbox'[q]) : M[i].token # outbox'[q][j].token
  <2>1. CASE q = p
    <3>1. \A i \in 1..Len(t) : /\ t[i].page = p /\ Counts(t[i], made)
                               /\ t[i].op.type # "restore_version"
      BY <1>1, <1>4
    <3>2. \A i, j \in 1..Len(t) : t[i].token = t[j].token => i = j
      BY <1>6
    <3>3. \A i \in 1..Len(M), j \in 1..Len(t) : M[i].token # t[j].token
      <4> SUFFICES ASSUME NEW i \in 1..Len(M), NEW j \in 1..Len(t) PROVE M[i].token # t[j].token
        OBVIOUS
      <4>1. CASE i \in 1..l
        <5>1. ledger[i].token # o[j + 1].token
          BY <1>1, <1>4, <4>1
        <5> QED
          BY <1>1, <1>3, <4>1, <5>1
      <4>2. CASE i = l + 1
        BY <1>3, <1>6, <4>2
      <4> QED
        BY <1>3, <4>1, <4>2
    <3> QED
      BY <2>1, <3>1, <3>2, <3>3
  <2>2. CASE q # p
    <3>1. outbox'[q] = outbox[q]
      BY <1>1, <2>2
    <3>2. \A j \in 1..Len(outbox[q]) : outbox[q][j].token # e.token
      <4> SUFFICES ASSUME NEW j \in 1..Len(outbox[q]) PROVE outbox[q][j].token # e.token
        OBVIOUS
      <4>1. outbox[q][j].page = q /\ Counts(outbox[q][j], made)
        BY <1>4
      <4> QED
        BY <1>1, <2>2, <4>1 DEF Counts
    <3>3. \A i \in 1..Len(M), j \in 1..Len(outbox[q]) : M[i].token # outbox[q][j].token
      BY <1>3, <1>4, <3>2
    <3> QED
      BY <1>4, <3>1, <3>3
  <2> QED
    BY <2>1, <2>2
<1> QED
  BY <1>1, <1>7, <1>8, <1>9, <1>10 DEF Counted, M

LEMMA StoreElements ==
  ASSUME IInv, NEW p \in Pages, Store(p)
  PROVE  LET e == outbox[p][1] IN
         /\ Elements(outbox[p]) = Elements(outbox'[p]) \cup {e}
         /\ TokensIn(outbox[p]) = TokensIn(outbox'[p]) \cup {e.token}
         /\ Elements(ledger') = Elements(ledger) \cup {e}
         /\ TokensIn(ledger') = TokensIn(ledger) \cup {e.token}
<1> DEFINE e == outbox[p][1]
           o == outbox[p]
           t == outbox'[p]
<1>1. /\ e \in SoundEntry /\ ledger' = Append(ledger, e)
      /\ t \in Seq(SoundEntry)
      /\ Len(o) \in Nat /\ Len(t) = Len(o) - 1
      /\ 1 \in 1..Len(o)
      /\ \A i \in 1..Len(t) : t[i] = o[i + 1] /\ i + 1 \in 1..Len(o) /\ i + 1 # 1
  BY StoreFacts
<1>2. Typed
  BY DEF IInv
<1>3. /\ Elements(ledger') = Elements(ledger) \cup {e}
      /\ TokensIn(ledger') = TokensIn(ledger) \cup {e.token}
  BY <1>1, <1>2, GrownCovers
<1>4. DOMAIN o = 1..Len(o) /\ DOMAIN t = 1..Len(t)
  BY <1>1, <1>2, LenProperties DEF Typed
<1>5. e = o[1]
  OBVIOUS
<1> HIDE DEF e, o, t
<1>6. \A k \in 1..Len(o) : k = 1 \/ (k - 1 \in 1..Len(t) /\ k = k - 1 + 1)
  BY <1>1
<1>7. ASSUME NEW k \in 1..Len(o) PROVE k = 1 \/ \E i \in 1..Len(t) : o[k] = t[i]
  <2>1. CASE k = 1
    BY <2>1
  <2>2. CASE k # 1
    <3> DEFINE i == k - 1
    <3>1. i \in 1..Len(t) /\ k = i + 1
      BY <1>6, <2>2
    <3> HIDE DEF i
    <3>2. o[k] = t[i]
      BY <1>1, <3>1
    <3> QED
      BY <3>1, <3>2
  <2> QED
    BY <2>1, <2>2
<1>8. /\ Elements(o) = {o[k] : k \in 1..Len(o)} /\ Elements(t) = {t[k] : k \in 1..Len(t)}
      /\ \A i \in 1..Len(t) : \E k \in 1..Len(o) : t[i] = o[k]
  BY <1>1, <1>4 DEF Elements
<1> DEFINE n == Len(o)
           m == Len(t)
<1> HIDE DEF n, m
<1>9. Elements(o) = Elements(t) \cup {e}
  <2>1. {o[k] : k \in 1..n} = {t[k] : k \in 1..m} \cup {e}
    <3>1. ASSUME NEW k \in 1..n PROVE o[k] \in {t[i] : i \in 1..m} \cup {e}
      BY <1>5, <1>7 DEF n, m
    <3>2. ASSUME NEW i \in 1..m PROVE t[i] \in {o[k] : k \in 1..n}
      <4>1. PICK k \in 1..n : t[i] = o[k]
        BY <1>8 DEF n, m
      <4> QED
        BY <4>1
    <3>3. e \in {o[k] : k \in 1..n}
      BY <1>1, <1>5 DEF n
    <3> QED
      BY <3>1, <3>2, <3>3
  <2> QED
    BY <1>8, <2>1 DEF n, m
<1>10. TokensIn(o) = TokensIn(t) \cup {e.token}
  <2>1. {o[k].token : k \in 1..n} = {t[k].token : k \in 1..m} \cup {e.token}
    <3>1. ASSUME NEW k \in 1..n PROVE o[k].token \in {t[i].token : i \in 1..m} \cup {e.token}
      BY <1>5, <1>7 DEF n, m
    <3>2. ASSUME NEW i \in 1..m PROVE t[i].token \in {o[k].token : k \in 1..n}
      <4>1. PICK k \in 1..n : t[i] = o[k]
        BY <1>8 DEF n, m
      <4> QED
        BY <4>1
    <3>3. e.token \in {o[k].token : k \in 1..n}
      BY <1>1, <1>5 DEF n
    <3> QED
      BY <3>1, <3>2, <3>3
  <2> QED
    BY <2>1 DEF TokensIn, n, m
<1> QED
  BY <1>3, <1>9, <1>10 DEF e, o, t

\* Storing changes where an entry is, and neither adds nor drops one.
LEMMA StoreNamed ==
  ASSUME IInv, NEW p \in Pages, Store(p)
  PROVE  Named' /\ (NamedApart' => NamedApart)
<1> DEFINE e == outbox[p][1]
<1>1. /\ Elements(outbox[p]) = Elements(outbox'[p]) \cup {e}
      /\ Elements(ledger') = Elements(ledger) \cup {e}
  BY StoreElements
<1>2. (\A q \in Pages : q # p => outbox'[q] = outbox[q]) /\ nextId' = nextId
  BY StoreFacts
<1> HIDE DEF e
<1>3. Entries' = Entries
  <2>1. ASSUME NEW x PROVE x \in Entries' <=> x \in Entries
    <3>1. x \in Entries' <=> x \in Elements(ledger') \/ \E q \in Pages : x \in Elements(outbox'[q])
      BY DEF Entries
    <3>2. x \in Entries <=> x \in Elements(ledger) \/ \E q \in Pages : x \in Elements(outbox[q])
      BY DEF Entries
    <3>3. \A q \in Pages : x \in Elements(outbox'[q]) => x \in Elements(outbox[q])
      BY <1>1, <1>2
    <3>4. \A q \in Pages : x \in Elements(outbox[q]) => x \in Elements(outbox'[q]) \/ x = e
      BY <1>1, <1>2
    <3>5. e \in Elements(outbox[p]) /\ p \in Pages
      BY <1>1
    <3> QED
      BY <1>1, <3>1, <3>2, <3>3, <3>4, <3>5
  <2> HIDE DEF Entries
  <2> QED
    BY <2>1
<1>4. Named'
  BY <1>2, <1>3 DEF IInv, Named
<1>5. ASSUME NEW q \in Pages PROVE Pieces(q) \subseteq Pieces(q)'
  <2>1. Elements(ledger) \cup Elements(outbox[q]) \subseteq Elements(ledger') \cup Elements(outbox'[q])
    BY <1>1, <1>2
  <2> QED
    BY <2>1 DEF Pieces
<1>6. NamedApart' => NamedApart
  BY <1>5 DEF NamedApart
<1> QED
  BY <1>4, <1>6

LEMMA StoreOwned ==
  ASSUME IInv, NEW p \in Pages, Store(p)
  PROVE  Owned' /\ Watched' /\ Restored(ledger')
<1> DEFINE e == outbox[p][1]
<1>1. /\ TokensIn(outbox[p]) = TokensIn(outbox'[p]) \cup {e.token}
      /\ TokensIn(ledger') = TokensIn(ledger) \cup {e.token}
  BY StoreElements
<1>2. /\ e \in SoundEntry /\ e.op.type # "restore_version" /\ ledger' = Append(ledger, e)
      /\ \A q \in Pages : q # p => outbox'[q] = outbox[q]
      /\ UNCHANGED <<version, made, polls, applied>>
  BY StoreFacts
<1>3. Typed
  BY DEF IInv
<1> HIDE DEF e
<1>4. \A n \in Nat : \A steps : Covers(ledger, n, steps) => Covers(ledger', n, steps)
  BY <1>2, <1>3, GrownCovers
<1>5. Restored(ledger')
  BY <1>2, <1>3, GrownRestored DEF IInv
<1>6. Owned'
  <2>1. ASSUME NEW q \in Pages
        PROVE  TokensIn(ledger) \cup TokensIn(outbox[q]) \subseteq TokensIn(ledger') \cup TokensIn(outbox'[q])
    BY <1>1, <1>2
  <2>2. \A q \in Pages : AllApplied(q)' = AllApplied(q)
    BY <1>2 DEF AllApplied
  <2>3. ASSUME NEW q \in Pages, NEW r \in Page, NEW n \in Int, n > 0, <<r, n>> \in AllApplied(q)'
        PROVE  <<r, n>> \in TokensIn(ledger') \cup TokensIn(outbox'[q])
    <3>1. <<r, n>> \in TokensIn(ledger) \cup TokensIn(outbox[q])
      BY <2>2, <2>3 DEF IInv, Owned
    <3> QED
      BY <2>1, <3>1
  <2> QED
    BY <2>3 DEF Owned
<1>7. Watched'
  <2> SUFFICES ASSUME NEW q \in Pages, Watches(q)'
               PROVE  /\ Covers(ledger', version[q], applied[q])
                      /\ \A i \in 1..Len(polls[q]) :
                           ~ polls[q][i].late => Covers(ledger', polls[q][i].cursor, applied[q])
    BY <1>2 DEF Watched
  <2>1. Watches(q)
    BY <1>2 DEF Watches, AllApplied
  <2>2. /\ Covers(ledger, version[q], applied[q])
        /\ \A i \in 1..Len(polls[q]) :
             ~ polls[q][i].late => Covers(ledger, polls[q][i].cursor, applied[q])
    BY <2>1 DEF IInv, Watched
  <2>3. version[q] \in Nat /\ polls[q] \in Seq(Poll)
    BY <1>3 DEF Typed
  <2>4. Covers(ledger', version[q], applied[q])
    BY <1>4, <2>2, <2>3
  <2>5. ASSUME NEW i \in 1..Len(polls[q]), ~ polls[q][i].late
        PROVE  Covers(ledger', polls[q][i].cursor, applied[q])
    <3>1. polls[q][i] \in Poll
      BY <2>3, ElementOfSeq
    <3>2. polls[q][i].cursor \in Nat
      BY <3>1 DEF Poll
    <3> DEFINE n == polls[q][i].cursor
    <3>3. n \in Nat /\ Covers(ledger, n, applied[q])
      BY <2>2, <2>5, <3>2
    <3> HIDE DEF n
    <3>4. Covers(ledger', n, applied[q])
      BY <1>4, <3>3
    <3> QED
      BY <3>4 DEF n
  <2> QED
    BY <2>4, <2>5
<1> QED
  BY <1>5, <1>6, <1>7

LEMMA StoreFollowed ==
  ASSUME IInv, NEW p \in Pages, Store(p)
  PROVE  Followed'
<1> DEFINE e == outbox[p][1]
           o == outbox[p]
           t == outbox'[p]
           l == Len(ledger)
           grown == ledger'
<1>1. /\ e \in SoundEntry /\ e.page = p /\ Counts(e, made) /\ ledger' = Append(ledger, e)
      /\ t \in Seq(SoundEntry)
      /\ Len(o) \in Nat /\ Len(t) = Len(o) - 1
      /\ 1 \in 1..Len(o)
      /\ \A i \in 1..Len(t) : t[i] = o[i + 1] /\ i + 1 \in 1..Len(o) /\ i + 1 # 1
      /\ \A q \in Pages : q # p => outbox'[q] = outbox[q]
      /\ UNCHANGED <<board, made, applied>>
  BY StoreFacts
<1>2. Typed /\ Counted /\ Owned
  BY DEF IInv
<1> SUFFICES ASSUME NamedApart', NEW q \in Pages
             PROVE  Follower(q, Log(q)', board[q], applied[q])
  BY <1>1 DEF Followed
<1>3. Follower(q, Log(q), board[q], applied[q])
  BY StoreNamed DEF IInv, Followed
<1>4. CASE q = p
  <2> DEFINE L == Log(p)
             M == grown \o t
  <2>1. /\ grown \in Seq(SoundEntry) /\ l \in Nat /\ Len(grown) = l + 1
        /\ \A i \in 1..l : grown[i] = ledger[i]
        /\ grown[l + 1] = e
    BY <1>1, <1>2, LedgerGrows
  <2>2. /\ L \in Seq(SoundEntry) /\ Len(L) = l + Len(o)
        /\ \A i \in 1..l : L[i] = ledger[i]
        /\ \A i \in 1..Len(o) : L[l + i] = o[i]
    BY <1>2, LogFacts
  <2>3. Log(p)' = M /\ e = o[1]
    BY DEF Log
  <2> HIDE DEF grown, L, o, t, e
  <2>4. M \in Seq(SoundEntry) /\ Joined(grown, t, M)
    BY <1>1, <2>1, ConcatPlaces
  <2> HIDE DEF M
  <2> DEFINE n == Len(o)
             k == Len(t)
  <2>5. /\ Len(M) = l + 1 + k
        /\ \A i \in 1..l + 1 : M[i] = grown[i]
        /\ \A i \in 1..k : M[l + 1 + i] = t[i]
    BY <2>1, <2>4 DEF Joined
  <2>6. n \in Nat /\ k = n - 1 /\ 1 \in 1..n /\ \A i \in 1..k : t[i] = o[i + 1] /\ i + 1 \in 1..n
    BY <1>1
  <2> HIDE DEF n, k, l
  <2>7. Len(M) = Len(L)
    BY <2>1, <2>2, <2>5, <2>6 DEF n
  <2>8. ASSUME NEW i \in 1..Len(M) PROVE M[i] = L[i]
    <3>1. CASE i \in 1..l
      BY <2>1, <2>2, <2>5, <3>1
    <3>2. CASE i = l + 1
      <4>1. i \in 1..l + 1
        BY <2>1, <3>2
      <4>2. L[l + 1] = o[1]
        BY <2>2, <2>6 DEF n
      <4> QED
        BY <2>1, <2>3, <2>5, <3>2, <4>1, <4>2
    <3>3. CASE i \in l + 2..l + 1 + k
      <4> DEFINE j == i - (l + 1)
      <4>1. j \in 1..k /\ i = l + 1 + j /\ i = l + (j + 1)
        BY <2>1, <2>6, <3>3
      <4> HIDE DEF j
      <4>2. M[l + 1 + j] = t[j] /\ t[j] = o[j + 1] /\ j + 1 \in 1..n
        BY <2>5, <2>6, <4>1
      <4>3. L[l + (j + 1)] = o[j + 1]
        BY <2>2, <4>2 DEF n
      <4> QED
        BY <4>1, <4>2, <4>3
    <3>4. i \in 1..l \/ i = l + 1 \/ i \in l + 2..l + 1 + k
      BY <2>1, <2>5, <2>6
    <3> QED
      BY <3>1, <3>2, <3>3, <3>4
  <2>9. M = L
    BY <2>2, <2>4, <2>7, <2>8, SeqEqual
  <2> QED
    BY <1>3, <1>4, <2>3, <2>9 DEF L
<1>5. CASE q # p
  <2>1. outbox'[q] = outbox[q]
    BY <1>1, <1>5
  <2>2. e.token \notin AllApplied(q)
    <3> SUFFICES ASSUME e.token \in AllApplied(q) PROVE FALSE
      OBVIOUS
    <3>1. PICK n \in Nat : n > 0 /\ e.token = <<p, n>>
      BY <1>1 DEF Counts
    <3>2. p \in Page /\ n \in Int
      BY DEF Page
    <3>3. e.token \in TokensIn(ledger) \cup TokensIn(outbox[q])
      BY <1>2, <3>1, <3>2 DEF Owned
    <3>4. e.token \notin TokensIn(ledger)
      BY <1>1, <1>2 DEF Counted, TokensIn
    <3>5. \A j \in 1..Len(outbox[q]) : outbox[q][j].token # e.token
      <4> SUFFICES ASSUME NEW j \in 1..Len(outbox[q]) PROVE outbox[q][j].token # e.token
        OBVIOUS
      <4>1. outbox[q][j].page = q /\ Counts(outbox[q][j], made)
        BY <1>2 DEF Counted
      <4> QED
        BY <1>1, <1>5, <4>1 DEF Counts
    <3> QED
      BY <3>3, <3>4, <3>5 DEF TokensIn
  <2> HIDE DEF e
  <2> QED
    BY <1>1, <1>2, <1>3, <2>1, <2>2, GrownFollower
<1> QED
  BY <1>4, <1>5

\* An operation of a page is stored.
LEMMA StoreKeeps ==
  ASSUME IInv, NEW p \in Pages, Store(p)
  PROVE  IInv'
BY StoreTyped, StoreCounted, StoreNamed, StoreOwned, StoreFollowed DEF IInv

\* A page restores the board.
Restoring(p, e) ==
  /\ e \in SoundEntry /\ e.page = p /\ e.token = <<p, made[p] + 1>>
  /\ e.op.type = "restore_version"
  /\ IdsOf(Elements(e.op.strokes)) \subseteq
       {ledger[j].op.id : j \in {k \in 1..Len(ledger) : Drawing(ledger[k])}}
  /\ ledger' = Append(ledger, e)
  /\ made' = [made EXCEPT ![p] = @ + 1]
  /\ Total < MaxOps
  /\ Load(p)
  /\ UNCHANGED <<board, version, nextId, held, outbox, heard, polls, applied, undos>>

LEMMA RevertRestores ==
  ASSUME IInv, NEW p \in Pages, NEW target \in 1..Len(ledger) - 1, Revert(p, target)
  PROVE  \E e : Restoring(p, e)
<1> DEFINE op == [type |-> "restore_version", strokes |-> Truth(target)]
           n == made[p] + 1
           e == Entry(p, n, op)
<1>1. Typed /\ ledger \in Seq(SoundEntry) /\ Len(ledger) \in Nat
  BY LenProperties DEF IInv, Typed
<1>2. target \in 0..Len(ledger) /\ \A k \in 1..target : k \in 1..Len(ledger)
  BY <1>1
<1>3. Truth(target) \in Plain /\ Truth(target) = Replayed(ledger, target)
  BY <1>1, <1>2, TruthIs
<1>4. IdsOf(Elements(Replayed(ledger, target))) \subseteq
        {ledger[j].op.id : j \in {k \in 1..target : Drawing(ledger[k])}}
  BY <1>1, <1>2, ReplayedKnown DEF IInv
<1>5. op \in SoundServerOp /\ op.type = "restore_version" /\ op.strokes = Truth(target)
  BY <1>3 DEF SoundServerOp
<1> HIDE DEF op
<1>6. n \in Nat
  BY <1>1 DEF Typed
<1>7. e \in SoundEntry /\ e.page = p /\ e.token = <<p, n>> /\ e.op = op
  BY <1>5, <1>6, EntrySound
<1>8. /\ Total < MaxOps /\ ledger' = Append(ledger, e) /\ made' = [made EXCEPT ![p] = @ + 1]
      /\ Load(p)
      /\ UNCHANGED <<board, version, nextId, held, outbox, heard, polls, applied, undos>>
  BY DEF Revert, Entry, op
<1> HIDE DEF e
<1>9. IdsOf(Elements(e.op.strokes)) \subseteq
        {ledger[j].op.id : j \in {k \in 1..Len(ledger) : Drawing(ledger[k])}}
  BY <1>2, <1>3, <1>4, <1>5, <1>7
<1>10. Restoring(p, e)
  BY <1>5, <1>7, <1>8, <1>9 DEF Restoring
<1> QED
  BY <1>10

LEMMA RestoringTyped ==
  ASSUME IInv, NEW p \in Pages, NEW e, Restoring(p, e)
  PROVE  Typed' /\ Bounded'
<1>1. /\ e \in SoundEntry /\ ledger' = Append(ledger, e)
      /\ made' = [made EXCEPT ![p] = @ + 1] /\ Load(p)
      /\ UNCHANGED <<board, version, nextId, held, outbox, heard, polls, applied, undos>>
  BY DEF Restoring
<1>2. Typed /\ Bounded
  BY DEF IInv
<1>3. ledger' \in Seq(SoundEntry) /\ Len(ledger) \in Nat /\ Len(ledger') = Len(ledger) + 1
  BY <1>1, <1>2, LedgerGrows
<1>4. loads' \in [Pages -> Seq(Request)] /\ \A q \in Pages : AllAsk(loads'[q])
  <2> DEFINE r == loads[p]
             more == Append(r, Fetch(FALSE, 0, 0))
  <2>1. \A q \in Pages : loads[q] \in Seq(Request) /\ AllAsk(loads[q])
    BY <1>2 DEF Typed, Bounded, AllAsk
  <2>2. r \in Seq(Request) /\ AllAsk(r) /\ 0 \in Nat /\ 0 <= 0 /\ 0 <= Len(ledger)
    BY <1>3, <2>1
  <2>3. loads' = [loads EXCEPT ![p] = more]
    BY <1>1 DEF Load
  <2> HIDE DEF r
  <2>4. LET s == Append(r, Fetch(FALSE, 0, 0)) IN s \in Seq(Request) /\ AllAsk(s)
    BY <1>2, <2>2, FetchAsks
  <2>5. more \in Seq(Request) /\ AllAsk(more)
    BY <2>4
  <2> HIDE DEF more
  <2> QED
    BY <1>2, <2>1, <2>3, <2>5 DEF Typed
<1>5. Typed'
  <2>1. made' \in [Pages -> Nat]
    BY <1>1, <1>2 DEF Typed
  <2> QED
    BY <1>1, <1>2, <1>3, <1>4, <2>1 DEF Typed
<1>6. ASSUME NEW q \in Pages
      PROVE  /\ version'[q] <= Len(ledger') + Len(outbox'[q])
             /\ Connecting <= heard'[q] /\ heard'[q] <= Len(ledger')
             /\ Len(polls'[q]) <= MaxRequests
  <2>1. /\ Len(outbox[q]) \in Nat /\ version[q] \in Nat /\ version[q] <= Len(ledger) + Len(outbox[q])
        /\ heard[q] \in Int /\ Connecting <= heard[q] /\ heard[q] <= Len(ledger)
        /\ Len(polls[q]) <= MaxRequests
    BY <1>2, LogFacts DEF Typed, Bounded
  <2>2. /\ version'[q] = version[q] /\ outbox'[q] = outbox[q] /\ heard'[q] = heard[q]
        /\ polls'[q] = polls[q]
    BY <1>1
  <2> DEFINE l == Len(ledger)
             o == Len(outbox[q])
             v == version[q]
             h == heard[q]
  <2>3. l \in Nat /\ o \in Nat /\ v \in Nat /\ v <= l + o /\ h \in Int /\ h <= l
    BY <1>3, <2>1
  <2>4. Len(ledger') = l + 1
    BY <1>3
  <2> HIDE DEF l, o, v, h
  <2>5. v <= l + 1 + o /\ h <= l + 1
    BY <2>3
  <2>6. version'[q] <= Len(ledger') + Len(outbox'[q])
    BY <2>2, <2>4, <2>5 DEF o, v
  <2>7. heard'[q] <= Len(ledger')
    BY <2>2, <2>4, <2>5 DEF h
  <2> QED
    BY <2>1, <2>2, <2>6, <2>7
<1>7. ASSUME NEW q \in Pages, NEW i \in 1..Len(loads'[q]) PROVE Asks(loads[q][i])'
  <2> DEFINE r == loads'[q]
  <2>1. r \in Seq(Request) /\ i \in 1..Len(r) /\ Asks(r[i])
    BY <1>4, <1>7 DEF AllAsk
  <2>2. r[i] \in Request
    BY <2>1, ElementOfSeq
  <2> DEFINE since == r[i].since
             upTo == r[i].upTo
             more == Len(ledger')
  <2>3. /\ since \in Nat /\ upTo \in Nat
        /\ r[i].after <= upTo /\ upTo <= since /\ since <= Len(ledger)
        /\ r[i].first => r[i].after = 0 /\ upTo = 0
    BY <2>1, <2>2 DEF Asks, Request
  <2> HIDE DEF since
  <2>4. since <= more
    BY <1>3, <2>3
  <2> HIDE DEF more
  <2> QED
    BY <2>3, <2>4 DEF Asks, since, more
<1>8. Bounded'
  BY <1>1, <1>2, <1>6, <1>7 DEF Bounded
<1> QED
  BY <1>5, <1>8

LEMMA RestoringCounted ==
  ASSUME IInv, NEW p \in Pages, NEW e, Restoring(p, e)
  PROVE  Counted'
<1> DEFINE l == Len(ledger)
           M == ledger'
<1>1. /\ e \in SoundEntry /\ e.page = p /\ e.token = <<p, made[p] + 1>>
      /\ ledger' = Append(ledger, e)
      /\ made' = [made EXCEPT ![p] = @ + 1] /\ Total < MaxOps /\ outbox' = outbox
  BY DEF Restoring
<1>2. Typed /\ Counted
  BY DEF IInv
<1>3. /\ l \in Nat /\ Len(M) = l + 1
      /\ \A i \in 1..l : M[i] = ledger[i]
      /\ M[l + 1] = e
      /\ \A i \in 1..Len(M) : i \in 1..l \/ i = l + 1
  BY <1>1, <1>2, LedgerGrows
<1>4. /\ made \in [Pages -> Nat] /\ made' \in [Pages -> Nat] /\ made[p] \in Nat
      /\ made'[p] = made[p] + 1
      /\ \A q \in Pages : made[q] <= made'[q]
  <2>1. /\ made \in [Pages -> Nat] /\ made' \in [Pages -> Nat] /\ made[p] \in Nat
        /\ made'[p] = made[p] + 1
    BY <1>1, <1>2 DEF Typed
  <2>2. ASSUME NEW q \in Pages PROVE made[q] <= made'[q]
    <3>1. made[q] \in Nat /\ (q = p \/ made'[q] = made[q])
      BY <1>1, <2>1
    <3> QED
      BY <2>1, <3>1
  <2> QED
    BY <2>1, <2>2
<1>5. Total' <= MaxOps
  <2>1. 1 \in 1..2
    OBVIOUS
  <2>2. Total \in Nat /\ Total' \in Nat /\ Total' <= Total + 1
    BY <1>1, <1>4, <2>1, MadeMore
  <2> QED
    BY <1>1, <2>2, BoundsAssumption
<1>6. Counts(e, made')
  BY <1>1, <1>4, PagesAssumption DEF Counts
<1>7. \A f \in SoundEntry : Counts(f, made) => Counts(f, made') /\ f.token # e.token
  <2> SUFFICES ASSUME NEW f \in SoundEntry, Counts(f, made)
               PROVE  Counts(f, made') /\ f.token # e.token
    OBVIOUS
  <2>1. f.page \in Page
    BY DEF SoundEntry
  <2>2. Counts(f, made')
    BY <1>4, <2>1, CountsOn
  <2>3. f.token # e.token
    <3>1. p \in Page /\ made[p] + 1 \in Int /\ ~ (made[p] + 1 <= made[p])
      BY <1>4 DEF Page
    <3> DEFINE n == made[p] + 1
    <3> HIDE DEF n
    <3>2. f.token = <<p, n>> => n <= made[p]
      BY <1>4, <3>1, CountsToken DEF n
    <3> QED
      BY <1>1, <3>1, <3>2 DEF n
  <2> QED
    BY <2>2, <2>3
<1>8. /\ \A i \in 1..l : ledger[i] \in SoundEntry /\ Counts(ledger[i], made)
      /\ \A i, j \in 1..l : ledger[i].token = ledger[j].token => i = j
      /\ \A q \in Pages :
           /\ \A i \in 1..Len(outbox[q]) : /\ outbox[q][i] \in SoundEntry
                                           /\ outbox[q][i].page = q /\ Counts(outbox[q][i], made)
                                           /\ outbox[q][i].op.type # "restore_version"
           /\ \A i, j \in 1..Len(outbox[q]) : outbox[q][i].token = outbox[q][j].token => i = j
           /\ \A i \in 1..l, j \in 1..Len(outbox[q]) : ledger[i].token # outbox[q][j].token
  <2>1. \A q \in Pages : \A i \in 1..Len(outbox[q]) : outbox[q][i] \in SoundEntry
    BY <1>2, LogFacts
  <2>2. \A i \in 1..l : ledger[i] \in SoundEntry
    BY <1>2, ElementOfSeq DEF Typed
  <2> QED
    BY <1>2, <2>1, <2>2 DEF Counted
<1> HIDE DEF l, M
<1>9. \A i \in 1..Len(M) : Counts(M[i], made')
  BY <1>3, <1>6, <1>7, <1>8
<1>10. \A i, j \in 1..Len(M) : M[i].token = M[j].token => i = j
  BY <1>3, <1>7, <1>8
<1>11. ASSUME NEW q \in Pages
       PROVE  /\ \A i \in 1..Len(outbox'[q]) :
                   /\ outbox'[q][i].page = q /\ Counts(outbox'[q][i], made')
                   /\ outbox'[q][i].op.type # "restore_version"
              /\ \A i, j \in 1..Len(outbox'[q]) : outbox'[q][i].token = outbox'[q][j].token => i = j
              /\ \A i \in 1..Len(M), j \in 1..Len(outbox'[q]) : M[i].token # outbox'[q][j].token
  <2>1. /\ \A i \in 1..Len(outbox[q]) :
             /\ outbox[q][i].page = q /\ Counts(outbox[q][i], made')
             /\ outbox[q][i].op.type # "restore_version"
        /\ \A i, j \in 1..Len(outbox[q]) : outbox[q][i].token = outbox[q][j].token => i = j
        /\ \A i \in 1..Len(M), j \in 1..Len(outbox[q]) : M[i].token # outbox[q][j].token
    <3>1. /\ \A i \in 1..Len(outbox[q]) :
               /\ outbox[q][i] \in SoundEntry /\ outbox[q][i].page = q
               /\ Counts(outbox[q][i], made) /\ outbox[q][i].op.type # "restore_version"
          /\ \A i, j \in 1..Len(outbox[q]) : outbox[q][i].token = outbox[q][j].token => i = j
          /\ \A i \in 1..l, j \in 1..Len(outbox[q]) : ledger[i].token # outbox[q][j].token
      BY <1>8
    <3>2. \A i \in 1..Len(outbox[q]) :
            Counts(outbox[q][i], made') /\ outbox[q][i].token # e.token
      BY <1>7, <3>1
    <3>3. \A i \in 1..Len(M), j \in 1..Len(outbox[q]) : M[i].token # outbox[q][j].token
      BY <1>3, <3>1, <3>2
    <3> QED
      BY <3>1, <3>2, <3>3
  <2> QED
    BY <1>1, <2>1
<1> QED
  BY <1>1, <1>5, <1>9, <1>10, <1>11 DEF Counted, M

LEMMA RestoringNamed ==
  ASSUME IInv, NEW p \in Pages, NEW e, Restoring(p, e)
  PROVE  Named' /\ (NamedApart' => NamedApart)
<1>1. /\ e \in SoundEntry /\ e.op.type = "restore_version" /\ ledger' = Append(ledger, e)
      /\ outbox' = outbox /\ nextId' = nextId
  BY DEF Restoring
<1>2. Elements(ledger') = Elements(ledger) \cup {e}
  BY <1>1, GrownCovers DEF IInv
<1>3. Entries' = Entries \cup {e} /\ ~ Drawing(e)
  BY <1>1, <1>2 DEF Entries, Drawing
<1> DEFINE more == Entries'
<1>4. Named'
  <2>1. ASSUME NEW x \in more, Drawing(x) PROVE x \in Entries
    BY <1>3, <2>1
  <2>2. /\ \A x \in more : Drawing(x) =>
             /\ Len(x.op.id) = 2 => x.op.id[1] = x.page
             /\ x.page = Nobody => Len(x.op.id) = 2
             /\ x.page # Nobody => Number(x.op.id) \in Nat /\ Number(x.op.id) < nextId[x.page]
        /\ \A x, y \in more :
             Drawing(x) /\ Drawing(y) /\ x.page = y.page /\ Number(x.op.id) = Number(y.op.id)
               => x.token = y.token
    BY <2>1 DEF IInv, Named
  <2> QED
    BY <1>1, <2>2 DEF Named
<1>5. ASSUME NEW q \in Pages PROVE Pieces(q) \subseteq Pieces(q)'
  <2>1. Elements(ledger) \cup Elements(outbox[q]) \subseteq Elements(ledger') \cup Elements(outbox'[q])
    BY <1>1, <1>2
  <2> QED
    BY <2>1 DEF Pieces
<1>6. NamedApart' => NamedApart
  BY <1>5 DEF NamedApart
<1> QED
  BY <1>4, <1>6

LEMMA RestoringOwned ==
  ASSUME IInv, NEW p \in Pages, NEW e, Restoring(p, e)
  PROVE  Owned' /\ Watched' /\ Restored(ledger') /\ Followed'
<1>1. /\ e \in SoundEntry /\ e.page = p /\ e.token = <<p, made[p] + 1>>
      /\ e.op.type = "restore_version"
      /\ IdsOf(Elements(e.op.strokes)) \subseteq
           {ledger[j].op.id : j \in {k \in 1..Len(ledger) : Drawing(ledger[k])}}
      /\ ledger' = Append(ledger, e)
      /\ made' = [made EXCEPT ![p] = @ + 1]
      /\ UNCHANGED <<board, version, outbox, polls, applied>>
  BY DEF Restoring
<1>2. Typed /\ Counted /\ Owned
  BY DEF IInv
<1>3. /\ \A n \in Nat : \A steps : Covers(ledger, n, steps) => Covers(ledger', n, steps)
      /\ TokensIn(ledger') = TokensIn(ledger) \cup {e.token}
  BY <1>1, <1>2, GrownCovers
<1>4. Restored(ledger')
  BY <1>1, <1>2, GrownRestored DEF IInv
<1>5. Owned'
  <2>1. \A q \in Pages : AllApplied(q)' = AllApplied(q)
    BY <1>1 DEF AllApplied
  <2>2. ASSUME NEW q \in Pages, NEW r \in Page, NEW n \in Int, n > 0, <<r, n>> \in AllApplied(q)'
        PROVE  <<r, n>> \in TokensIn(ledger') \cup TokensIn(outbox'[q])
    <3>1. <<r, n>> \in TokensIn(ledger) \cup TokensIn(outbox[q])
      BY <2>1, <2>2 DEF IInv, Owned
    <3> QED
      BY <1>1, <1>3, <3>1
  <2> QED
    BY <2>2 DEF Owned
<1>6. Watched'
  <2> SUFFICES ASSUME NEW q \in Pages, Watches(q)'
               PROVE  /\ Covers(ledger', version[q], applied[q])
                      /\ \A i \in 1..Len(polls[q]) :
                           ~ polls[q][i].late => Covers(ledger', polls[q][i].cursor, applied[q])
    BY <1>1 DEF Watched
  <2>1. Watches(q)
    <3>1. made'[q] = 0 /\ made[q] \in Nat /\ (q = p => made'[q] = made[q] + 1)
          /\ (q # p => made'[q] = made[q])
      BY <1>1, <1>2 DEF Watches, Typed
    <3>2. made[q] = 0
      BY <3>1
    <3> QED
      BY <1>1, <3>2 DEF Watches, AllApplied
  <2>2. /\ Covers(ledger, version[q], applied[q])
        /\ \A i \in 1..Len(polls[q]) :
             ~ polls[q][i].late => Covers(ledger, polls[q][i].cursor, applied[q])
    BY <2>1 DEF IInv, Watched
  <2>3. version[q] \in Nat /\ polls[q] \in Seq(Poll)
    BY <1>2 DEF Typed
  <2>4. Covers(ledger', version[q], applied[q])
    BY <1>3, <2>2, <2>3
  <2>5. ASSUME NEW i \in 1..Len(polls[q]), ~ polls[q][i].late
        PROVE  Covers(ledger', polls[q][i].cursor, applied[q])
    <3>1. polls[q][i] \in Poll
      BY <2>3, ElementOfSeq
    <3>2. polls[q][i].cursor \in Nat
      BY <3>1 DEF Poll
    <3> DEFINE n == polls[q][i].cursor
    <3>3. n \in Nat /\ Covers(ledger, n, applied[q])
      BY <2>2, <2>5, <3>2
    <3> HIDE DEF n
    <3>4. Covers(ledger', n, applied[q])
      BY <1>3, <3>3
    <3> QED
      BY <3>4 DEF n
  <2> QED
    BY <2>4, <2>5
<1>7. Followed'
  <2> SUFFICES ASSUME NamedApart', NEW q \in Pages
               PROVE  Follower(q, Log(q)', board[q], applied[q])
    BY <1>1 DEF Followed
  <2>1. Follower(q, Log(q), board[q], applied[q])
    BY RestoringNamed DEF IInv, Followed
  <2>2. e.token \notin AllApplied(q)
    <3> DEFINE n == made[p] + 1
    <3>0. made[p] \in Nat
      BY <1>2 DEF Typed
    <3>1. n \in Int /\ n > made[p]
      BY <3>0
    <3> HIDE DEF n
    <3>2. <<p, n>> \notin AllApplied(q)
      BY <1>2, <3>1, OwnedCounted
    <3> QED
      BY <1>1, <3>2 DEF n
  <2>3. outbox'[q] = outbox[q]
    BY <1>1
  <2> QED
    BY <1>1, <1>2, <2>1, <2>2, <2>3, GrownFollower
<1> QED
  BY <1>4, <1>5, <1>6, <1>7

LEMMA RevertKeeps ==
  ASSUME IInv, NEW p \in Pages, NEW target \in 1..Len(ledger) - 1, Revert(p, target)
  PROVE  IInv'
<1>1. PICK e : Restoring(p, e)
  BY RevertRestores
<1> QED
  BY <1>1, RestoringTyped, RestoringCounted, RestoringNamed, RestoringOwned DEF IInv

-----------------------------------------------------------------------------
(* The board to begin with.                                                 *)

LEMMA InitLedger ==
  ASSUME Init
  PROVE  /\ ledger \in Seq(SoundEntry) /\ Len(ledger) = Drawn /\ Drawn \in Nat
         /\ \A i \in 1..Drawn :
              /\ ledger[i].page = Nobody /\ ledger[i].token = <<Nobody, i>>
              /\ ledger[i].op.type = "create_stroke" /\ ledger[i].op.id = <<Nobody, i>>
<1> DEFINE Stroke0(i) == [id |-> <<Nobody, i>>, at |-> i]
           Entry0(i) == [page |-> Nobody, token |-> Token(Nobody, i), op |-> Create(Stroke0(i))]
           S == Pages \cup {Nobody} \cup Nat
<1>1. Drawn \in Nat
  BY BoundsAssumption
<1>2. ASSUME NEW i \in 1..Drawn
      PROVE  /\ Entry0(i) \in SoundEntry
             /\ Entry0(i).page = Nobody /\ Entry0(i).token = <<Nobody, i>>
             /\ Entry0(i).op.type = "create_stroke" /\ Entry0(i).op.id = <<Nobody, i>>
  <2>1. i \in Nat /\ i \in Int /\ Nobody \in S /\ i \in S
    BY <1>1
  <2> HIDE DEF S
  <2>2. <<Nobody, i>> \in Seq(S) /\ Len(<<Nobody, i>>) > 1
    BY <2>1
  <2>3. <<Nobody, i>> \in Names
    BY <2>2 DEF Names, S
  <2>4. Stroke0(i) \in Stroke /\ Stroke0(i).id = <<Nobody, i>>
    BY <2>1, <2>3 DEF Stroke
  <2> HIDE DEF Stroke0
  <2>5. /\ Create(Stroke0(i)) \in SoundServerOp /\ Create(Stroke0(i)).type = "create_stroke"
        /\ Create(Stroke0(i)).id = <<Nobody, i>>
    BY <2>4, ServerOps
  <2>6. Token(Nobody, i) \in Step /\ Token(Nobody, i) = <<Nobody, i>> /\ Nobody \in Page
    BY <2>1 DEF Token, Step, Page
  <2> QED
    BY <2>5, <2>6 DEF SoundEntry
<1>3. ledger = [i \in 1..Drawn |-> Entry0(i)]
  BY DEF Init
<1> HIDE DEF Entry0
<1>4. ledger \in [1..Drawn -> SoundEntry]
  BY <1>2, <1>3
<1>5. ledger \in Seq(SoundEntry) /\ Len(ledger) = Drawn
  BY <1>1, <1>4, LenProperties
<1> QED
  BY <1>1, <1>2, <1>3, <1>5

\* Each page has loaded the board, or nothing.
LEMMA InitPages ==
  ASSUME Init, NEW p \in Pages
  PROVE  LET n == IF p \in Opened THEN Drawn ELSE 0 IN
         /\ n \in 0..Len(ledger) /\ n \in Nat
         /\ version[p] = n /\ board[p] = LoadedBoard(Truth(n))
         /\ applied[p] = Tokens(SubSeq(ledger, 1, n))
<1> DEFINE n == IF p \in Opened THEN Drawn ELSE 0
<1>1. ledger \in Seq(SoundEntry) /\ Len(ledger) = Drawn /\ Drawn \in Nat
  BY InitLedger
<1>2. n \in 0..Len(ledger) /\ n \in Nat
  BY <1>1
<1>3. version[p] = n
  BY DEF Init
<1>4. CASE p \in Opened
  <2>1. board[p] = LoadedBoard(Truth(Drawn)) /\ applied[p] = Tokens(ledger)
    BY <1>4 DEF Init
  <2> DEFINE s == SubSeq(ledger, 1, Drawn)
  <2>2. s = ledger
    <3>1. 0 \in Nat /\ 0 <= Drawn /\ 0 + 1 = 1
      BY <1>1
    <3>2. /\ SubSeq(ledger, 0 + 1, Drawn) \in Seq(SoundEntry)
          /\ Len(SubSeq(ledger, 0 + 1, Drawn)) = Drawn - 0
          /\ \A i \in 1..Drawn - 0 : SubSeq(ledger, 0 + 1, Drawn)[i] = ledger[0 + i]
      <4>1. \A m \in Nat : m <= Drawn =>
              /\ SubSeq(ledger, m + 1, Drawn) \in Seq(SoundEntry)
              /\ Len(SubSeq(ledger, m + 1, Drawn)) = Drawn - m
              /\ \A i \in 1..Drawn - m : SubSeq(ledger, m + 1, Drawn)[i] = ledger[m + i]
        <5>1. Drawn <= Len(ledger)
          BY <1>1
        <5> SUFFICES ASSUME NEW m \in Nat, m <= Drawn
                     PROVE  /\ SubSeq(ledger, m + 1, Drawn) \in Seq(SoundEntry)
                            /\ Len(SubSeq(ledger, m + 1, Drawn)) = Drawn - m
                            /\ \A i \in 1..Drawn - m :
                                 SubSeq(ledger, m + 1, Drawn)[i] = ledger[m + i]
          OBVIOUS
        <5> QED
          BY <1>1, <5>1, StretchFacts
      <4> QED
        BY <3>1, <4>1
    <3>3. s \in Seq(SoundEntry) /\ Len(s) = Drawn /\ \A i \in 1..Drawn : s[i] = ledger[i]
      BY <1>1, <3>1, <3>2
    <3> HIDE DEF s
    <3> QED
      BY <1>1, <3>3, SeqEqual
  <2>3. applied[p] = Tokens(SubSeq(ledger, 1, Drawn))
    BY <2>1, <2>2
  <2> QED
    BY <1>2, <1>3, <1>4, <2>1, <2>3
<1>5. CASE p \notin Opened
  <2>1. board[p] = EmptyBoard /\ applied[p] = <<>>
    BY <1>5 DEF Init
  <2>2. 0 \in 0..Len(ledger)
    BY <1>1
  <2>3. Tokens(SubSeq(ledger, 1, 0)) = <<>>
    <3> DEFINE t == Tokens(SubSeq(ledger, 1, 0))
    <3>1. t \in Seq(Step) /\ Len(t) = 0
      BY <1>1, <2>2, LoadedSteps
    <3> HIDE DEF t
    <3>2. t = <<>>
      BY <3>1, EmptySeq
    <3> QED
      BY <3>2 DEF t
  <2>4. Truth(0) = <<>>
    BY <1>1, <2>2, TruthIs, ReplayedFacts
  <2>5. board[p] = LoadedBoard(Truth(0))
    BY <2>1, <2>4, EmptyLoaded
  <2> QED
    BY <1>2, <1>3, <1>5, <2>1, <2>3, <2>5
<1> QED
  BY <1>4, <1>5

LEMMA InitTyped ==
  ASSUME Init
  PROVE  Typed /\ Bounded /\ Counted /\ Restored(ledger)
<1>1. /\ ledger \in Seq(SoundEntry) /\ Len(ledger) = Drawn /\ Drawn \in Nat
      /\ \A i \in 1..Drawn :
           /\ ledger[i].page = Nobody /\ ledger[i].token = <<Nobody, i>>
           /\ ledger[i].op.type = "create_stroke" /\ ledger[i].op.id = <<Nobody, i>>
  BY InitLedger
<1>2. /\ nextId = [p \in Pages |-> 1] /\ held = [p \in Pages |-> <<>>]
      /\ outbox = [p \in Pages |-> <<>>] /\ made = [p \in Pages |-> 0]
      /\ heard = [p \in Pages |-> IF p \in Opened \cap Live THEN Drawn ELSE Connecting]
      /\ polls = [p \in Pages |-> <<>>]
      /\ loads = [p \in Pages |-> IF p \in Opened THEN <<>> ELSE <<Fetch(TRUE, 0, 0)>>]
      /\ undos = 0
  BY DEF Init
<1>3. ASSUME NEW p \in Pages
      PROVE  /\ board[p] \in SoundBoard /\ version[p] \in Nat /\ version[p] <= Drawn
             /\ applied[p] \in Seq(Step)
  <2> DEFINE n == IF p \in Opened THEN Drawn ELSE 0
  <2>1. /\ n \in 0..Len(ledger) /\ n \in Nat
        /\ version[p] = n /\ board[p] = LoadedBoard(Truth(n))
        /\ applied[p] = Tokens(SubSeq(ledger, 1, n))
    BY InitPages
  <2> HIDE DEF n
  <2>2. Truth(n) \in Plain /\ Tokens(SubSeq(ledger, 1, n)) \in Seq(Step)
    BY <1>1, <2>1, TruthIs, LoadedSteps
  <2>3. LoadedBoard(Truth(n)) \in SoundBoard
    BY <2>2, LoadedSound
  <2> QED
    BY <1>1, <2>1, <2>2, <2>3
<1>4. ASSUME NEW p \in Pages
      PROVE  loads[p] \in Seq(Request) /\ \A i \in 1..Len(loads[p]) : Asks(loads[p][i])
  <2>1. CASE p \in Opened
    <3>1. loads[p] = <<>> /\ Len(<<>>) = 0 /\ <<>> \in Seq(Request)
      BY <1>2, <2>1
    <3> QED
      BY <3>1
  <2>2. CASE p \notin Opened
    <3> DEFINE load == Fetch(TRUE, 0, 0)
    <3>1. loads[p] = <<load>>
      BY <1>2, <2>2
    <3>2. load \in Request /\ Asks(load)
      BY <1>1 DEF Fetch, Request, Asks
    <3> HIDE DEF load
    <3>3. <<load>> \in Seq(Request) /\ Len(<<load>>) = 1 /\ \A i \in 1..1 : <<load>>[i] = load
      BY <3>2
    <3> QED
      BY <3>1, <3>2, <3>3
  <2> QED
    BY <2>1, <2>2
<1>5. Typed
  <2>1. board \in [Pages -> SoundBoard] /\ version \in [Pages -> Nat] /\ applied \in [Pages -> Seq(Step)]
    <3>1. /\ board = [p \in Pages |-> board[p]] /\ version = [p \in Pages |-> version[p]]
          /\ applied = [p \in Pages |-> applied[p]]
      BY DEF Init
    <3> QED
      BY <1>3, <3>1
  <2>2. loads \in [Pages -> Seq(Request)]
    <3>1. loads = [p \in Pages |-> loads[p]]
      BY <1>2
    <3> QED
      BY <1>4, <3>1
  <2>3. heard \in [Pages -> Int]
    BY <1>1, <1>2 DEF Connecting
  <2>4. <<>> \in Seq(SoundEntry) /\ <<>> \in Seq(Poll)
    OBVIOUS
  <2>5. /\ nextId \in [Pages -> Nat] /\ made \in [Pages -> Nat] /\ undos \in Nat
        /\ held \in [Pages -> Holds]
    BY <1>2 DEF Holds
  <2>6. outbox \in [Pages -> Seq(SoundEntry)] /\ polls \in [Pages -> Seq(Poll)]
    BY <1>2, <2>4
  <2> QED
    BY <1>1, <2>1, <2>2, <2>3, <2>5, <2>6 DEF Typed
<1>6. Bounded
  <2>1. \A p \in Pages : Len(outbox[p]) = 0 /\ Len(polls[p]) = 0
    BY <1>2
  <2>2. \A p \in Pages : version[p] <= Len(ledger) + Len(outbox[p])
    <3> SUFFICES ASSUME NEW p \in Pages PROVE version[p] <= Len(ledger) + Len(outbox[p])
      OBVIOUS
    <3>1. Len(ledger) + Len(outbox[p]) = Drawn
      BY <1>1, <2>1
    <3> QED
      BY <1>3, <3>1
  <2>3. \A p \in Pages : Connecting <= heard[p] /\ heard[p] <= Len(ledger)
    BY <1>1, <1>2 DEF Connecting
  <2>4. undos <= MaxUndos /\ 0 <= MaxRequests
    BY <1>2, BoundsAssumption
  <2> QED
    BY <1>4, <2>1, <2>2, <2>3, <2>4 DEF Bounded
<1>7. Counted
  <2>1. Made = {}
    BY <1>2 DEF Made
  <2>2. Total <= MaxOps
    BY <2>1, FS_EmptySet, BoundsAssumption DEF Total
  <2>3. \A i \in 1..Drawn : Counts(ledger[i], made)
    BY <1>1 DEF Counts
  <2>4. \A i, j \in 1..Drawn : ledger[i].token = ledger[j].token => i = j
    BY <1>1
  <2>5. \A p \in Pages : Len(outbox[p]) = 0
    BY <1>2
  <2> QED
    BY <1>1, <2>2, <2>3, <2>4, <2>5 DEF Counted
<1>8. Restored(ledger)
  BY <1>1 DEF Restored
<1> QED
  BY <1>5, <1>6, <1>7, <1>8

LEMMA InitIInv ==
  ASSUME Init
  PROVE  IInv
<1>1. /\ ledger \in Seq(SoundEntry) /\ Len(ledger) = Drawn /\ Drawn \in Nat
      /\ \A i \in 1..Drawn :
           /\ ledger[i].page = Nobody /\ ledger[i].token = <<Nobody, i>>
           /\ ledger[i].op.type = "create_stroke" /\ ledger[i].op.id = <<Nobody, i>>
  BY InitLedger
<1>2. Typed /\ Bounded /\ Counted /\ Restored(ledger)
  BY InitTyped
<1>3. /\ outbox = [p \in Pages |-> <<>>] /\ made = [p \in Pages |-> 0]
      /\ polls = [p \in Pages |-> <<>>]
  BY DEF Init
<1>4. Named
  <2>1. Entries = {ledger[i] : i \in 1..Drawn}
    <3>1. Elements(ledger) = {ledger[i] : i \in 1..Drawn}
      BY <1>1, <1>2, EntriesSound
    <3>2. \A p \in Pages : Elements(outbox[p]) = {}
      BY <1>3 DEF Elements
    <3> QED
      BY <3>1, <3>2 DEF Entries
  <2>2. \A i \in 1..Drawn : /\ Len(ledger[i].op.id) = 2 /\ ledger[i].op.id[1] = Nobody
                            /\ Number(ledger[i].op.id) = i
    <3>1. \A i \in Nat : /\ Len(<<Nobody, i>>) = 2 /\ <<Nobody, i>>[1] = Nobody
                         /\ <<Nobody, i>>[2] = i
      OBVIOUS
    <3>2. \A i \in 1..Drawn : i \in Nat
      BY <1>1
    <3>3. ASSUME NEW i \in 1..Drawn
          PROVE  /\ Len(ledger[i].op.id) = 2 /\ ledger[i].op.id[1] = Nobody
                 /\ Number(ledger[i].op.id) = i
      <4> DEFINE id == ledger[i].op.id
      <4>1. id = <<Nobody, i>> /\ i \in Nat
        BY <1>1, <3>2
      <4> HIDE DEF id
      <4>2. Len(id) = 2 /\ id[1] = Nobody /\ id[2] = i
        BY <3>1, <4>1
      <4> QED
        BY <4>2 DEF Number, id
    <3> QED
      BY <3>3
  <2> QED
    BY <1>1, <2>1, <2>2 DEF Named
<1>5. ASSUME NEW p \in Pages
      PROVE  /\ Elements(applied[p]) \subseteq TokensIn(ledger)
             /\ Covers(ledger, version[p], applied[p])
             /\ Follower(p, Log(p), board[p], applied[p])
  <2> DEFINE n == IF p \in Opened THEN Drawn ELSE 0
  <2>1. /\ n \in 0..Len(ledger) /\ n \in Nat
        /\ version[p] = n /\ board[p] = LoadedBoard(Truth(n))
        /\ applied[p] = Tokens(SubSeq(ledger, 1, n))
    BY InitPages
  <2> HIDE DEF n
  <2>2. /\ Elements(Tokens(SubSeq(ledger, 1, n))) = {ledger[i].token : i \in 1..n}
        /\ Follower(p, Log(p), LoadedBoard(Truth(n)), Tokens(SubSeq(ledger, 1, n)))
    BY <1>2, <2>1, LoadedFollows
  <2>3. n <= Len(ledger) /\ \A i \in 1..n : i \in 1..Len(ledger)
    BY <1>1, <2>1
  <2>4. Elements(applied[p]) = {ledger[i].token : i \in 1..n}
    BY <2>1, <2>2
  <2>5. {ledger[i].token : i \in 1..n} \subseteq TokensIn(ledger)
    BY <2>3 DEF TokensIn
  <2> QED
    BY <2>1, <2>2, <2>3, <2>4, <2>5 DEF Covers
<1>6. Owned
  BY <1>5 DEF Owned, AllApplied
<1>7. Watched
  <2>1. \A p \in Pages : Len(polls[p]) = 0
    BY <1>3
  <2> QED
    BY <1>5, <2>1 DEF Watched
<1>8. Followed
  BY <1>5 DEF Followed
<1> QED
  BY <1>2, <1>4, <1>6, <1>7, <1>8 DEF IInv

-----------------------------------------------------------------------------
(* Every step keeps the invariant.                                          *)

LEMMA UserKeeps ==
  ASSUME IInv, NEW p \in Pages, User(p)
  PROVE  IInv'
<1>1. Typed
  BY DEF IInv
<1>2. CASE Draw(p)
  BY <1>1, <1>2, DrawMakes, GestureKeeps
<1>3. CASE ClearBoard(p)
  BY <1>1, <1>3, ClearMakes, GestureKeeps
<1>4. CASE End(p)
  BY <1>1, <1>4, EndMakes, GestureKeeps
<1>5. CASE Cancel(p)
  BY <1>5, CancelKeeps
<1>6. CASE UndoLast(p) \/ RedoLast(p)
  BY <1>6, UndoKeeps
<1>7. ASSUME NEW stroke \in Shown(p), DeleteSelection(p, stroke) PROVE IInv'
  BY <1>1, <1>7, DeleteMakes, GestureKeeps
<1>8. ASSUME NEW stroke \in Shown(p), NEW pieces \in 0..1, FinishErase(p, stroke, pieces)
      PROVE  IInv'
  <2>1. pieces = 0 \/ pieces = 1
    OBVIOUS
  <2>2. CASE pieces = 0
    <3>1. FinishErase(p, stroke, 0)
      BY <1>8, <2>2
    <3> QED
      BY <1>1, <3>1, EraseMakes, GestureKeeps
  <2>3. CASE pieces = 1
    <3>1. FinishErase(p, stroke, 1)
      BY <1>8, <2>3
    <3> QED
      BY <1>1, <3>1, ErasePieceMakes, GestureKeeps
  <2> QED
    BY <2>1, <2>2, <2>3
<1>9. ASSUME NEW stroke \in Shown(p), NEW gesture \in {"move", "resize"}, Begin(p, gesture, stroke)
      PROVE  IInv'
  BY <1>9, BeginKeeps
<1>10. ASSUME NEW target \in 1..Len(ledger) - 1, Revert(p, target) PROVE IInv'
  BY <1>10, RevertKeeps
<1> QED
  BY <1>2, <1>3, <1>4, <1>5, <1>6, <1>7, <1>8, <1>9, <1>10 DEF User

LEMMA LearnKeeps ==
  ASSUME IInv, NEW p \in Pages, Learn(p)
  PROVE  IInv'
<1>1. CASE Store(p)
  BY <1>1, StoreKeeps
<1>2. CASE Connect(p)
  BY <1>2, ConnectKeeps
<1>3. CASE Hear(p)
  BY <1>3, HearKeeps
<1>4. CASE Ask(p)
  BY <1>4, AskKeeps
<1>5. ASSUME NEW i \in DOMAIN polls[p], PollFails(p, i) PROVE IInv'
  BY <1>5, PollFailsKeeps
<1>6. ASSUME NEW i \in DOMAIN polls[p], NEW upTo \in 0..Len(ledger), TakePoll(p, i, upTo)
      PROVE  IInv'
  BY <1>6, TakePollKeeps
<1>7. ASSUME NEW i \in DOMAIN loads[p], LoadFails(p, i) PROVE IInv'
  BY <1>7, LoadFailsKeeps
<1>8. ASSUME NEW i \in DOMAIN loads[p], NEW seq \in 0..Len(ledger), NEW upTo \in 0..Len(ledger),
             TakeLoad(p, i, seq, upTo)
      PROVE  IInv'
  BY <1>8, TakeLoadKeeps
<1> QED
  BY <1>1, <1>2, <1>3, <1>4, <1>5, <1>6, <1>7, <1>8 DEF Learn

LEMMA NextKeeps ==
  ASSUME IInv, [Next]_vars
  PROVE  IInv'
<1>1. CASE Next
  <2>1. PICK p \in Pages : User(p) \/ Learn(p)
    BY <1>1 DEF Next
  <2> QED
    BY <2>1, UserKeeps, LearnKeeps
<1>2. CASE UNCHANGED vars
  <2>1. UNCHANGED <<ledger, board, version, nextId, held, outbox, made, heard, polls, loads,
                    applied, undos>>
    BY <1>2 DEF vars, pageVars, netVars
  <2>2. Typed' /\ Bounded'
    BY <2>1 DEF IInv, Typed, Bounded, Asks
  <2>3. Counted'
    BY <2>1 DEF IInv, Counted, Total, Made
  <2>4. Named'
    <3>1. Entries' = Entries
      BY <2>1 DEF Entries
    <3> QED
      BY <2>1, <3>1 DEF IInv, Named
  <2>5. Restored(ledger')
    BY <2>1 DEF IInv
  <2>6. \A p \in Pages : AllApplied(p)' = AllApplied(p) /\ Log(p)' = Log(p) /\ Pieces(p)' = Pieces(p)
    BY <2>1 DEF AllApplied, Log, Pieces
  <2>7. Owned'
    BY <2>1, <2>6 DEF IInv, Owned
  <2>8. Watched'
    BY <2>1, <2>6 DEF IInv, Watched, Watches
  <2>9. Followed'
    <3>1. NamedApart' => NamedApart
      BY <2>6 DEF NamedApart
    <3> SUFFICES ASSUME NamedApart', NEW p \in Pages
                 PROVE  Follower(p, Log(p)', board'[p], applied'[p])
      BY DEF Followed
    <3>2. Follower(p, Log(p), board[p], applied[p])
      BY <3>1 DEF IInv, Followed
    <3> QED
      BY <2>1, <2>6, <3>2
  <2> QED
    BY <2>2, <2>3, <2>4, <2>5, <2>7, <2>8, <2>9 DEF IInv
<1> QED
  BY <1>1, <1>2

\* The invariant from which the properties follow holds in every state the pages
\* and the ledger can reach, for any pages, gestures and bounds.
THEOREM IInvHolds == Spec => []IInv
<1>1. Init => IInv
  BY InitIInv
<1>2. IInv /\ [Next]_vars => IInv'
  BY NextKeeps
<1> QED
  BY <1>1, <1>2, PTL DEF Spec

-----------------------------------------------------------------------------
(* What follows from it.                                                    *)

\* Each entry is the work of one page, or was there before.
LEMMA LedgerBound ==
  ASSUME IInv
  PROVE  Len(ledger) <= Drawn + MaxOps
<1> DEFINE l == Len(ledger)
           S == 1..l
           Old == {<<Nobody, n>> : n \in 1..Drawn}
           T == Old \cup Made
           f == [i \in S |-> ledger[i].token]
           g == [n \in 1..Drawn |-> <<Nobody, n>>]
<1>1. /\ Typed /\ Counted /\ l \in Nat /\ Drawn \in Nat /\ MaxOps \in Nat /\ Total <= MaxOps
  BY LenProperties, BoundsAssumption DEF IInv, Typed, Counted
<1>2. IsFiniteSet(Made) /\ Total \in Nat /\ Total = Cardinality(Made)
  BY <1>1, MadeFinite DEF Typed, Total
<1>3. /\ IsFiniteSet(1..Drawn) /\ Cardinality(1..Drawn) = Drawn
      /\ IsFiniteSet(S) /\ Cardinality(S) = l
  <2>1. \A n \in Nat : IsFiniteSet(1..n) /\ Cardinality(1..n) = n
    <3>1. \A n \in Nat : IsFiniteSet(1..n) /\ Cardinality(1..n) = IF 1 > n THEN 0 ELSE n - 1 + 1
      BY FS_Interval
    <3> QED
      BY <3>1
  <2> HIDE DEF l
  <2> QED
    BY <1>1, <2>1
<1>4. IsFiniteSet(Old) /\ Cardinality(Old) \in Nat /\ Cardinality(Old) <= Drawn
  <2>1. g \in Surjection(1..Drawn, Old)
    BY DEF Surjection
  <2> HIDE DEF g, Old
  <2>2. IsFiniteSet(Old) /\ Cardinality(Old) <= Cardinality(1..Drawn)
    BY <1>3, <2>1, FS_Surjection
  <2> QED
    BY <1>3, <2>2, FS_CardinalityType
<1>5. IsFiniteSet(T) /\ Cardinality(T) \in Nat /\ Cardinality(T) <= Drawn + MaxOps
  <2> HIDE DEF Old
  <2> DEFINE Both == Old \cap Made
  <2>1. /\ IsFiniteSet(T)
        /\ Cardinality(T) = Cardinality(Old) + Cardinality(Made) - Cardinality(Both)
    BY <1>2, <1>4, FS_Union
  <2>2. Cardinality(Both) \in Nat
    <3>1. IsFiniteSet(Both)
      BY <1>4, FS_Intersection
    <3> HIDE DEF Both
    <3> QED
      BY <3>1, FS_CardinalityType
  <2> HIDE DEF Both, T
  <2> DEFINE a == Cardinality(Old)
             b == Cardinality(Both)
             c == Cardinality(T)
  <2>3. c = a + Total - b /\ a \in Nat /\ b \in Nat /\ a <= Drawn
    BY <1>2, <1>4, <2>1, <2>2
  <2>4. c \in Nat
    BY <2>1, FS_CardinalityType
  <2> HIDE DEF a, b, c
  <2>5. c <= Drawn + MaxOps
    BY <1>1, <1>2, <2>3, <2>4
  <2> QED
    BY <2>1, <2>4, <2>5 DEF c
<1>6. f \in Injection(S, T)
  <2>1. ASSUME NEW i \in S PROVE ledger[i].token \in T
    <3> DEFINE e == ledger[i]
    <3>1. e \in SoundEntry /\ Counts(e, made)
      BY <1>1, ElementOfSeq DEF Typed, Counted
    <3> HIDE DEF e
    <3>2. PICK n \in Nat : /\ n > 0 /\ e.token = <<e.page, n>>
                           /\ n <= IF e.page = Nobody THEN Drawn ELSE made[e.page]
      BY <3>1 DEF Counts
    <3>3. CASE e.page = Nobody
      <4>1. n \in 1..Drawn
        BY <1>1, <3>2, <3>3
      <4> QED
        BY <3>2, <3>3, <4>1 DEF e
    <3>4. CASE e.page # Nobody
      <4>1. e.page \in Pages
        BY <3>1, <3>4 DEF SoundEntry, Page
      <4>2. made[e.page] \in Nat
        BY <1>1, <4>1 DEF Typed
      <4>3. n \in 1..made[e.page]
        BY <3>2, <3>4, <4>2
      <4>4. e.token \in Made
        BY <3>2, <4>1, <4>3 DEF Made, Token
      <4> QED
        BY <4>4 DEF e
    <3> QED
      BY <3>3, <3>4
  <2>2. \A i, j \in S : ledger[i].token = ledger[j].token => i = j
    BY <1>1 DEF Counted
  <2> HIDE DEF T, S
  <2> QED
    BY <2>1, <2>2 DEF Injection, IsInjective
<1>7. Cardinality(S) <= Cardinality(T)
  <2> HIDE DEF S, T, f
  <2> QED
    BY <1>5, <1>6, FS_Injection
<1> HIDE DEF S, T
<1> DEFINE c == Cardinality(T)
<1>8. l <= c /\ c \in Nat /\ c <= Drawn + MaxOps
  BY <1>3, <1>5, <1>7
<1> HIDE DEF l, c
<1>9. l <= Drawn + MaxOps
  BY <1>1, <1>8
<1> QED
  BY <1>9 DEF l

LEMMA SoundType ==
  ASSUME IInv
  PROVE  TypeOK
<1>1. Typed /\ Bounded
  BY DEF IInv
<1>2. ASSUME NEW p \in Pages
      PROVE  /\ \A s, t \in DOMAIN board[p].strokes :
                  board[p].strokes[s].id = board[p].strokes[t].id => s = t
             /\ version[p] \in 0..Len(ledger) + Len(outbox[p])
             /\ heard[p] \in Connecting..Len(ledger)
             /\ Len(held[p]) \in 0..1
             /\ Len(polls[p]) <= MaxRequests
  <2>1. Len(ledger) \in Nat /\ Len(outbox[p]) \in Nat
    BY <1>1, LogFacts
  <2>2. board[p].strokes \in Plain
    BY <1>1, BoardFacts DEF Typed
  <2> DEFINE strokes == board[p].strokes
  <2>3. DOMAIN strokes = 1..Len(strokes) /\ Distinct(strokes)
    <3> HIDE DEF strokes
    <3> QED
      BY <2>2, LenProperties DEF Plain, strokes
  <2>4. \A s, t \in DOMAIN strokes : strokes[s].id = strokes[t].id => s = t
    BY <2>3 DEF Distinct
  <2> DEFINE n == Len(ledger) + Len(outbox[p])
  <2>5. version[p] \in Nat /\ n \in Nat /\ version[p] <= n
    BY <1>1, <2>1 DEF Typed, Bounded
  <2>6. heard[p] \in Int /\ Connecting <= heard[p] /\ heard[p] <= Len(ledger) /\ Len(polls[p]) <= MaxRequests
    BY <1>1 DEF Typed, Bounded
  <2> HIDE DEF n
  <2>7. version[p] \in 0..n
    BY <2>5
  <2>8. heard[p] \in Connecting..Len(ledger)
    BY <2>1, <2>6 DEF Connecting
  <2>9. Len(held[p]) \in 0..1
    <3>1. held[p] \in Holds
      BY <1>1 DEF Typed
    <3>2. \A h : Len(<<h>>) = 1
      OBVIOUS
    <3> QED
      BY <3>1, <3>2 DEF Holds
  <2> QED
    BY <2>4, <2>6, <2>7, <2>8, <2>9 DEF n
<1>3. undos \in 0..MaxUndos
  BY <1>1, BoundsAssumption DEF Typed, Bounded
<1> QED
  BY <1>2, <1>3, LedgerBound DEF TypeOK

LEMMA SoundWatcher ==
  ASSUME IInv
  PROVE  WatcherMissesNothing
<1> SUFFICES ASSUME NEW p \in Pages, made[p] = 0,
                    {Unloaded(p), Late(p)} \cap AllApplied(p) = {}
             PROVE  Elements(Tokens(SubSeq(ledger, 1, version[p]))) \subseteq AllApplied(p)
  BY DEF WatcherMissesNothing
<1> DEFINE n == version[p]
<1>1. Watches(p)
  BY DEF Watches
<1>2. Covers(ledger, n, applied[p])
  BY <1>1 DEF IInv, Watched
<1>3. ledger \in Seq(SoundEntry) /\ n \in Nat /\ Len(ledger) \in Nat
  BY LenProperties DEF IInv, Typed
<1> HIDE DEF n
<1>4. n \in 0..Len(ledger)
  BY <1>2, <1>3 DEF Covers
<1>5. Elements(Tokens(SubSeq(ledger, 1, n))) = {ledger[i].token : i \in 1..n}
  BY <1>3, <1>4, LoadedSteps
<1> QED
  BY <1>2, <1>5 DEF Covers, AllApplied, n

LEMMA SoundAgrees ==
  ASSUME IInv
  PROVE  AgreesWithReplay
<1> SUFFICES ASSUME NamedApart, NEW p \in Pages,
                    Len(applied[p]) <= Len(ledger),
                    applied[p] = Tokens(SubSeq(ledger, 1, Len(applied[p])))
             PROVE  board[p].strokes = Truth(Len(applied[p]))
  BY DEF AgreesWithReplay
<1> DEFINE L == Log(p)
           steps == applied[p]
           n == Len(steps)
<1>1. Typed /\ ledger \in Seq(SoundEntry) /\ steps \in Seq(Step)
  BY DEF IInv, Typed
<1>2. n \in Nat /\ Len(ledger) \in Nat /\ n <= Len(ledger)
  BY <1>1, LenProperties
<1>3. Follower(p, L, board[p], steps)
  BY DEF IInv, Followed
<1>4. /\ L \in Seq(SoundEntry) /\ Len(L) = Len(ledger) + Len(outbox[p]) /\ Len(outbox[p]) \in Nat
      /\ \A i \in 1..Len(ledger) : L[i] = ledger[i]
  BY <1>1, LogFacts
<1>5. n \in 0..Len(ledger)
  BY <1>2
<1>6. steps = Tokens(SubSeq(ledger, 1, n))
  OBVIOUS
<1> HIDE DEF L, n
<1>7. n <= Len(L) /\ \A i \in 1..n : i \in 1..Len(ledger) /\ L[i] = ledger[i]
  BY <1>2, <1>4
<1>8. \A i \in 1..n : Tokens(SubSeq(ledger, 1, n))[i] = ledger[i].token
  BY <1>1, <1>5, LoadedSteps
<1> HIDE DEF steps
<1>9. \A i \in 1..n : steps[i] = L[i].token
  BY <1>6, <1>7, <1>8
<1>10. Prefix(L, steps)
  BY <1>7, <1>9 DEF Prefix, n
<1>11. board[p].strokes = Replayed(L, n)
  BY <1>3, <1>10 DEF Follower, n
<1>12. Replayed(L, n) = Replayed(ledger, n)
  BY <1>1, <1>2, <1>4, <1>7, ReplayedPrefix
<1>13. Truth(n) = Replayed(ledger, n)
  BY <1>1, <1>5, TruthIs
<1> QED
  BY <1>11, <1>12, <1>13 DEF n, steps

LEMMA SoundStack ==
  ASSUME IInv
  PROVE  StackExplainsBoard
<1> SUFFICES ASSUME NamedApart, NEW p \in Pages, Straight(p)
             PROVE  Elements(Stages(board[p].past)[Len(board[p].past)]) = Shown(p)
  BY DEF StackExplainsBoard
<1> DEFINE steps == applied[p]
           b == board[p]
           L == Log(p)
<1>1. steps \in Seq(Step) /\ b \in SoundBoard
  BY DEF IInv, Typed
<1>2. Regular(p, steps)
  <2>1. DOMAIN steps = 1..Len(steps)
    BY <1>1, LenProperties
  <2> QED
    BY <2>1 DEF Straight, Regular, Once, AllApplied
<1>3. Follower(p, L, b, steps)
  BY DEF IInv, Followed
<1>4. Explained(b, Known(L, steps))
  BY <1>2, <1>3 DEF Follower
<1> HIDE DEF b
<1>5. Elements(Stages(b.past)[Len(b.past)]) = Elements(b.strokes)
  BY <1>1, <1>4, ExplainedStages
<1> QED
  BY <1>5 DEF b, Shown

\* Every part of the state stays of its kind, no board shows two strokes of one
\* id, and no page knows of operations the board does not have (engine.ts,
\* state.ts and index.ts, whatever the pages draw, poll, load and hear).
THEOREM TypeCorrect == Spec => []TypeOK
BY IInvHolds, SoundType, PTL

\* A page that only watches has applied every operation below its version
\* (index.ts), however its polls, its loads and its socket race, as long as no
\* restore failed to load and no poll was answered for a board already replaced.
THEOREM WatcherHears == Spec => []WatcherMissesNothing
BY IInvHolds, SoundWatcher, PTL

\* The engine and the server give operations the same meaning: a page that has
\* applied a prefix of the ledger shows what state_reconstruction.py replays from
\* it, as long as no two pages name a piece of an erased stroke alike.
THEOREM EngineReplays == Spec => []AgreesWithReplay
BY IInvHolds, SoundAgrees, PTL

\* The undo stack of state.ts explains the strokes that are shown, across undo,
\* redo, the partner's operations and the loads, as long as each operation was
\* applied once, to the strokes it was made from, under names that differ.
THEOREM StackExplains == Spec => []StackExplainsBoard
BY IInvHolds, SoundStack, PTL

=============================================================================
