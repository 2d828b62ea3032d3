-------------------------- MODULE SequenceLemmas -----------------------------
(***************************************************************************)
(* Lemmas about numbers and sequences that the proofs of several           *)
(* components rest on.                                                     *)
(***************************************************************************)
EXTENDS SequenceTheorems, WellFoundedInduction, TLAPS

-----------------------------------------------------------------------------
(* Induction over the naturals, for a set instead of a predicate: a proof   *)
(* names the set of the numbers it is about.                                *)

LEMMA LeastOf ==
  ASSUME NEW T \in SUBSET Nat, T # {}
  PROVE  \E n \in T : \A m \in T : n <= m
<1>1. \A x, y \in Nat : y < x => <<y, x>> \in OpToRel(<, Nat)
  BY DEF OpToRel
<1> PICK R : R = OpToRel(<, Nat)
  OBVIOUS
<1>2. IsWellFoundedOn(R, Nat) /\ \A x, y \in Nat : y < x => <<y, x>> \in R
  BY <1>1, NatLessThanWellFounded
<1>3. \E x \in T : \A y \in T : ~ (<<y, x>> \in R)
  BY <1>2, WFMin
<1>4. ASSUME NEW x \in T, \A y \in T : ~ (<<y, x>> \in R)
      PROVE  \A y \in T : x <= y
  <2> SUFFICES ASSUME NEW y \in T PROVE x <= y
    OBVIOUS
  <2>1. x \in Nat /\ y \in Nat
    OBVIOUS
  <2>2. ~(y < x)
    BY <1>2, <1>4, <2>1, Zenon
  <2> QED
    BY ONLY <2>1, <2>2
<1> QED
  BY <1>3, <1>4

LEMMA Inductive ==
  ASSUME NEW T, 0 \in T, \A n \in Nat : n \in T => n + 1 \in T
  PROVE  Nat \subseteq T
<1> SUFFICES ASSUME Nat \ T # {} PROVE FALSE
  OBVIOUS
<1> PICK n \in Nat \ T : \A m \in Nat \ T : n <= m
  BY LeastOf
<1>1. n # 0 /\ n - 1 \in Nat
  OBVIOUS
<1>2. n - 1 \in T
  BY <1>1
<1> QED
  BY <1>1, <1>2

\* The same for the numbers up to some n.
LEMMA Upward ==
  ASSUME NEW n \in Nat, NEW T, 0 \in T, \A i \in 1..n : i - 1 \in T => i \in T
  PROVE  0..n \subseteq T
<1> DEFINE U == {i \in Nat : i <= n => i \in T}
<1>1. 0 \in U
  OBVIOUS
<1>2. ASSUME NEW i \in Nat, i \in U PROVE i + 1 \in U
  <2>1. SUFFICES ASSUME i + 1 <= n PROVE i + 1 \in T
    OBVIOUS
  <2>2. i \in T /\ i + 1 \in 1..n /\ (i + 1) - 1 = i
    BY <1>2, <2>1
  <2> QED
    BY <2>2
<1> HIDE DEF U
<1>3. Nat \subseteq U
  BY <1>1, <1>2, Inductive
<1> QED
  BY <1>3 DEF U

\* A list can be worked through from a first value: there is a function of the
\* number of steps made.
Recurs(n, V, start, next, f) ==
  /\ f \in [0..n -> V]
  /\ f[0] = start
  /\ \A i \in 1..n : f[i] = next[i][f[i-1]]

LEMMA Recursion ==
  ASSUME NEW n \in Nat, NEW V, NEW start \in V, NEW next \in [1..n -> [V -> V]]
  PROVE  \E f : Recurs(n, V, start, next, f)
<1> DEFINE Works(m, f) == f[0] = start /\ \A i \in 1..m : f[i] = next[i][f[i-1]]
           T == {m \in 0..n : \E f \in [0..m -> V] : Works(m, f)}
<1>1. 0 \in T
  <2>1. [i \in 0..0 |-> start] \in [0..0 -> V] /\ Works(0, [i \in 0..0 |-> start])
    OBVIOUS
  <2> HIDE DEF Works
  <2> QED
    BY <2>1
<1>2. ASSUME NEW m \in 1..n, m - 1 \in T PROVE m \in T
  <2> PICK f \in [0..m-1 -> V] : Works(m - 1, f)
    BY <1>2
  <2> DEFINE g == [i \in 0..m |-> IF i = m THEN next[m][f[m-1]] ELSE f[i]]
  <2>1. g \in [0..m -> V]
    <3>1. f[m-1] \in V /\ next[m] \in [V -> V]
      OBVIOUS
    <3>2. next[m][f[m-1]] \in V
      BY <3>1
    <3>3. \A i \in 0..m : i # m => i \in 0..m-1
      OBVIOUS
    <3> HIDE DEF Works
    <3> QED
      BY <3>2, <3>3
  <2>2. g[0] = start
    OBVIOUS
  <2>3. ASSUME NEW i \in 1..m PROVE g[i] = next[i][g[i-1]]
    <3>1. CASE i = m
      <4>1. m \in 0..m /\ m - 1 \in 0..m /\ m - 1 # m
        OBVIOUS
      <4>2. g[m] = next[m][f[m-1]] /\ g[m-1] = f[m-1]
        BY <4>1
      <4> HIDE DEF g
      <4> QED
        BY <3>1, <4>2
    <3>2. CASE i # m
      <4>1. i \in 1..m-1 /\ i \in 0..m /\ i - 1 \in 0..m /\ i - 1 # m
        BY <3>2
      <4>2. g[i] = f[i] /\ g[i-1] = f[i-1] /\ f[i] = next[i][f[i-1]]
        BY <3>2, <4>1
      <4> QED
        BY <4>2
    <3> QED
      BY <3>1, <3>2
  <2>4. Works(m, g)
    BY <2>2, <2>3
  <2> HIDE DEF Works, g
  <2> QED
    BY <2>1, <2>4
<1> HIDE DEF T
<1>3. 0..n \subseteq T
  BY <1>1, <1>2, Upward
<1> QED
  BY <1>3 DEF T, Recurs

-----------------------------------------------------------------------------
(* What is in a sequence, whatever its order, and how that changes when an  *)
(* element is taken from its head or put at its end.  The invariants about  *)
(* batches, acknowledgements and queues of messages speak of members, so    *)
(* that their proofs need no indices.                                       *)

Members(s) == {s[k] : k \in 1..Len(s)}

LEMMA MembersType ==
  ASSUME NEW S, NEW s \in Seq(S)
  PROVE  Members(s) \subseteq S
BY ElementOfSeq DEF Members

LEMMA MembersTail ==
  ASSUME NEW S, NEW s \in Seq(S), s # <<>>
  PROVE  Members(s) = {Head(s)} \cup Members(Tail(s))
<1>1. /\ Len(s) \in Nat \ {0} /\ Len(Tail(s)) = Len(s) - 1
      /\ Head(s) = s[1]
      /\ \A k \in 1..Len(s) - 1 : Tail(s)[k] = s[k+1]
  BY EmptySeq, LenProperties, HeadTailProperties
<1>2. ASSUME NEW k \in 1..Len(s) PROVE s[k] \in {Head(s)} \cup Members(Tail(s))
  <2>1. CASE k = 1
    BY <1>1, <2>1
  <2>2. CASE k # 1
    <3>1. k - 1 \in 1..Len(Tail(s)) /\ Tail(s)[k - 1] = s[k]
      BY <1>1, <2>2
    <3> QED
      BY <3>1 DEF Members
  <2> QED
    BY <2>1, <2>2
<1>3. ASSUME NEW k \in 1..Len(Tail(s)) PROVE Tail(s)[k] \in Members(s)
  <2>1. k + 1 \in 1..Len(s) /\ Tail(s)[k] = s[k + 1]
    BY <1>1
  <2> QED
    BY <2>1 DEF Members
<1>4. Head(s) \in Members(s)
  BY <1>1 DEF Members
<1> QED
  BY <1>2, <1>3, <1>4 DEF Members

LEMMA MembersAppend ==
  ASSUME NEW S, NEW s \in Seq(S), NEW e \in S
  PROVE  Members(Append(s, e)) = Members(s) \cup {e}
<1>1. /\ Len(s) \in Nat /\ Len(Append(s, e)) = Len(s) + 1
      /\ \A k \in 1..Len(s) : Append(s, e)[k] = s[k]
      /\ Append(s, e)[Len(s) + 1] = e
  BY AppendProperties, LenProperties
<1>2. ASSUME NEW k \in 1..Len(s) + 1 PROVE Append(s, e)[k] \in Members(s) \cup {e}
  BY <1>1 DEF Members
<1>3. ASSUME NEW k \in 1..Len(s) PROVE s[k] \in Members(Append(s, e))
  <2>1. k \in 1..Len(Append(s, e))
    BY <1>1
  <2> QED
    BY <1>1, <2>1 DEF Members
<1>4. e \in Members(Append(s, e))
  BY <1>1 DEF Members
<1> QED
  BY <1>1, <1>2, <1>3, <1>4 DEF Members

LEMMA MembersOne ==
  ASSUME NEW o
  PROVE  Members(<<o>>) = {o}
BY DEF Members

LEMMA MembersEmpty == Members(<<>>) = {}
BY DEF Members

=============================================================================
