-------------------------- MODULE RecursionLemmas --------------------------
(***************************************************************************)
(* What the proofs about the components share: induction up to a number,   *)
(* for a set in place of a predicate, functions defined by recursion on a  *)
(* number, and FlattenSeq.                                                 *)
(***************************************************************************)
EXTENDS Naturals, Sequences, SequencesExt, WellFoundedInduction, TLAPS

-----------------------------------------------------------------------------
(* Induction over the natural numbers, for a set instead of a predicate    *)

\* Less-than on the natural numbers is a well-founded relation.
LEMMA LessThan ==
    \E R : IsWellFoundedOn(R, Nat) /\ \A x, y \in Nat : <<y, x>> \in R <=> y < x
<1>1. IsWellFoundedOn(OpToRel(<, Nat), Nat)
  BY NatLessThanWellFounded
<1>2. \A x, y \in Nat : <<y, x>> \in OpToRel(<, Nat) <=> y < x
  BY DEF OpToRel
<1> QED BY <1>1, <1>2, Zenon

\* A set of natural numbers has a least member.
LEMMA Least ==
    ASSUME NEW T \in SUBSET Nat, T # {}
    PROVE  \E x \in T : \A y \in T : x <= y
<1>1. PICK R : IsWellFoundedOn(R, Nat) /\ \A x, y \in Nat : <<y, x>> \in R <=> y < x
  BY LessThan
<1>2. \E x \in T : \A y \in T : ~(<<y, x>> \in R)
  BY <1>1, WFMin, Zenon
<1>3. \A x, y \in Nat : <<y, x>> \in R <=> y < x
  BY <1>1, Zenon
<1>4. PICK x \in T : \A y \in T : ~(<<y, x>> \in R)
  BY <1>2, Zenon
<1>5. \A y \in T : ~(y < x)
  BY <1>3, <1>4
<1> QED BY <1>5

\* A set that has 0 and with each number below n the next one has all up to n.
LEMMA UpTo ==
    ASSUME NEW n \in Nat, NEW G, 0 \in G, \A m \in 0..n : m < n /\ m \in G => m + 1 \in G
    PROVE  \A m \in 0..n : m \in G
<1> DEFINE T == {m \in 0..n : m \notin G}
<1> SUFFICES ASSUME T # {} PROVE FALSE
  OBVIOUS
<1>1. T \in SUBSET Nat
  OBVIOUS
<1>2. PICK m \in T : \A y \in T : m <= y
  BY <1>1, Least
<1>3. m \in 0..n /\ m \notin G /\ m # 0
  OBVIOUS
<1>4. m - 1 \in 0..n /\ m - 1 < n /\ (m - 1) + 1 = m
  BY <1>3
<1>5. m - 1 \in G
  BY <1>2, <1>4
<1> QED BY <1>3, <1>4, <1>5

\* A set of natural numbers up to n has a greatest member.
LEMMA Greatest ==
    ASSUME NEW n \in Nat, NEW T \in SUBSET (0..n), T # {}
    PROVE  \E x \in T : \A y \in T : y <= x
<1> DEFINE U == {u \in 0..n : n - u \in T}
<1>0. \A x \in T : x \in 0..n /\ n - x \in 0..n /\ n - (n - x) = x
  OBVIOUS
<1>1. \A x \in T : n - x \in U
  BY <1>0
<1>2. U \in SUBSET Nat
  OBVIOUS
<1>3. PICK u \in U : \A v \in U : u <= v
  BY <1>1, <1>2, Least
<1>4. n - u \in T /\ u \in 0..n
  OBVIOUS
<1>5. \A y \in T : u <= n - y
  BY <1>1, <1>3
<1>6. \A y \in T : y <= n - u
  BY <1>0, <1>4, <1>5
<1> QED BY <1>4, <1>6

-----------------------------------------------------------------------------
(* Recursive functions                                                     *)

\* A function whose values follow one from the other, step by step, exists.
Follows(g, n, V, v, f) == g \in [0..n -> V] /\ g[0] = v /\ \A i \in 1..n : g[i] = f[<<g[i - 1], i>>]

\* ... when its first value and its steps are given.
LEMMA Recursion ==
    ASSUME NEW n \in Nat, NEW V, NEW v \in V, NEW f \in [V \X (1..n) -> V]
    PROVE  \E g : Follows(g, n, V, v, f)
<1> DEFINE Good(m) == \E g \in [0..m -> V] : g[0] = v /\ \A i \in 1..m : g[i] = f[<<g[i - 1], i>>]
           G == {m \in 0..n : Good(m)}
<1>1. Good(0)
  <2> DEFINE g == [i \in 0..0 |-> v]
  <2>1. g \in [0..0 -> V] /\ g[0] = v /\ \A i \in 1..0 : g[i] = f[<<g[i - 1], i>>]
    OBVIOUS
  <2> QED BY <2>1
<1>2. ASSUME NEW m \in 0..n, m < n, Good(m)
      PROVE  Good(m + 1)
  <2>1. PICK g \in [0..m -> V] : g[0] = v /\ \A i \in 1..m : g[i] = f[<<g[i - 1], i>>]
    BY <1>2
  <2> DEFINE x == f[<<g[m], m + 1>>]
             h == [i \in 0..(m + 1) |-> IF i = m + 1 THEN x ELSE g[i]]
  <2>2. m \in Nat /\ m + 1 \in 1..n /\ (m + 1) - 1 = m /\ m \in 0..m
    BY <1>2
  <2>3. x \in V
    <3>1. <<g[m], m + 1>> \in V \X (1..n)
      BY <2>2
    <3> QED BY <3>1
  <2>4. h[m + 1] = f[<<g[m], m + 1>>] /\ h[m] = g[m]
    BY <2>2
  <2> HIDE DEF x
  <2>5. h \in [0..(m + 1) -> V] /\ h[0] = v
    BY <2>1, <2>2, <2>3
  <2>6. \A i \in 1..(m + 1) : h[i] = f[<<h[i - 1], i>>]
    <3> TAKE i \in 1..(m + 1)
    <3>1. CASE i = m + 1
      BY <2>2, <2>4, <3>1
    <3>2. CASE i # m + 1
      <4>1. i \in 1..m /\ h[i] = g[i] /\ h[i - 1] = g[i - 1]
        BY <2>2, <3>2
      <4> QED BY <2>1, <4>1
    <3> QED BY <3>1, <3>2
  <2> HIDE DEF h
  <2> QED BY <2>5, <2>6
<1> HIDE DEF Good
<1>3. 0 \in G /\ \A m \in 0..n : m < n /\ m \in G => m + 1 \in G
  BY <1>1, <1>2
<1> HIDE DEF G
<1>4. n \in G
  BY <1>3, UpTo
<1>5. Good(n)
  BY <1>4 DEF G
<1> QED BY <1>5 DEF Good, Follows

\* The number after one below n.
LEMMA Successor ==
    ASSUME NEW n \in Nat, NEW m \in 0..n, m < n
    PROVE  m + 1 \in 1..n /\ (m + 1) - 1 = m /\ m + 1 \in 0..n /\ m \in Nat
  OBVIOUS

\* Two functions that follow one from the other in the same way agree.
LEMMA SameCourse ==
    ASSUME NEW n \in Nat, NEW g, NEW h, g[0] = h[0], \A m \in 0..n : m < n /\ g[m] = h[m] => g[m + 1] = h[m + 1]
    PROVE  \A m \in 0..n : g[m] = h[m]
<1> DEFINE G == {m \in 0..n : g[m] = h[m]}
<1>1. 0 \in G /\ \A m \in 0..n : m < n /\ m \in G => m + 1 \in G
  OBVIOUS
<1> HIDE DEF G
<1>2. \A m \in 0..n : m \in G
  BY <1>1, UpTo
<1> QED BY <1>2 DEF G

-----------------------------------------------------------------------------
(* FlattenSeq                                                              *)

\* The values of FlattenSeq's recursion, from the empty sequence on.
Flattens(g, s) == g[0] = <<>> /\ \A i \in 1..Len(s) : g[i] = g[i - 1] \o s[i]

\* FlattenSeq is the last value of its recursion.
LEMMA FlattenCourse ==
    ASSUME NEW T, NEW s \in Seq(Seq(T))
    PROVE  \E g \in [0..Len(s) -> Seq(T)] : Flattens(g, s) /\ FlattenSeq(s) = g[Len(s)]
<1> DEFINE n == Len(s)
           f == [x \in Seq(T) \X (1..n) |-> x[1] \o s[x[2]]]
           Fix(h) == h = [i \in 1..n |-> IF i = 1 THEN s[i] ELSE h[i - 1] \o s[i]]
           u == CHOOSE h : Fix(h)
<1>1. n \in Nat
  OBVIOUS
<1>2. \A i \in 1..n : s[i] \in Seq(T)
  OBVIOUS
<1>3. f \in [Seq(T) \X (1..n) -> Seq(T)]
  <2>1. \A x \in Seq(T) \X (1..n) : x[1] \o s[x[2]] \in Seq(T)
    BY <1>2
  <2> QED BY <2>1
<1>4. \A t \in Seq(T), i \in 1..n : f[<<t, i>>] = t \o s[i]
  OBVIOUS
<1>5. <<>> \in Seq(T)
  OBVIOUS
<1> HIDE DEF f, u, n
<1>6. \E g : Follows(g, n, Seq(T), <<>>, f)
  BY <1>1, <1>3, <1>5, Recursion
<1>7. PICK g \in [0..n -> Seq(T)] : g[0] = <<>> /\ \A i \in 1..n : g[i] = f[<<g[i - 1], i>>]
  BY <1>6 DEF Follows
<1>8. \A i \in 1..n : i - 1 \in 0..n /\ g[i] = g[i - 1] \o s[i]
  <2> TAKE i \in 1..n
  <2>1. i - 1 \in 0..n
    BY <1>1
  <2>2. g[i] = f[<<g[i - 1], i>>]
    BY <1>7
  <2>3. f[<<g[i - 1], i>>] = g[i - 1] \o s[i]
    BY <1>4, <1>7, <2>1
  <2> QED BY <2>1, <2>2, <2>3
<1>9. Flattens(g, s)
  BY <1>7, <1>8 DEF Flattens, n
<1>10. CASE n = 0
  <2>1. s = <<>> /\ FlattenSeq(s) = s
    BY <1>10 DEF n, FlattenSeq
  <2>2. FlattenSeq(s) = g[n]
    BY <1>7, <1>10, <2>1
  <2> QED BY <1>7, <1>9, <2>2 DEF n
<1>11. CASE n # 0
  <2>1. FlattenSeq(s) = u[n]
    BY <1>11 DEF FlattenSeq, u, n
  <2>2. n \in 1..n /\ 1 \in 1..n /\ 1 - 1 = 0
    BY <1>1, <1>11
  <2>12. s[1] \in Seq(T)
    BY <1>2, <2>2
  <2>11. g[1] = g[0] \o s[1]
    BY <1>8, <2>2
  <2>13. g[1] = s[1]
    <3>1. <<>> \o s[1] = s[1]
      BY <2>12
    <3> QED BY <1>7, <2>11, <3>1
  <2> DEFINE h == [i \in 1..n |-> g[i]]
  <2>3. Fix(h)
    <3>1. \A i \in 1..n : h[i] = IF i = 1 THEN s[i] ELSE h[i - 1] \o s[i]
      <4> TAKE i \in 1..n
      <4>1. CASE i = 1
        BY <2>13, <4>1
      <4>2. CASE i # 1
        <5>1. i - 1 \in 1..n
          BY <1>1, <4>2
        <5> QED BY <1>8, <4>2, <5>1
      <4> QED BY <4>1, <4>2
    <3>2. h = [i \in 1..n |-> h[i]]
      OBVIOUS
    <3> HIDE DEF h
    <3> QED BY <3>1, <3>2
  <2>4. Fix(u)
    BY <2>3 DEF u
  <2>5. \A i \in 1..n : u[i] = IF i = 1 THEN s[i] ELSE u[i - 1] \o s[i]
    BY <2>4
  <2> HIDE DEF Fix
  <2> DEFINE v == [i \in 0..n |-> IF i = 0 THEN <<>> ELSE u[i]]
  <2>6. v[0] = g[0]
    BY <1>1, <1>7
  <2>7. \A m \in 0..n : m < n /\ v[m] = g[m] => v[m + 1] = g[m + 1]
    <3> SUFFICES ASSUME NEW m \in 0..n, m < n, v[m] = g[m] PROVE v[m + 1] = g[m + 1]
      OBVIOUS
    <3>1. m + 1 \in 1..n /\ (m + 1) - 1 = m /\ m + 1 # 0 /\ m + 1 \in 0..n
      BY <1>1
    <3>2. v[m + 1] = u[m + 1] /\ g[m + 1] = g[m] \o s[m + 1] /\ s[m + 1] \in Seq(T)
      BY <1>2, <1>8, <3>1
    <3>3. CASE m = 0
      <4>1. u[1] = s[1]
        BY <2>2, <2>5
      <4>2. m + 1 = 1
        BY <3>3
      <4> QED BY <2>13, <3>2, <4>1, <4>2
    <3>4. CASE m # 0
      <4>1. m + 1 # 1 /\ v[m] = u[m]
        BY <3>4
      <4>2. u[m + 1] = u[m] \o s[m + 1]
        BY <2>5, <3>1, <4>1
      <4> QED BY <3>2, <4>1, <4>2
    <3> QED BY <3>3, <3>4
  <2> HIDE DEF v
  <2>8. \A m \in 0..n : v[m] = g[m]
    BY <1>1, <2>6, <2>7, SameCourse, ZenonT(40)
  <2>9. v[n] = u[n]
    BY <1>1, <1>11 DEF v
  <2>10. FlattenSeq(s) = g[n]
    BY <1>1, <2>1, <2>8, <2>9
  <2> QED BY <1>7, <1>9, <2>10 DEF n
<1> QED BY <1>10, <1>11

\* FlattenSeq takes one sequence after another.
LEMMA FlattenType ==
    ASSUME NEW T, NEW s \in Seq(Seq(T))
    PROVE  FlattenSeq(s) \in Seq(T)
<1>1. PICK g \in [0..Len(s) -> Seq(T)] : FlattenSeq(s) = g[Len(s)]
  BY FlattenCourse
<1>2. Len(s) \in 0..Len(s)
  OBVIOUS
<1> QED BY <1>1, <1>2

\* Nothing comes of nothing, and a sequence more comes last.
LEMMA FlattenNone == FlattenSeq(<<>>) = <<>>
  BY DEF FlattenSeq

LEMMA FlattenMore ==
    ASSUME NEW T, NEW s \in Seq(Seq(T)), NEW x \in Seq(T)
    PROVE  FlattenSeq(Append(s, x)) = FlattenSeq(s) \o x
<1> DEFINE n == Len(s)
           t == Append(s, x)
<1>1. n \in Nat /\ t \in Seq(Seq(T)) /\ Len(t) = n + 1 /\ t[n + 1] = x
  OBVIOUS
<1>2. \A i \in 1..n : t[i] = s[i]
  OBVIOUS
<1>3. PICK g \in [0..n -> Seq(T)] : Flattens(g, s) /\ FlattenSeq(s) = g[n]
  BY FlattenCourse
<1> HIDE DEF t
<1>4. PICK h \in [0..Len(t) -> Seq(T)] : Flattens(h, t) /\ FlattenSeq(t) = h[Len(t)]
  BY <1>1, FlattenCourse
<1>5. h[0] = g[0]
  BY <1>3, <1>4 DEF Flattens
<1>6. \A m \in 0..n : m < n /\ h[m] = g[m] => h[m + 1] = g[m + 1]
  <2> SUFFICES ASSUME NEW m \in 0..n, m < n, h[m] = g[m] PROVE h[m + 1] = g[m + 1]
    OBVIOUS
  <2> DEFINE i == m + 1
  <2>1. i \in 1..n /\ i \in 1..Len(t) /\ i - 1 = m
    BY <1>1
  <2> HIDE DEF i, n
  <2>2. g[i] = g[i - 1] \o s[i] /\ h[i] = h[i - 1] \o t[i]
    BY <1>3, <1>4, <2>1 DEF Flattens, n
  <2>3. h[i] = g[i]
    BY <1>2, <2>1, <2>2
  <2> QED BY <2>3 DEF i
<1>7. \A m \in 0..n : h[m] = g[m]
  <2>1. n \in Nat
    BY <1>1
  <2> HIDE DEF n
  <2> QED BY <1>5, <1>6, <2>1, SameCourse, ZenonT(40)
<1>8. h[n] = g[n]
  BY <1>1, <1>7
<1> DEFINE i == n + 1
<1>9. i \in 1..Len(t) /\ i - 1 = n /\ i = Len(t) /\ t[i] = x
  BY <1>1
<1> HIDE DEF i
<1>10. h[i] = h[i - 1] \o t[i]
  BY <1>4, <1>9 DEF Flattens
<1> QED BY <1>3, <1>4, <1>8, <1>9, <1>10 DEF t

\* One more of a sequence's members.
LEMMA FlattenNext ==
    ASSUME NEW T, NEW s \in Seq(Seq(T)), NEW k \in 1..Len(s)
    PROVE  FlattenSeq(SubSeq(s, 1, k)) = FlattenSeq(SubSeq(s, 1, k - 1)) \o s[k]
<1>1. k \in Nat /\ k - 1 \in Nat /\ k - 1 <= Len(s) /\ s[k] \in Seq(T)
  OBVIOUS
<1>2. SubSeq(s, 1, k - 1) \in Seq(Seq(T)) /\ SubSeq(s, 1, k) = Append(SubSeq(s, 1, k - 1), s[k])
  BY <1>1
<1> QED BY <1>1, <1>2, FlattenMore
=============================================================================
