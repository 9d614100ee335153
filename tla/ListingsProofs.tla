--------------------------- MODULE ListingsProofs ---------------------------
(* The listings of Listings: what they answer, for any list of Codex, any    *)
(* limits and any bounds on pages.                                           *)
EXTENDS Listings, WellFoundedInduction, FiniteSetTheorems, SequenceTheorems, TLAPS

-----------------------------------------------------------------------------
(* Numbers                                                                  *)

LEMMA LeastNumber ==
  ASSUME NEW S \in SUBSET Nat, S # {}
  PROVE  \E x \in S : \A y \in S : x <= y
<1>1. PICK x \in S : \A y \in S : <<y, x>> \notin OpToRel(<, Nat)
  BY WFMin, NatLessThanWellFounded
<1>2. \A y \in S : ~(y < x)
  BY <1>1 DEF OpToRel
<1> QED BY <1>2

LEMMA Induct ==
  ASSUME NEW S, 0 \in S, \A n \in Nat : n \in S => n + 1 \in S
  PROVE  \A n \in Nat : n \in S
<1> SUFFICES ASSUME Nat \ S # {} PROVE FALSE
  OBVIOUS
<1>1. PICK x \in Nat \ S : \A y \in Nat \ S : x <= y
  BY LeastNumber
<1>2. x - 1 \in Nat
  OBVIOUS
<1>3. x - 1 \in S
  BY <1>1, <1>2
<1> QED BY <1>2, <1>3

LEMMA GreatestNumber ==
  ASSUME NEW N \in Nat, NEW S \in SUBSET (0 .. N), S # {}
  PROVE  Max(S) \in S /\ \A y \in S : y <= Max(S)
<1> DEFINE D == {N - y : y \in S}
<1>0. D \in SUBSET Nat /\ D # {}
  <2>1. \A y \in S : N - y \in Nat
    OBVIOUS
  <2> QED BY <2>1
<1>1. PICK x \in D : \A z \in D : x <= z
  <2> HIDE DEF D
  <2> QED BY <1>0, LeastNumber
<1>2. PICK m \in S : x = N - m
  BY <1>1
<1>3. \A y \in S : N - m <= N - y
  BY <1>1, <1>2
<1>4. \A y \in S : m >= y
  BY <1>3
<1> QED BY <1>4 DEF Max

LEMMA GreatestOf ==
  ASSUME NEW n \in Nat \ {0}
  PROVE  Max(1 .. n) = n /\ (1 .. n) \ {n} = 1 .. (n - 1) /\ 1 .. n # {}
<1>0. 1 .. n \in SUBSET (0 .. n) /\ 1 .. n # {}
  OBVIOUS
<1>1. Max(1 .. n) \in 1 .. n /\ \A y \in 1 .. n : y <= Max(1 .. n)
  BY <1>0, GreatestNumber
<1> QED BY <1>1

LEMMA LesserOf ==
  ASSUME NEW m \in Nat, NEW n \in Nat
  PROVE  Min({m, n}) = IF m <= n THEN m ELSE n
<1>1. \E x \in {m, n} : \A y \in {m, n} : x =< y
  OBVIOUS
<1>2. Min({m, n}) \in {m, n} /\ \A y \in {m, n} : Min({m, n}) =< y
  BY <1>1 DEF Min
<1> QED BY <1>2

-----------------------------------------------------------------------------
(* Folds: the recursive function of a fold over a sequence exists, so the   *)
(* fold is its value.                                                       *)

IsFold(g, F, base, seq, n) == \A s \in SUBSET (1 .. n) :
    g[s] = IF s = {} THEN base ELSE F[<<g[s \ {Max(s)}], seq[Max(s)]>>]

LEMMA FoldExists ==
  ASSUME NEW A, NEW B, NEW F \in [A \X B -> A], NEW base \in A, NEW n \in Nat, NEW seq \in [1 .. n -> B]
  PROVE  \E g \in [SUBSET (1 .. n) -> A] : IsFold(g, F, base, seq, n)
<1> DEFINE T == {m \in Nat : m <= n => \E g \in [SUBSET (1 .. m) -> A] : IsFold(g, F, base, seq, m)}
<1>1. 0 \in T
  <2>1. 1 .. 0 = {} /\ SUBSET (1 .. 0) = {{}}
    OBVIOUS
  <2>2. \E g \in [SUBSET (1 .. 0) -> A] : IsFold(g, F, base, seq, 0)
    <3> DEFINE g0 == [s \in SUBSET (1 .. 0) |-> base]
    <3>1. g0 \in [SUBSET (1 .. 0) -> A]
      OBVIOUS
    <3>2. IsFold(g0, F, base, seq, 0)
      BY <2>1 DEF IsFold
    <3> QED BY <3>1, <3>2
  <2> QED BY <2>2
<1>2. \A m \in Nat : m \in T => m + 1 \in T
  <2> SUFFICES ASSUME NEW m \in Nat, m \in T, m + 1 <= n
               PROVE  \E h \in [SUBSET (1 .. m + 1) -> A] : IsFold(h, F, base, seq, m + 1)
    <3>1. \A m \in Nat : m + 1 \in Nat
      OBVIOUS
    <3> QED BY <3>1, Zenon
  <2>0. PICK g \in [SUBSET (1 .. m) -> A] : IsFold(g, F, base, seq, m)
    <3>1. m <= n
      OBVIOUS
    <3> QED BY <3>1, Zenon
  <2>1. \A s \in SUBSET (1 .. m) : g[s] = IF s = {} THEN base ELSE F[<<g[s \ {Max(s)}], seq[Max(s)]>>]
    BY <2>0 DEF IsFold
  <2> DEFINE h == [s \in SUBSET (1 .. m + 1) |->
                     IF m + 1 \in s THEN F[<<g[s \ {m + 1}], seq[m + 1]>>] ELSE g[s]]
  <2>2. \A s \in SUBSET (1 .. m + 1) : /\ s \ {m + 1} \in SUBSET (1 .. m)
                                       /\ m + 1 \notin s => s \in SUBSET (1 .. m)
    OBVIOUS
  <2>3. seq[m + 1] \in B
    OBVIOUS
  <2>4. ASSUME NEW s \in SUBSET (1 .. m + 1) PROVE h[s] \in A
    <3>1. CASE m + 1 \in s
      <4>1. g[s \ {m + 1}] \in A
        BY <2>2
      <4>2. <<g[s \ {m + 1}], seq[m + 1]>> \in A \X B
        BY <4>1, <2>3
      <4> QED BY <4>2, <3>1
    <3>2. CASE m + 1 \notin s
      BY <3>2, <2>2
    <3> QED BY <3>1, <3>2
  <2>5. h \in [SUBSET (1 .. m + 1) -> A]
    BY <2>4
  <2>6. ASSUME NEW s \in SUBSET (1 .. m + 1)
        PROVE  h[s] = IF s = {} THEN base ELSE F[<<h[s \ {Max(s)}], seq[Max(s)]>>]
    <3>1. CASE m + 1 \in s
      <4>1. Max(s) = m + 1
        <5>1. m + 1 \in Nat /\ s \in SUBSET (0 .. m + 1) /\ s # {}
          BY <3>1
        <5>2. Max(s) \in s /\ \A y \in s : y <= Max(s)
          BY <5>1, GreatestNumber
        <5>3. Max(s) \in 1 .. m + 1 /\ m + 1 <= Max(s)
          BY <5>2, <3>1
        <5> HIDE DEF h
        <5> QED BY <5>3
      <4>2. h[s \ {m + 1}] = g[s \ {m + 1}]
        BY <2>2
      <4>3. h[s] = F[<<g[s \ {m + 1}], seq[m + 1]>>]
        BY <3>1
      <4> HIDE DEF h
      <4> QED BY <4>1, <4>2, <4>3, <3>1
    <3>2. CASE m + 1 \notin s
      <4>1. h[s] = g[s] /\ s \in SUBSET (1 .. m)
        BY <3>2, <2>2
      <4>2. CASE s = {}
        BY <4>1, <4>2, <2>1
      <4>3. CASE s # {}
        <5>1. s \ {Max(s)} \in SUBSET (1 .. m) /\ m + 1 \notin s \ {Max(s)}
          BY <4>1, <3>2
        <5>2. h[s \ {Max(s)}] = g[s \ {Max(s)}]
          BY <5>1
        <5>3. g[s] = F[<<g[s \ {Max(s)}], seq[Max(s)]>>]
          BY <4>1, <4>3, <2>1
        <5> HIDE DEF h
        <5> QED BY <5>2, <5>3, <4>1, <4>3
      <4> QED BY <4>2, <4>3
    <3> QED BY <3>1, <3>2
  <2> HIDE DEF h
  <2>7. IsFold(h, F, base, seq, m + 1)
    BY <2>6 DEF IsFold
  <2> QED BY <2>5, <2>7
<1> HIDE DEF T
<1>3. n \in T
  BY <1>1, <1>2, Induct
<1>4. n <= n => \E g \in [SUBSET (1 .. n) -> A] : IsFold(g, F, base, seq, n)
  BY <1>3 DEF T
<1>5. n <= n
  OBVIOUS
<1> QED BY <1>4, <1>5

\* The values of a fold after each item, up to its result.
IsTrace(f, A, F, base, seq, n, result) ==
    /\ f \in [0 .. n -> A] /\ f[0] = base /\ f[n] = result
    /\ \A k \in 1 .. n : f[k] = F[<<f[k - 1], seq[k]>>]

\* g follows F as far as its values are in A.
Follows(g, A, F, base, seq, n) ==
    /\ g[{}] = base
    /\ \A s \in SUBSET (1 .. n) :
          s # {} /\ g[s \ {Max(s)}] \in A => g[s] = F[<<g[s \ {Max(s)}], seq[Max(s)]>>]

LEMMA FoldTrace ==
  ASSUME NEW A, NEW B, NEW F \in [A \X B -> A], NEW base \in A, NEW n \in Nat, NEW seq \in [1 .. n -> B],
         NEW g, Follows(g, A, F, base, seq, n)
  PROVE  \E f : IsTrace(f, A, F, base, seq, n, g[1 .. n])
<1> DEFINE f == [k \in 0 .. n |-> g[1 .. k]]
           T == {k \in Nat : k <= n => g[1 .. k] \in A}
<1>1. ASSUME NEW k \in Nat, k < n, g[1 .. k] \in A
      PROVE  g[1 .. (k + 1)] = F[<<g[1 .. k], seq[k + 1]>>] /\ g[1 .. (k + 1)] \in A
  <2>1. Max(1 .. (k + 1)) = k + 1 /\ (1 .. (k + 1)) \ {k + 1} = 1 .. k /\ 1 .. (k + 1) # {}
    <3>1. k + 1 \in Nat \ {0} /\ (k + 1) - 1 = k
      OBVIOUS
    <3> QED BY <3>1, GreatestOf
  <2>2. 1 .. (k + 1) \in SUBSET (1 .. n) /\ 1 .. (k + 1) # {}
    <3>1. k + 1 <= n
      BY <1>1
    <3>2. 1 .. (k + 1) \subseteq 1 .. n
      BY <3>1
    <3> QED BY <3>2, <2>1, Zenon
  <2>3. g[1 .. (k + 1)] = F[<<g[1 .. k], seq[k + 1]>>]
    BY <2>1, <2>2, <1>1, Zenon DEF Follows
  <2>4. seq[k + 1] \in B
    BY <1>1
  <2>5. <<g[1 .. k], seq[k + 1]>> \in A \X B
    BY <2>4, <1>1
  <2> QED BY <2>3, <2>5
<1>2. g[1 .. 0] = base /\ 1 .. 0 = {}
  <2>1. 1 .. 0 = {}
    OBVIOUS
  <2> QED BY <2>1 DEF Follows
<1>3. 0 \in T
  BY <1>2
<1>4. ASSUME NEW k \in Nat, k \in T, k + 1 <= n PROVE g[1 .. (k + 1)] \in A
  <2>1. k < n /\ k <= n
    BY <1>4
  <2> QED BY <2>1, <1>1, <1>4, Zenon
<1>5. \A k \in Nat : k \in T
  <2>1. \A k \in Nat : k \in T => k + 1 \in T
    BY <1>4
  <2> HIDE DEF T
  <2> QED BY <1>3, <2>1, Induct
<1>6. \A k \in 0 .. n : g[1 .. k] \in A
  BY <1>5
<1>7. f \in [0 .. n -> A]
  BY <1>6
<1>8. f[0] = base /\ f[n] = g[1 .. n]
  BY <1>2
<1>9. ASSUME NEW k \in 1 .. n PROVE f[k] = F[<<f[k - 1], seq[k]>>]
  <2>1. k - 1 \in Nat /\ k - 1 < n /\ (k - 1) + 1 = k /\ k - 1 \in 0 .. n /\ k \in 0 .. n
    OBVIOUS
  <2>2. g[1 .. (k - 1)] \in A
    BY <2>1, <1>6
  <2>3. g[1 .. k] = F[<<g[1 .. (k - 1)], seq[k]>>]
    BY <2>1, <2>2, <1>1
  <2> QED BY <2>1, <2>3
<1> HIDE DEF f
<1>10. IsTrace(f, A, F, base, seq, n, g[1 .. n])
  BY <1>7, <1>8, <1>9 DEF IsTrace
<1> QED BY <1>10

LEMMA SeqFacts ==
  ASSUME NEW S, NEW s \in Seq(S)
  PROVE  /\ Len(s) \in Nat /\ s \in [1 .. Len(s) -> S] /\ DOMAIN s = 1 .. Len(s)
         /\ ToSet(s) = {s[i] : i \in 1 .. Len(s)} /\ ToSet(s) \subseteq S
  BY DEF ToSet

-----------------------------------------------------------------------------
(* Lists in order                                                           *)

\* The pairs of S of which the first comes before the second.
IsOrderOn(R, S) ==
    /\ \A x, y \in S : x = y \/ <<x, y>> \in R \/ <<y, x>> \in R
    /\ \A x \in S : <<x, x>> \notin R
    /\ \A x, y, z \in S : <<x, y>> \in R /\ <<y, z>> \in R => <<x, z>> \in R
InOrderOf(s, R) == \A i, j \in DOMAIN s : i < j => <<s[i], s[j]>> \in R

LEMMA OrderOnPart == ASSUME NEW R, NEW S, NEW T \in SUBSET S, IsOrderOn(R, S) PROVE IsOrderOn(R, T)
  BY DEF IsOrderOn

LEMMA LastExists ==
  ASSUME NEW R, NEW S, IsFiniteSet(S), IsOrderOn(R, S), S # {}
  PROVE  \E m \in S : \A x \in S \ {m} : <<x, m>> \in R
<1> DEFINE N == {n \in Nat : \A T \in SUBSET S : Cardinality(T) = n /\ T # {} =>
                                \E m \in T : \A x \in T \ {m} : <<x, m>> \in R}
<1>1. 0 \in N
  <2>1. \A T \in SUBSET S : Cardinality(T) = 0 => T = {}
    BY FS_Subset, FS_EmptySet
  <2> QED BY <2>1
<1>2. ASSUME NEW n \in Nat, n \in N PROVE n + 1 \in N
  <2> SUFFICES ASSUME NEW T \in SUBSET S, Cardinality(T) = n + 1, T # {}
               PROVE  \E m \in T : \A x \in T \ {m} : <<x, m>> \in R
    OBVIOUS
  <2>1. PICK t \in T : TRUE
    OBVIOUS
  <2>2. Cardinality(T \ {t}) = n /\ T \ {t} \in SUBSET S
    <3>1. IsFiniteSet(T)
      BY FS_Subset
    <3>2. Cardinality(T \ {t}) = n + 1 - 1
      BY <3>1, <2>1, FS_RemoveElement
    <3> QED BY <3>2
  <2>3. CASE T \ {t} = {}
    BY <2>1, <2>3
  <2>4. CASE T \ {t} # {}
    <3>1. PICK m \in T \ {t} : \A x \in (T \ {t}) \ {m} : <<x, m>> \in R
      BY <1>2, <2>2, <2>4, Zenon
    <3>2. CASE <<t, m>> \in R
      BY <3>1, <3>2
    <3>3. CASE <<m, t>> \in R
      <4>1. \A x \in T \ {t} : <<x, t>> \in R
        BY <3>1, <3>3, <2>1 DEF IsOrderOn
      <4> QED BY <4>1, <2>1
    <3> QED BY <3>1, <3>2, <3>3, <2>1 DEF IsOrderOn
  <2> QED BY <2>3, <2>4
<1>3. Cardinality(S) \in N
  <2> HIDE DEF N
  <2> QED BY <1>1, <1>2, Induct, FS_CardinalityType
<1> QED BY <1>3, Zenon

LEMMA OrderedExists ==
  ASSUME NEW R, NEW S, IsFiniteSet(S), IsOrderOn(R, S)
  PROVE  \E s \in [1 .. Cardinality(S) -> S] : InOrderOf(s, R)
<1> DEFINE N == {n \in Nat : \A T \in SUBSET S : Cardinality(T) = n => \E s \in [1 .. n -> T] : InOrderOf(s, R)}
<1>1. 0 \in N
  <2> SUFFICES ASSUME NEW T PROVE \E s \in [1 .. 0 -> T] : InOrderOf(s, R)
    OBVIOUS
  <2> DEFINE s == [i \in 1 .. 0 |-> 0]
  <2>1. s \in [1 .. 0 -> T] /\ DOMAIN s = {}
    OBVIOUS
  <2> HIDE DEF s
  <2> QED BY <2>1 DEF InOrderOf
<1>2. ASSUME NEW n \in Nat, n \in N PROVE n + 1 \in N
  <2> SUFFICES ASSUME NEW T \in SUBSET S, Cardinality(T) = n + 1
               PROVE  \E s \in [1 .. n + 1 -> T] : InOrderOf(s, R)
    OBVIOUS
  <2>1. IsFiniteSet(T) /\ T # {} /\ IsOrderOn(R, T)
    BY FS_Subset, FS_EmptySet, OrderOnPart
  <2>2. PICK m \in T : \A x \in T \ {m} : <<x, m>> \in R
    BY <2>1, LastExists
  <2>3. Cardinality(T \ {m}) = n /\ T \ {m} \in SUBSET S
    <3>1. Cardinality(T \ {m}) = Cardinality(T) - 1
      BY <2>1, <2>2, FS_RemoveElement
    <3> QED BY <3>1
  <2>4. PICK s \in [1 .. n -> T \ {m}] : InOrderOf(s, R)
    BY <1>2, <2>3, Zenon
  <2> DEFINE t == [i \in 1 .. n + 1 |-> IF i = n + 1 THEN m ELSE s[i]]
  <2>5. t \in [1 .. n + 1 -> T] /\ DOMAIN t = 1 .. n + 1 /\ t[n + 1] = m
    OBVIOUS
  <2>6. \A i \in 1 .. n + 1 : i # n + 1 => i \in 1 .. n /\ t[i] = s[i] /\ s[i] \in T \ {m}
    OBVIOUS
  <2> HIDE DEF t
  <2>7. ASSUME NEW i \in 1 .. n + 1, NEW j \in 1 .. n + 1, i < j PROVE <<t[i], t[j]>> \in R
    <3>1. i # n + 1
      BY <2>7
    <3>2. CASE j = n + 1
      BY <3>1, <3>2, <2>5, <2>6, <2>2
    <3>3. CASE j # n + 1
      <4>1. i \in DOMAIN s /\ j \in DOMAIN s /\ t[i] = s[i] /\ t[j] = s[j]
        BY <3>1, <3>3, <2>6
      <4> QED BY <4>1, <2>4, <2>7 DEF InOrderOf
    <3> QED BY <3>2, <3>3
  <2>8. InOrderOf(t, R)
    BY <2>5, <2>7 DEF InOrderOf
  <2> QED BY <2>5, <2>8
<1>3. Cardinality(S) \in N
  <2> HIDE DEF N
  <2> QED BY <1>1, <1>2, Induct, FS_CardinalityType
<1> QED BY <1>3, Zenon

\* A list in order has every member once.
IsListOf(s, S) == s \in [1 .. Cardinality(S) -> S]
HasEachOnce(s, S) ==
    /\ \A i, j \in 1 .. Cardinality(S) : s[i] = s[j] => i = j
    /\ \A x \in S : \E i \in 1 .. Cardinality(S) : s[i] = x

LEMMA OrderedHasAll ==
  ASSUME NEW R, NEW S, IsFiniteSet(S), IsOrderOn(R, S), NEW s, IsListOf(s, S), InOrderOf(s, R)
  PROVE  HasEachOnce(s, S)
<1>0. s \in [1 .. Cardinality(S) -> S]
  BY DEF IsListOf
<1>1. Cardinality(S) \in Nat
  BY FS_CardinalityType
<1>2. ASSUME NEW i \in 1 .. Cardinality(S), NEW j \in 1 .. Cardinality(S), s[i] = s[j] PROVE i = j
  <2>1. ~(i < j) /\ ~(j < i)
    BY <1>0, <1>2 DEF InOrderOf, IsOrderOn
  <2> QED BY <1>1, <2>1
<1>3. s \in Injection(1 .. Cardinality(S), S)
  BY <1>0, <1>2 DEF Injection, IsInjective
<1>4. Cardinality(1 .. Cardinality(S)) = Cardinality(S)
  BY <1>1, FS_Interval
<1>5. s \in Surjection(1 .. Cardinality(S), S)
  BY <1>3, <1>4, FS_Injection
<1> QED BY <1>2, <1>5 DEF Surjection, HasEachOnce

\* The list of copies of which no two are equally recent.
LEMMA SortedIs ==
  ASSUME NEW S \in SUBSET Copy, IsFiniteSet(S), \A c, d \in S : c.at = d.at => c = d
  PROVE  /\ Sorted(S) \in [1 .. Cardinality(S) -> S] /\ Cardinality(S) \in Nat
         /\ \A i, j \in 1 .. Cardinality(S) : i < j => Sorted(S)[i].at > Sorted(S)[j].at
         /\ \A c \in S : \E i \in 1 .. Cardinality(S) : Sorted(S)[i] = c
<1> DEFINE R == {e \in S \X S : e[1].at > e[2].at}
           n == Cardinality(S)
           Falling(s) == \A i, j \in DOMAIN s : i < j => s[i].at > s[j].at
<1>1. n \in Nat
  BY FS_CardinalityType
<1>2. \A c \in S : c.at \in Nat
  BY ListingsAssumption DEF Copy
<1>3. \A c, d \in S : <<c, d>> \in R <=> c.at > d.at
  OBVIOUS
<1>4. IsOrderOn(R, S)
  <2> HIDE DEF R
  <2>0. \A c, d \in S : c.at = d.at \/ c.at > d.at \/ d.at > c.at
    BY <1>2
  <2>1. \A c, d \in S : c = d \/ <<c, d>> \in R \/ <<d, c>> \in R
    BY <2>0, <1>3
  <2>2. \A c \in S : <<c, c>> \notin R
    BY <1>2, <1>3
  <2>3. \A c, d, e \in S : <<c, d>> \in R /\ <<d, e>> \in R => <<c, e>> \in R
    BY <1>2, <1>3
  <2> QED BY <2>1, <2>2, <2>3 DEF IsOrderOn
<1>5. \A s \in [1 .. n -> S] : InOrderOf(s, R) <=> Falling(s)
  <2> HIDE DEF R
  <2> QED BY <1>3 DEF InOrderOf
<1> HIDE DEF R
<1>6. \E s \in [1 .. n -> S] : Falling(s)
  BY <1>4, <1>5, OrderedExists
<1>7. Sorted(S) = CHOOSE s \in [1 .. n -> S] : Falling(s)
  BY DEF Sorted, InOrder
<1> HIDE DEF Falling
<1>8. Sorted(S) \in [1 .. n -> S] /\ Falling(Sorted(S))
  BY <1>6, <1>7
<1>9. InOrderOf(Sorted(S), R)
  BY <1>5, <1>8
<1>10. \A c \in S : \E i \in 1 .. n : Sorted(S)[i] = c
  <2>1. IsListOf(Sorted(S), S)
    BY <1>8 DEF IsListOf
  <2>2. HasEachOnce(Sorted(S), S)
    BY <2>1, <1>4, <1>9, OrderedHasAll
  <2> QED BY <2>2 DEF HasEachOnce
<1> QED BY <1>1, <1>8, <1>10 DEF Falling

-----------------------------------------------------------------------------
(* What Codex answers                                                       *)

\* The list of an orderly Codex tells its items apart.
ListInv ==
    /\ copies \subseteq Copy /\ IsFiniteSet(copies) /\ orderly \in BOOLEAN
    /\ orderly => \A c, d \in copies : c.at = d.at => c = d

IsPage(page, n) ==
    /\ page.items \in Seq(Copy) /\ ToSet(page.items) \subseteq copies
    /\ Len(page.items) <= n /\ page.next \in 0 .. MaxAt

\* No cursor of an orderly answer lies behind an item that was not in it.
LEMMA NextPageCovers ==
  ASSUME ListInv, orderly, NEW cursor \in Cursors, NEW n \in Nat \ {0}
  PROVE  /\ IsPage(NextPage(cursor, n), n)
         /\ \A c \in copies : c.at < cursor =>
               c \in ToSet(NextPage(cursor, n).items) \/ c.at < NextPage(cursor, n).next
<1> DEFINE S == {c \in copies : c.at < cursor}
           rest == Sorted(S)
           m == Cardinality(S)
           k == Min({n, m})
           items == SubSeq(rest, 1, k)
           next == IF m <= n THEN End ELSE Last(items).at
<1>1. S \in SUBSET Copy /\ IsFiniteSet(S) /\ \A c, d \in S : c.at = d.at => c = d
  BY FS_Subset DEF ListInv
<1>2. /\ rest \in [1 .. m -> S] /\ m \in Nat
      /\ \A i, j \in 1 .. m : i < j => rest[i].at > rest[j].at
      /\ \A c \in S : \E i \in 1 .. m : rest[i] = c
  BY <1>1, SortedIs
<1> HIDE DEF S
<1>3. \A c \in S : c \in copies /\ c \in Copy /\ c.at \in 1 .. MaxAt
  BY DEF S, ListInv, Copy
<1> HIDE DEF rest, m
<1>4. Len(rest) = m
  BY <1>2
<1>5. NextPage(cursor, n) = [items |-> items, next |-> next]
  BY <1>4 DEF NextPage, rest, S
<1>6. k = (IF n <= m THEN n ELSE m) /\ k \in Nat /\ k <= m /\ k <= n
  BY <1>2, LesserOf
<1> HIDE DEF k
<1>7. /\ items \in Seq(S) /\ Len(items) = k
      /\ \A i \in 1 .. k : items[i] = rest[i]
  <2>1. \A i \in 1 .. k : rest[i] \in S
    BY <1>2, <1>6
  <2> QED BY <2>1, <1>6, SubSeqProperties
<1> HIDE DEF items
<1>8. ToSet(items) = {items[i] : i \in 1 .. k} /\ ToSet(items) \subseteq S
  BY <1>7, SeqFacts
<1>9. next \in 0 .. MaxAt
  <2>1. CASE m <= n
    BY <2>1, ListingsAssumption DEF End
  <2>2. CASE ~(m <= n)
    <3>1. k = n /\ n \in 1 .. k
      BY <2>2, <1>6, <1>2
    <3>2. Last(items) = rest[n] /\ rest[n] \in S
      BY <3>1, <1>7, <1>2, <1>6 DEF Last
    <3> QED BY <3>2, <1>3, <2>2, ListingsAssumption
  <2> QED BY <2>1, <2>2
<1>10. ASSUME NEW c \in copies, c.at < cursor PROVE c \in ToSet(items) \/ c.at < next
  <2>1. PICK j \in 1 .. m : rest[j] = c
    BY <1>2, <1>10 DEF S
  <2>2. CASE j <= k
    BY <2>1, <2>2, <1>6, <1>7, <1>8
  <2>3. CASE k < j
    <3>1. k = n /\ ~(m <= n) /\ n \in 1 .. k /\ n \in 1 .. m /\ n < j
      BY <2>3, <1>6, <1>2
    <3>2. Last(items) = rest[n]
      BY <3>1, <1>7 DEF Last
    <3>3. rest[n].at > rest[j].at
      BY <3>1, <1>2
    <3>4. rest[n] \in S
      BY <3>1, <1>2
    <3> QED BY <3>1, <3>2, <3>3, <3>4, <2>1, <1>3
  <2> QED BY <2>2, <2>3, <1>6, <1>2
<1>11. items \in Seq(Copy) /\ ToSet(items) \subseteq copies
  <2>1. S \subseteq Copy
    BY <1>3
  <2> QED BY <1>7, <1>8, <1>3, <2>1
<1> HIDE DEF next
<1> QED BY <1>5, <1>6, <1>7, <1>9, <1>10, <1>11 DEF IsPage

LEMMA AnswersArePages ==
  ASSUME ListInv, NEW cursor \in Cursors, NEW n \in Nat \ {0}, NEW page \in Answers(cursor, n)
  PROVE  IsPage(page, n)
<1>1. CASE orderly
  BY <1>1, NextPageCovers DEF Answers
<1>2. CASE ~orderly
  <2>1. PICK T \in SUBSET copies : Cardinality(T) <= 1 /\ page.items = Sorted(T)
    BY <1>2 DEF Answers
  <2>2. page.next \in 0 .. MaxAt
    BY <1>2 DEF Answers
  <2>3. T \in SUBSET Copy /\ IsFiniteSet(T)
    BY FS_Subset DEF ListInv
  <2>4. \A c, d \in T : c = d
    <3> SUFFICES ASSUME NEW c \in T, NEW d \in T, c # d PROVE FALSE
      OBVIOUS
    <3>1. Cardinality(T \ {c}) = Cardinality(T) - 1 /\ IsFiniteSet(T \ {c})
      BY <2>3, FS_RemoveElement
    <3>2. Cardinality((T \ {c}) \ {d}) = Cardinality(T \ {c}) - 1 /\ IsFiniteSet((T \ {c}) \ {d})
      BY <3>1, FS_RemoveElement
    <3>3. Cardinality((T \ {c}) \ {d}) \in Nat /\ Cardinality(T) \in Nat /\ Cardinality(T \ {c}) \in Nat
      BY <2>3, <3>1, <3>2, FS_CardinalityType
    <3> QED BY <3>1, <3>2, <3>3, <2>1
  <2>5. Sorted(T) \in [1 .. Cardinality(T) -> T] /\ Cardinality(T) \in Nat
    BY <2>3, <2>4, SortedIs
  <2>6. Sorted(T) \in Seq(T) /\ Len(Sorted(T)) = Cardinality(T)
    BY <2>5
  <2>7. Sorted(T) \in Seq(Copy) /\ ToSet(Sorted(T)) \subseteq copies
    BY <2>3, <2>6, SeqFacts
  <2> QED BY <2>1, <2>2, <2>6, <2>7 DEF IsPage
<1> QED BY <1>1, <1>2 DEF ListInv

-----------------------------------------------------------------------------
(* Merging the copies of a thread                                           *)

CopiesOf(R, id) == {c \in R : c.id = id}
\* threads has each thread of R once, made of its copies, and the records of R without an id.
MergedOf(threads, R) ==
    /\ \A i, j \in DOMAIN threads : threads[i].id = threads[j].id => i = j \/ threads[i].id = NoId
    /\ \A c \in R : \E i \in DOMAIN threads : threads[i].id = c.id /\ (c.id = NoId => threads[i] = c)
    /\ \A i \in DOMAIN threads :
          IF threads[i].id = NoId
          THEN threads[i] \in R
          ELSE MadeOf(threads[i], CopiesOf(R, threads[i].id))

LEMMA CopyFacts ==
  \A c \in Copy : /\ c.id \in Ids \cup {NoId} /\ c.at \in Nat /\ c.at \in 1 .. MaxAt /\ c.live \in BOOLEAN
                  /\ c.path \in Paths \cup {NoPath} /\ c.recency \in Values /\ c.updated \in Values
                  /\ c = [id |-> c.id, at |-> c.at, live |-> c.live, path |-> c.path,
                          recency |-> c.recency, updated |-> c.updated]
  BY ListingsAssumption DEF Copy

\* Of two values, or of two directories, the one that is kept is one of them.
LEMMA FillFacts ==
  ASSUME NEW v, NEW w, NEW gaps
  PROVE  /\ Fill(v, w, gaps) \in {v, w}
         /\ v \notin gaps => Fill(v, w, gaps) = v
         /\ Fill(v, w, gaps) \in gaps => v \in gaps /\ w \in gaps
  BY DEF Fill

LEMMA FilledFacts ==
  ASSUME NEW c \in Copy, NEW d \in Copy
  PROVE  /\ Filled(c, d) \in Copy /\ Filled(c, d).id = c.id /\ Filled(c, d).live = c.live
         /\ Filled(c, d).path = Fill(c.path, d.path, {NoPath})
         /\ Filled(c, d).recency = Fill(c.recency, d.recency, Gaps)
         /\ Filled(c, d).updated = Fill(c.updated, d.updated, Gaps)
<1> DEFINE path == Fill(c.path, d.path, {NoPath})
           recency == Fill(c.recency, d.recency, Gaps)
           updated == Fill(c.updated, d.updated, Gaps)
<1>1. path \in {c.path, d.path} /\ recency \in {c.recency, d.recency} /\ updated \in {c.updated, d.updated}
  BY FillFacts
<1>2. Filled(c, d) = [c EXCEPT !.path = path, !.recency = recency, !.updated = updated]
  BY DEF Filled
<1>6. c = [id |-> c.id, at |-> c.at, live |-> c.live, path |-> c.path, recency |-> c.recency,
           updated |-> c.updated]
  BY CopyFacts
<1> HIDE DEF path, recency, updated
<1>3. Filled(c, d) = [id |-> c.id, at |-> c.at, live |-> c.live, path |-> path, recency |-> recency,
                      updated |-> updated]
  BY <1>2, <1>6
<1>4. path \in Paths \cup {NoPath} /\ recency \in Values /\ updated \in Values
  BY <1>1, CopyFacts
<1>5. Filled(c, d) \in Copy
  BY <1>3, <1>4, CopyFacts DEF Copy
<1> QED BY <1>3, <1>5 DEF path, recency, updated

\* A field stays right when one more copy fills it, or is filled by the record so far.
LEMMA FieldFilled ==
  ASSUME NEW v, NEW own, NEW values, NEW gaps, NEW w, FieldOf(v, own, values, gaps)
  PROVE  /\ FieldOf(Fill(v, w, gaps), own, values \cup {w}, gaps)
         /\ FieldOf(Fill(w, v, gaps), w, values \cup {w}, gaps)
  BY FillFacts DEF FieldOf

LEMMA OneTypePart ==
  ASSUME NEW S, NEW T \in SUBSET S, OneType(S) PROVE OneType(T)
  BY DEF OneType

LEMMA AlikePart ==
  ASSUME NEW all, NEW part \in SUBSET all, DatedAlike(all) PROVE DatedAlike(part)
<1>1. {c.recency : c \in part} \subseteq {c.recency : c \in all}
      /\ {c.updated : c \in part} \subseteq {c.updated : c \in all}
  OBVIOUS
<1>2. CASE OneType({c.recency : c \in all})
  BY <1>1, <1>2, OneTypePart DEF DatedAlike
<1>3. CASE (\A c \in all : c.recency = Absent) /\ OneType({c.updated : c \in all})
  BY <1>1, <1>3, OneTypePart DEF DatedAlike
<1> QED BY <1>2, <1>3 DEF DatedAlike

\* The date by which a record with these fields is compared with the copies of a thread, when
\* they are dated alike: not a missing one, and of their type.
LEMMA AlikeStamp ==
  ASSUME NEW all \in SUBSET Copy, DatedAlike(all), NEW t \in Copy,
         t.recency \in {c.recency : c \in all}, t.updated \in {c.updated : c \in all}
  PROVE  /\ \A c \in all : /\ Timestamp(c).type = Timestamp(t).type
                           /\ Timestamp(c).type \in {"number", "text"}
                           /\ Timestamp(c).n \in Nat /\ Timestamp(t).n \in Nat
         /\ \A d \in Copy : /\ Fill(t.recency, d.recency, Gaps) = t.recency \/ d.recency # Absent
                            /\ d.recency \in {c.recency : c \in all} => Timestamp(Filled(t, d)) = Timestamp(t)
<1>1. \A c \in Copy : c.recency.n \in Nat /\ c.updated.n \in Nat
  BY CopyFacts DEF Values
<1>2. PICK u \in all : t.recency = u.recency
  OBVIOUS
<1>3. PICK w \in all : t.updated = w.updated
  OBVIOUS
<1>4. CASE OneType({c.recency : c \in all})
  <2>1. PICK type \in {"number", "text"} : \A c \in all : c.recency.type = type /\ c.recency \notin Gaps
    BY <1>4 DEF OneType
  <2>2. t.recency.type = type /\ t.recency \notin Gaps
    BY <2>1, <1>2
  <2>3. Timestamp(t) = t.recency /\ \A c \in all : Timestamp(c) = c.recency
    BY <2>1, <2>2 DEF Timestamp
  <2>4. ASSUME NEW d \in Copy PROVE Filled(t, d).recency = t.recency /\ Fill(t.recency, d.recency, Gaps) = t.recency
    BY <2>2, FilledFacts, FillFacts
  <2>5. \A d \in Copy : Timestamp(Filled(t, d)) = t.recency
    BY <2>4, <2>2 DEF Timestamp
  <2> QED BY <2>1, <2>2, <2>3, <2>4, <2>5, <1>1
<1>5. CASE (\A c \in all : c.recency = Absent) /\ OneType({c.updated : c \in all})
  <2>1. PICK type \in {"number", "text"} : \A c \in all : c.updated.type = type /\ c.updated \notin Gaps
    BY <1>5 DEF OneType
  <2>2. t.recency = Absent /\ t.updated.type = type /\ t.updated \notin Gaps
    BY <2>1, <1>2, <1>3, <1>5
  <2>3. Timestamp(t) = t.updated /\ \A c \in all : Timestamp(c) = c.updated
    BY <2>2, <1>5 DEF Timestamp, Absent, Value
  <2>4. ASSUME NEW d \in Copy
        PROVE  /\ Filled(t, d).updated = t.updated
               /\ d.recency = Absent => Filled(t, d).recency = Absent /\ Fill(t.recency, d.recency, Gaps) = t.recency
    <3>1. Filled(t, d).updated = t.updated
      BY <2>2, FilledFacts, FillFacts
    <3>2. Fill(t.recency, Absent, Gaps) = Absent
      BY <2>2, FillFacts
    <3> QED BY <3>1, <3>2, <2>2, FilledFacts
  <2>5. \A d \in Copy : d.recency = Absent => Timestamp(Filled(t, d)) = t.updated
    BY <2>4 DEF Timestamp, Absent, Value
  <2>6. \A d \in Copy : d.recency \in {c.recency : c \in all} => d.recency = Absent
    BY <1>5
  <2>7. \A c \in all : c \in Copy
    OBVIOUS
  <2> QED BY <2>1, <2>2, <2>3, <2>4, <2>5, <2>6, <2>7, <1>1
<1> QED BY <1>4, <1>5 DEF DatedAlike

\* The conjuncts of MadeOf.
LEMMA MadeOfFields ==
  ASSUME NEW t, NEW all, MadeOf(t, all)
  PROVE  /\ t.path \in {c.path : c \in all} /\ t.recency \in {c.recency : c \in all}
         /\ t.updated \in {c.updated : c \in all}
  BY DEF MadeOf, FieldOf

\* A thread of one copy.
LEMMA MadeOfOne == ASSUME NEW c \in Copy PROVE MadeOf(c, {c})
<1>1. /\ {d.path : d \in {c}} = {c.path} /\ {d.recency : d \in {c}} = {c.recency}
      /\ {d.updated : d \in {c}} = {c.updated}
  OBVIOUS
<1>2. \A v, gaps : FieldOf(v, v, {v}, gaps)
  BY DEF FieldOf
<1>3. ~After(Timestamp(c), Timestamp(c))
  <2>1. Timestamp(c) \in Values
    BY CopyFacts DEF Timestamp
  <2> QED BY <2>1 DEF After, Values
<1> QED BY <1>1, <1>2, <1>3 DEF MadeOf

\* One more copy, preferred to the record so far.
LEMMA MadeOfBetter ==
  ASSUME NEW t \in Copy, NEW all \in SUBSET Copy, NEW c \in Copy, MadeOf(t, all), Better(c, t)
  PROVE  MadeOf(Filled(c, t), all \cup {c})
<1> DEFINE m == Filled(c, t)
           more == all \cup {c}
<1>1. /\ m \in Copy /\ m.live = c.live /\ m.path = Fill(c.path, t.path, {NoPath})
      /\ m.recency = Fill(c.recency, t.recency, Gaps) /\ m.updated = Fill(c.updated, t.updated, Gaps)
  BY FilledFacts
<1>2. PICK own \in all :
          /\ FieldOf(t.path, own.path, {d.path : d \in all}, {NoPath})
          /\ FieldOf(t.recency, own.recency, {d.recency : d \in all}, Gaps)
          /\ FieldOf(t.updated, own.updated, {d.updated : d \in all}, Gaps)
  BY DEF MadeOf
<1>3. /\ {d.path : d \in more} = {d.path : d \in all} \cup {c.path}
      /\ {d.recency : d \in more} = {d.recency : d \in all} \cup {c.recency}
      /\ {d.updated : d \in more} = {d.updated : d \in all} \cup {c.updated}
  OBVIOUS
<1>4. /\ FieldOf(m.path, c.path, {d.path : d \in more}, {NoPath})
      /\ FieldOf(m.recency, c.recency, {d.recency : d \in more}, Gaps)
      /\ FieldOf(m.updated, c.updated, {d.updated : d \in more}, Gaps)
  <2>1. FieldOf(Fill(c.path, t.path, {NoPath}), c.path, {d.path : d \in all} \cup {c.path}, {NoPath})
    BY <1>2, FieldFilled
  <2>2. FieldOf(Fill(c.recency, t.recency, Gaps), c.recency, {d.recency : d \in all} \cup {c.recency}, Gaps)
    BY <1>2, FieldFilled
  <2>3. FieldOf(Fill(c.updated, t.updated, Gaps), c.updated, {d.updated : d \in all} \cup {c.updated}, Gaps)
    BY <1>2, FieldFilled
  <2> HIDE DEF m, more
  <2> QED BY <2>1, <2>2, <2>3, <1>1, <1>3
<1>5. m.live <=> \E d \in more : d.live
  BY <1>1, Zenon DEF MadeOf, Better
<1>6. ASSUME DatedAlike(more), NEW d \in more, d.live = m.live PROVE ~After(Timestamp(d), Timestamp(m))
  <2>1. c \in more /\ more \in SUBSET Copy /\ c.recency \in {e.recency : e \in more}
        /\ c.updated \in {e.updated : e \in more} /\ t.recency \in {e.recency : e \in more}
        /\ t.updated \in {e.updated : e \in more}
    BY MadeOfFields, <1>3
  <2> HIDE DEF m
  <2>2. Timestamp(m) = Timestamp(c)
    BY <2>1, <1>6, AlikeStamp DEF m
  <2>3. /\ Timestamp(d).type = Timestamp(c).type /\ Timestamp(c).type \in {"number", "text"}
        /\ Timestamp(d).n \in Nat /\ Timestamp(c).n \in Nat
    BY <2>1, <1>6, AlikeStamp
  <2>4. Timestamp(c).type = Timestamp(t).type /\ Timestamp(t).n \in Nat
    BY <2>1, <1>6, AlikeStamp
  <2>5. CASE d = c
    BY <2>5, <2>2, <2>3 DEF After
  <2>6. CASE d \in all
    <3>1. d.live => t.live
      BY <2>6 DEF MadeOf
    <3>2. c.live = t.live /\ After(Timestamp(c), Timestamp(t))
      BY <3>1, <1>1, <1>6, Zenon DEF Better
    <3>3. ~After(Timestamp(d), Timestamp(t))
      <4>1. DatedAlike(all)
        BY <1>6, AlikePart
      <4> QED BY <4>1, <3>2, <2>6, <1>1, <1>6 DEF MadeOf
    <3> QED BY <3>2, <3>3, <2>2, <2>3, <2>4 DEF After
  <2> QED BY <2>5, <2>6
<1> HIDE DEF m
<1>7. \E own2 \in more :
          /\ own2.live = m.live
          /\ FieldOf(m.path, own2.path, {d.path : d \in more}, {NoPath})
          /\ FieldOf(m.recency, own2.recency, {d.recency : d \in more}, Gaps)
          /\ FieldOf(m.updated, own2.updated, {d.updated : d \in more}, Gaps)
  BY <1>1, <1>4
<1> QED BY <1>5, <1>6, <1>7 DEF MadeOf, m

\* One more copy, not preferred to the record so far.
LEMMA MadeOfNotBetter ==
  ASSUME NEW t \in Copy, NEW all \in SUBSET Copy, NEW c \in Copy, MadeOf(t, all), ~Better(c, t)
  PROVE  MadeOf(Filled(t, c), all \cup {c})
<1> DEFINE m == Filled(t, c)
           more == all \cup {c}
<1>1. /\ m \in Copy /\ m.live = t.live /\ m.path = Fill(t.path, c.path, {NoPath})
      /\ m.recency = Fill(t.recency, c.recency, Gaps) /\ m.updated = Fill(t.updated, c.updated, Gaps)
  BY FilledFacts
<1>2. PICK own \in all :
          /\ own.live = t.live
          /\ FieldOf(t.path, own.path, {d.path : d \in all}, {NoPath})
          /\ FieldOf(t.recency, own.recency, {d.recency : d \in all}, Gaps)
          /\ FieldOf(t.updated, own.updated, {d.updated : d \in all}, Gaps)
  BY DEF MadeOf
<1>3. /\ {d.path : d \in more} = {d.path : d \in all} \cup {c.path}
      /\ {d.recency : d \in more} = {d.recency : d \in all} \cup {c.recency}
      /\ {d.updated : d \in more} = {d.updated : d \in all} \cup {c.updated}
  OBVIOUS
<1>4. /\ FieldOf(m.path, own.path, {d.path : d \in more}, {NoPath})
      /\ FieldOf(m.recency, own.recency, {d.recency : d \in more}, Gaps)
      /\ FieldOf(m.updated, own.updated, {d.updated : d \in more}, Gaps)
  BY <1>1, <1>2, <1>3, FieldFilled
<1>5. m.live <=> \E d \in more : d.live
  BY <1>1, CopyFacts, Zenon DEF MadeOf, Better
<1>6. ASSUME DatedAlike(more), NEW d \in more, d.live = m.live PROVE ~After(Timestamp(d), Timestamp(m))
  <2>1. more \in SUBSET Copy /\ c.recency \in {e.recency : e \in more}
        /\ t.recency \in {e.recency : e \in more} /\ t.updated \in {e.updated : e \in more}
    BY MadeOfFields, <1>3
  <2> HIDE DEF m
  <2>2. Timestamp(m) = Timestamp(t)
    BY <2>1, <1>6, AlikeStamp DEF m
  <2>3. CASE d = c
    BY <2>3, <2>2, <1>1, <1>6 DEF Better
  <2>4. CASE d \in all
    <3>1. DatedAlike(all)
      BY <1>6, AlikePart
    <3> QED BY <3>1, <2>2, <2>4, <1>1, <1>6 DEF MadeOf
  <2> QED BY <2>3, <2>4
<1> HIDE DEF m
<1>7. \E own2 \in more :
          /\ own2.live = m.live
          /\ FieldOf(m.path, own2.path, {d.path : d \in more}, {NoPath})
          /\ FieldOf(m.recency, own2.recency, {d.recency : d \in more}, Gaps)
          /\ FieldOf(m.updated, own2.updated, {d.updated : d \in more}, Gaps)
  BY <1>1, <1>2, <1>4
<1> QED BY <1>5, <1>6, <1>7 DEF MadeOf, m

LEMMA MadeOfMore ==
  ASSUME NEW t \in Copy, NEW all \in SUBSET Copy, NEW c \in Copy, t.id = c.id, MadeOf(t, all)
  PROVE  /\ MergeCopies(t, c) \in Copy /\ MergeCopies(t, c).id = t.id
         /\ MadeOf(MergeCopies(t, c), all \cup {c})
  BY MadeOfBetter, MadeOfNotBetter, FilledFacts DEF MergeCopies

LEMMA MergeThreadKeeps ==
  ASSUME NEW threads \in Seq(Copy), NEW R \in SUBSET Copy, NEW c \in Copy, MergedOf(threads, R)
  PROVE  /\ MergeThread(threads, c) \in Seq(Copy)
         /\ MergedOf(MergeThread(threads, c), R \cup {c})
         /\ Len(MergeThread(threads, c)) <= Len(threads) + 1
<1> DEFINE n == Len(threads)
           D == 1 .. n
           known == c.id # NoId /\ \E i \in D : threads[i].id = c.id
<1>1. n \in Nat /\ DOMAIN threads = D /\ \A i \in D : threads[i] \in Copy
  OBVIOUS
<1>2. CopiesOf(R \cup {c}, c.id) = CopiesOf(R, c.id) \cup {c} /\ CopiesOf(R, c.id) \in SUBSET Copy
  BY DEF CopiesOf
<1>3. \A id : id # c.id => CopiesOf(R \cup {c}, id) = CopiesOf(R, id)
  BY DEF CopiesOf
<1>4. ASSUME NEW t \in Copy, t.id # c.id,
             IF t.id = NoId THEN t \in R ELSE MadeOf(t, CopiesOf(R, t.id))
      PROVE  IF t.id = NoId THEN t \in R \cup {c} ELSE MadeOf(t, CopiesOf(R \cup {c}, t.id))
  BY <1>3, <1>4
<1>5. CASE known
  <2> DEFINE m == [i \in D |-> IF threads[i].id = c.id THEN MergeCopies(threads[i], c) ELSE threads[i]]
  <2>1. MergeThread(threads, c) = m
    BY <1>1, <1>5 DEF MergeThread
  <2>2. ASSUME NEW i \in D
        PROVE  /\ m[i] \in Copy /\ m[i].id = threads[i].id
               /\ IF m[i].id = NoId THEN m[i] \in R \cup {c} ELSE MadeOf(m[i], CopiesOf(R \cup {c}, m[i].id))
    <3>1. CASE threads[i].id = c.id
      <4>1. threads[i] \in Copy /\ MadeOf(threads[i], CopiesOf(R, c.id)) /\ m[i] = MergeCopies(threads[i], c)
        BY <3>1, <1>1, <1>5 DEF MergedOf
      <4>2. m[i] \in Copy /\ m[i].id = c.id /\ MadeOf(m[i], CopiesOf(R, c.id) \cup {c})
        BY <4>1, <3>1, <1>2, MadeOfMore
      <4> QED BY <4>2, <3>1, <1>2, <1>5
    <3>2. CASE threads[i].id # c.id
      <4>1. m[i] = threads[i] /\ threads[i] \in Copy
            /\ IF threads[i].id = NoId THEN threads[i] \in R ELSE MadeOf(threads[i], CopiesOf(R, threads[i].id))
        BY <3>2, <1>1 DEF MergedOf
      <4> HIDE DEF m
      <4> QED BY <4>1, <3>2, <1>4
    <3> QED BY <3>1, <3>2
  <2>3. m \in [D -> Copy] /\ DOMAIN m = D
    BY <2>2
  <2>4. \A i \in D : threads[i].id = NoId => m[i] = threads[i]
    BY <1>5
  <2> HIDE DEF m
  <2>5. m \in Seq(Copy) /\ Len(m) = n
    BY <2>3, <1>1
  <2>6. MergedOf(m, R \cup {c})
    <3>1. \A i, j \in D : m[i].id = m[j].id => i = j \/ m[i].id = NoId
      BY <2>2, <1>1 DEF MergedOf
    <3>2. ASSUME NEW d \in R \cup {c}
          PROVE  \E i \in D : m[i].id = d.id /\ (d.id = NoId => m[i] = d)
      <4>1. CASE d = c
        BY <4>1, <1>5, <2>2
      <4>2. CASE d \in R
        <5>1. PICK i \in D : threads[i].id = d.id /\ (d.id = NoId => threads[i] = d)
          BY <4>2, <1>1 DEF MergedOf
        <5> QED BY <5>1, <2>2, <2>4
      <4> QED BY <4>1, <4>2
    <3> QED BY <3>1, <3>2, <2>2, <2>3 DEF MergedOf
  <2> QED BY <2>1, <2>5, <2>6, <1>1
<1>6. CASE ~known
  <2> DEFINE m == Append(threads, c)
  <2>1. MergeThread(threads, c) = m
    BY <1>1, <1>6 DEF MergeThread
  <2>2. /\ m \in Seq(Copy) /\ Len(m) = n + 1 /\ DOMAIN m = 1 .. (n + 1) /\ m[n + 1] = c
        /\ \A i \in D : m[i] = threads[i]
    OBVIOUS
  <2> HIDE DEF m
  <2>3. ASSUME NEW i \in 1 .. (n + 1), i # n + 1
        PROVE  i \in D /\ m[i] = threads[i] /\ (m[i].id # c.id \/ m[i].id = NoId)
    <3>1. i \in D
      BY <2>3, <1>1
    <3> QED BY <3>1, <2>2, <1>6
  <2>4. ASSUME NEW i \in 1 .. (n + 1)
        PROVE  IF m[i].id = NoId THEN m[i] \in R \cup {c} ELSE MadeOf(m[i], CopiesOf(R \cup {c}, m[i].id))
    <3>1. CASE i = n + 1
      <4>1. m[i] = c
        BY <3>1, <2>2
      <4>2. CASE c.id # NoId
        <5>1. CopiesOf(R, c.id) = {}
          BY <4>2, <1>1, <1>6 DEF MergedOf, CopiesOf
        <5>2. CopiesOf(R \cup {c}, c.id) = {c}
          BY <5>1, <1>2
        <5> QED BY <4>1, <4>2, <5>2, MadeOfOne
      <4> QED BY <4>1, <4>2
    <3>2. CASE i # n + 1
      <4>1. /\ m[i] = threads[i] /\ threads[i] \in Copy /\ (m[i].id # c.id \/ m[i].id = NoId)
            /\ IF threads[i].id = NoId THEN threads[i] \in R ELSE MadeOf(threads[i], CopiesOf(R, threads[i].id))
        BY <2>3, <3>2, <1>1 DEF MergedOf
      <4> QED BY <4>1, <1>4
    <3> QED BY <3>1, <3>2
  <2>5. MergedOf(m, R \cup {c})
    <3>1. ASSUME NEW i \in 1 .. (n + 1), NEW j \in 1 .. (n + 1), m[i].id = m[j].id
          PROVE  i = j \/ m[i].id = NoId
      <4>1. CASE i = n + 1 \/ j = n + 1
        BY <4>1, <3>1, <2>2, <2>3
      <4>2. CASE i # n + 1 /\ j # n + 1
        BY <4>2, <3>1, <2>3, <1>1 DEF MergedOf
      <4> QED BY <4>1, <4>2
    <3>2. ASSUME NEW d \in R \cup {c}
          PROVE  \E i \in 1 .. (n + 1) : m[i].id = d.id /\ (d.id = NoId => m[i] = d)
      <4>1. CASE d = c
        <5>1. n + 1 \in 1 .. (n + 1)
          BY <1>1
        <5> QED BY <4>1, <5>1, <2>2
      <4>2. CASE d \in R
        <5>1. PICK i \in D : threads[i].id = d.id /\ (d.id = NoId => threads[i] = d)
          BY <4>2, <1>1 DEF MergedOf
        <5>2. i \in 1 .. (n + 1) /\ m[i] = threads[i]
          BY <2>2, <1>1
        <5> QED BY <5>1, <5>2
      <4> QED BY <4>1, <4>2
    <3> QED BY <3>1, <3>2, <2>2, <2>4 DEF MergedOf
  <2> QED BY <2>1, <2>2, <2>5, <1>1
<1> QED BY <1>5, <1>6

LEMMA MergeThreadTyped ==
  ASSUME NEW threads \in Seq(Copy), NEW c \in Copy
  PROVE  MergeThread(threads, c) \in Seq(Copy)
<1> DEFINE D == 1 .. Len(threads)
           m == [i \in D |-> IF threads[i].id = c.id THEN MergeCopies(threads[i], c) ELSE threads[i]]
<1>1. DOMAIN threads = D /\ Len(threads) \in Nat /\ \A i \in D : threads[i] \in Copy
  OBVIOUS
<1>2. \A i \in D : MergeCopies(threads[i], c) \in Copy
  BY <1>1, FilledFacts DEF MergeCopies
<1>3. m \in [D -> Copy]
  BY <1>1, <1>2
<1>4. m \in Seq(Copy)
  <2> HIDE DEF m
  <2> QED BY <1>1, <1>3
<1>5. Append(threads, c) \in Seq(Copy)
  OBVIOUS
<1>6. MergeThread(threads, c) = m \/ MergeThread(threads, c) = Append(threads, c)
  BY <1>1 DEF MergeThread
<1> HIDE DEF m
<1> QED BY <1>4, <1>5, <1>6

\* MergeThreads merges the items one after the other.
LEMMA MergeThreadsTrace ==
  ASSUME NEW threads \in Seq(Copy), NEW page \in Seq(Copy)
  PROVE  \E f \in [0 .. Len(page) -> Seq(Copy)] :
            /\ f[0] = threads /\ f[Len(page)] = MergeThreads(threads, page)
            /\ \A k \in 1 .. Len(page) : f[k] = MergeThread(f[k - 1], page[k])
<1> DEFINE n == Len(page)
           F == [x \in Seq(Copy) \X Copy |-> MergeThread(x[1], x[2])]
           IsIt(g) == g = [s \in SUBSET (DOMAIN page) |->
                             IF s = {} THEN threads ELSE MergeThread(g[s \ {Max(s)}], page[Max(s)])]
           h == CHOOSE g : IsIt(g)
<1>1. MergeThreads(threads, page) = h[DOMAIN page]
  BY Zenon DEF MergeThreads, FoldLeft, MapThenFoldSet
<1>2. n \in Nat /\ DOMAIN page = 1 .. n /\ page \in [1 .. n -> Copy]
  OBVIOUS
<1>3. F \in [Seq(Copy) \X Copy -> Seq(Copy)]
  BY MergeThreadTyped
<1>4. \A t \in Seq(Copy), c \in Copy : F[<<t, c>>] = MergeThread(t, c)
  OBVIOUS
<1> HIDE DEF F
<1>5. \E g : IsIt(g)
  <2>1. PICK g \in [SUBSET (1 .. n) -> Seq(Copy)] : IsFold(g, F, threads, page, n)
    BY <1>2, <1>3, FoldExists
  <2>2. ASSUME NEW s \in SUBSET (1 .. n), s # {}
        PROVE  g[s] = MergeThread(g[s \ {Max(s)}], page[Max(s)])
    <3>1. Max(s) \in s
      <4>1. s \in SUBSET (0 .. n) /\ s # {}
        BY <2>2, <1>2
      <4> QED BY <4>1, <1>2, GreatestNumber
    <3>2. g[s \ {Max(s)}] \in Seq(Copy) /\ page[Max(s)] \in Copy
      BY <3>1, <1>2, <2>1
    <3>3. g[s] = F[<<g[s \ {Max(s)}], page[Max(s)]>>]
      BY <2>1, <2>2 DEF IsFold
    <3> QED BY <3>2, <3>3, <1>4
  <2>3. g[{}] = threads
    BY <2>1 DEF IsFold
  <2>4. IsIt(g)
    BY <2>1, <2>2, <2>3, <1>2
  <2> QED BY <2>4
<1>6. IsIt(h)
  <2> HIDE DEF IsIt
  <2> QED BY <1>5
<1> HIDE DEF h
<1>7. /\ h[{}] = threads
      /\ \A s \in SUBSET (1 .. n) : s # {} => h[s] = MergeThread(h[s \ {Max(s)}], page[Max(s)])
  BY <1>6, <1>2, Zenon
<1>8. ASSUME NEW s \in SUBSET (1 .. n), s # {}, h[s \ {Max(s)}] \in Seq(Copy)
      PROVE  h[s] = F[<<h[s \ {Max(s)}], page[Max(s)]>>]
  <2>1. Max(s) \in s
    <3>1. s \in SUBSET (0 .. n) /\ s # {}
      BY <1>8, <1>2
    <3> QED BY <3>1, <1>2, GreatestNumber
  <2>2. page[Max(s)] \in Copy
    BY <2>1, <1>2
  <2> QED BY <2>2, <1>4, <1>7, <1>8
<1> HIDE DEF IsIt
<1>9. PICK f : IsTrace(f, Seq(Copy), F, threads, page, n, h[1 .. n])
  <2>1. Follows(h, Seq(Copy), F, threads, page, n)
    BY <1>7, <1>8, Zenon DEF Follows
  <2> QED BY <1>2, <1>3, <2>1, FoldTrace
<1>10. ASSUME NEW k \in 1 .. n PROVE f[k] = MergeThread(f[k - 1], page[k])
  <2>1. f[k - 1] \in Seq(Copy) /\ page[k] \in Copy
    <3>1. k - 1 \in 0 .. n
      BY <1>2
    <3> QED BY <3>1, <1>2, <1>9 DEF IsTrace
  <2> QED BY <2>1, <1>4, <1>9 DEF IsTrace
<1> QED BY <1>1, <1>2, <1>9, <1>10 DEF IsTrace

LEMMA MergeThreadsKeeps ==
  ASSUME NEW threads \in Seq(Copy), NEW page \in Seq(Copy), NEW R \in SUBSET Copy, MergedOf(threads, R)
  PROVE  /\ MergeThreads(threads, page) \in Seq(Copy)
         /\ MergedOf(MergeThreads(threads, page), R \cup ToSet(page))
         /\ Len(MergeThreads(threads, page)) <= Len(threads) + Len(page)
<1> DEFINE n == Len(page)
           Upto(k) == {page[i] : i \in 1 .. k}
<1>1. n \in Nat /\ page \in [1 .. n -> Copy] /\ ToSet(page) = Upto(n) /\ Len(threads) \in Nat
  BY SeqFacts
<1>2. PICK f \in [0 .. n -> Seq(Copy)] :
         /\ f[0] = threads /\ f[n] = MergeThreads(threads, page)
         /\ \A k \in 1 .. n : f[k] = MergeThread(f[k - 1], page[k])
  BY MergeThreadsTrace
<1> DEFINE Ok(k) == MergedOf(f[k], R \cup Upto(k)) /\ Len(f[k]) <= Len(threads) + k
           T == {k \in Nat : k <= n => Ok(k)}
<1>3. Ok(0)
  <2>1. R \cup Upto(0) = R
    <3>1. 1 .. 0 = {}
      OBVIOUS
    <3> QED BY <3>1
  <2> HIDE DEF Upto
  <2> QED BY <1>1, <1>2, <2>1
<1>4. ASSUME NEW k \in Nat, k + 1 <= n, Ok(k) PROVE Ok(k + 1)
  <2>1. k + 1 \in 1 .. n /\ (k + 1) - 1 = k /\ k \in 0 .. n /\ k + 1 \in 0 .. n
    BY <1>4, <1>1
  <2>2. f[k + 1] = MergeThread(f[k], page[k + 1]) /\ f[k] \in Seq(Copy) /\ page[k + 1] \in Copy
    BY <2>1, <1>1, <1>2
  <2>3. (R \cup Upto(k)) \cup {page[k + 1]} = R \cup Upto(k + 1)
    <3>1. 1 .. (k + 1) = (1 .. k) \cup {k + 1}
      OBVIOUS
    <3> QED BY <3>1
  <2>4. R \cup Upto(k) \in SUBSET Copy
    BY <2>1, <1>1
  <2> HIDE DEF Upto
  <2>5. /\ MergedOf(MergeThread(f[k], page[k + 1]), (R \cup Upto(k)) \cup {page[k + 1]})
        /\ Len(MergeThread(f[k], page[k + 1])) <= Len(f[k]) + 1
        /\ MergeThread(f[k], page[k + 1]) \in Seq(Copy)
    BY <2>2, <2>4, <1>4, MergeThreadKeeps
  <2>6. Len(f[k]) \in Nat /\ Len(MergeThread(f[k], page[k + 1])) \in Nat
    BY <2>2, <2>5
  <2>7. Len(f[k + 1]) <= Len(threads) + (k + 1)
    BY <2>2, <2>5, <2>6, <1>1, <1>4
  <2> QED BY <2>2, <2>3, <2>5, <2>7
<1> HIDE DEF Ok
<1>5. 0 \in T /\ \A k \in Nat : k \in T => k + 1 \in T
  <2>1. \A k \in Nat : k + 1 <= n => k <= n
    BY <1>1
  <2> QED BY <1>3, <1>4, <2>1
<1>6. n \in T
  <2> HIDE DEF T
  <2> QED BY <1>5, <1>1, Induct
<1>7. Ok(n)
  <2>1. n <= n
    BY <1>1
  <2> QED BY <1>6, <2>1
<1> QED BY <1>1, <1>2, <1>7 DEF Ok

-----------------------------------------------------------------------------
(* Sequences one after the other                                            *)

LEMMA ConcatFacts ==
  ASSUME NEW S, NEW s \in Seq(S), NEW t \in Seq(S)
  PROVE  /\ s \o t \in Seq(S) /\ Len(s \o t) = Len(s) + Len(t)
         /\ Len(s) \in Nat /\ Len(t) \in Nat
         /\ \A i \in 1 .. Len(s) : (s \o t)[i] = s[i]
         /\ \A i \in 1 .. Len(t) : (s \o t)[Len(s) + i] = t[i]
         /\ \A i \in 1 .. Len(s \o t) : i <= Len(s) \/ (i - Len(s) \in 1 .. Len(t) /\ (s \o t)[i] = t[i - Len(s)])
  BY ConcatProperties

\* The members of two sequences one after the other.
LEMMA ConcatSet ==
  ASSUME NEW S, NEW s \in Seq(S), NEW t \in Seq(S)
  PROVE  ToSet(s \o t) = ToSet(s) \cup ToSet(t)
<1> DEFINE u == s \o t
<1>1. /\ u \in Seq(S) /\ Len(u) = Len(s) + Len(t) /\ Len(s) \in Nat /\ Len(t) \in Nat
      /\ \A i \in 1 .. Len(s) : u[i] = s[i]
      /\ \A i \in 1 .. Len(t) : u[Len(s) + i] = t[i]
      /\ \A i \in 1 .. Len(u) : i <= Len(s) \/ (i - Len(s) \in 1 .. Len(t) /\ u[i] = t[i - Len(s)])
  BY ConcatFacts
<1> HIDE DEF u
<1>2. /\ ToSet(u) = {u[i] : i \in 1 .. Len(u)} /\ ToSet(s) = {s[i] : i \in 1 .. Len(s)}
      /\ ToSet(t) = {t[i] : i \in 1 .. Len(t)}
  BY <1>1, SeqFacts
<1>3. ASSUME NEW i \in 1 .. Len(u) PROVE u[i] \in ToSet(s) \cup ToSet(t)
  <2>1. CASE i <= Len(s)
    <3>1. i \in 1 .. Len(s)
      BY <2>1, <1>1
    <3> QED BY <3>1, <1>1, <1>2
  <2>2. CASE i - Len(s) \in 1 .. Len(t) /\ u[i] = t[i - Len(s)]
    BY <2>2, <1>2
  <2> QED BY <2>1, <2>2, <1>1
<1>4. ASSUME NEW i \in 1 .. Len(s) PROVE s[i] \in ToSet(u)
  <2>1. i \in 1 .. Len(u) /\ u[i] = s[i]
    BY <1>1
  <2> QED BY <2>1, <1>2
<1>5. ASSUME NEW i \in 1 .. Len(t) PROVE t[i] \in ToSet(u)
  <2>1. Len(s) + i \in 1 .. Len(u) /\ u[Len(s) + i] = t[i]
    BY <1>1
  <2> QED BY <2>1, <1>2
<1>6. ToSet(u) \subseteq ToSet(s) \cup ToSet(t)
  BY <1>2, <1>3
<1>7. ToSet(s) \subseteq ToSet(u) /\ ToSet(t) \subseteq ToSet(u)
  BY <1>2, <1>4, <1>5
<1> QED BY <1>6, <1>7 DEF u

-----------------------------------------------------------------------------
(* FlattenSeq: one piece after the other                                    *)

IsFlattening(f, S, ss, result) ==
    /\ f \in [0 .. Len(ss) -> Seq(S)] /\ f[0] = <<>> /\ f[Len(ss)] = result
    /\ \A k \in 1 .. Len(ss) : f[k] = f[k - 1] \o ss[k]

\* FlattenSeq puts one piece after the other ...
LEMMA FlattenTrace ==
  ASSUME NEW S, NEW ss \in Seq(Seq(S))
  PROVE  \E f : IsFlattening(f, S, ss, FlattenSeq(ss))
<1> DEFINE n == Len(ss)
           F == [x \in Seq(S) \X Seq(S) |-> x[1] \o x[2]]
           IsIt(g) == g = [i \in 1 .. n |-> IF i = 1 THEN ss[i] ELSE g[i - 1] \o ss[i]]
           h == CHOOSE g : IsIt(g)
<1>1. n \in Nat /\ ss \in [1 .. n -> Seq(S)] /\ <<>> \in Seq(S) /\ (n = 0 => ss = <<>>)
  OBVIOUS
<1>2. FlattenSeq(ss) = IF n = 0 THEN ss ELSE h[n]
  BY Zenon DEF FlattenSeq
<1>3. F \in [Seq(S) \X Seq(S) -> Seq(S)] /\ \A a, b \in Seq(S) : F[<<a, b>>] = a \o b
  BY ConcatFacts
<1> HIDE DEF F
<1>4. PICK g0 \in [SUBSET (1 .. n) -> Seq(S)] : IsFold(g0, F, <<>>, ss, n)
  BY <1>1, <1>3, FoldExists
<1>5. Follows(g0, Seq(S), F, <<>>, ss, n)
  BY <1>4, Zenon DEF IsFold, Follows
<1>6. PICK f : IsTrace(f, Seq(S), F, <<>>, ss, n, g0[1 .. n])
  BY <1>1, <1>3, <1>5, FoldTrace
<1>7. f \in [0 .. n -> Seq(S)] /\ f[0] = <<>> /\ \A k \in 1 .. n : f[k] = f[k - 1] \o ss[k]
  <2>1. f \in [0 .. n -> Seq(S)] /\ f[0] = <<>> /\ \A k \in 1 .. n : f[k] = F[<<f[k - 1], ss[k]>>]
    BY <1>6 DEF IsTrace
  <2>2. \A k \in 1 .. n : k - 1 \in 0 .. n
    BY <1>1
  <2> QED BY <2>1, <2>2, <1>1, <1>3
<1>8. \E g : IsIt(g)
  <2> DEFINE g == [i \in 1 .. n |-> f[i]]
  <2>1. ASSUME NEW i \in 1 .. n PROVE g[i] = IF i = 1 THEN ss[i] ELSE g[i - 1] \o ss[i]
    <3>1. CASE i = 1
      <4>1. f[1] = f[1 - 1] \o ss[1] /\ ss[1] \in Seq(S)
        BY <3>1, <1>1, <1>7
      <4>2. 1 - 1 = 0 /\ f[0] = <<>>
        BY <1>7
      <4>3. f[1] = <<>> \o ss[1]
        BY <4>1, <4>2, Zenon
      <4>4. f[1] = ss[1]
        BY <4>1, <4>3
      <4> QED BY <4>4, <3>1
    <3>2. CASE i # 1
      <4>1. i - 1 \in 1 .. n
        BY <3>2, <1>1
      <4> QED BY <4>1, <3>2, <1>7
    <3> QED BY <3>1, <3>2
  <2>2. IsIt(g)
    BY <2>1
  <2> QED BY <2>2
<1>9. IsIt(h)
  <2> HIDE DEF IsIt
  <2> QED BY <1>8
<1> HIDE DEF h
<1>10. \A i \in 1 .. n : h[i] = IF i = 1 THEN ss[i] ELSE h[i - 1] \o ss[i]
  BY <1>9, Zenon
<1> HIDE DEF IsIt
<1> DEFINE T == {k \in Nat : k + 1 <= n => h[k + 1] = f[k + 1]}
<1>11. 0 \in T
  <2> SUFFICES ASSUME 1 <= n PROVE h[1] = f[1]
    OBVIOUS
  <2>1. 1 \in 1 .. n
    BY <1>1
  <2>2. h[1] = ss[1] /\ f[1] = f[1 - 1] \o ss[1] /\ ss[1] \in Seq(S)
    BY <2>1, <1>1, <1>7, <1>10
  <2>3. 1 - 1 = 0 /\ f[0] = <<>>
    BY <1>7
  <2>4. f[1] = <<>> \o ss[1]
    BY <2>2, <2>3, Zenon
  <2> QED BY <2>2, <2>4
<1>12. ASSUME NEW k \in Nat, k \in T PROVE k + 1 \in T
  <2> SUFFICES ASSUME k + 2 <= n PROVE h[k + 2] = f[k + 2]
    OBVIOUS
  <2>1. k + 2 \in 1 .. n /\ k + 2 # 1 /\ (k + 2) - 1 = k + 1 /\ k + 1 <= n
    BY <1>1
  <2>2. h[k + 2] = h[k + 1] \o ss[k + 2] /\ f[k + 2] = f[k + 1] \o ss[k + 2]
    BY <2>1, <1>7, <1>10
  <2>3. h[k + 1] = f[k + 1]
    BY <2>1, <1>12
  <2> QED BY <2>2, <2>3
<1>13. \A k \in Nat : k \in T
  <2> HIDE DEF T
  <2> QED BY <1>11, <1>12, Induct
<1>14. n # 0 => h[n] = f[n]
  <2> SUFFICES ASSUME n # 0 PROVE h[n] = f[n]
    OBVIOUS
  <2>1. n - 1 \in Nat /\ (n - 1) + 1 = n /\ (n - 1) + 1 <= n
    BY <1>1
  <2>2. n - 1 \in T
    BY <2>1, <1>13
  <2>3. h[(n - 1) + 1] = f[(n - 1) + 1]
    BY <2>1, <2>2, Zenon
  <2> QED BY <2>1, <2>3
<1>15. f[n] = FlattenSeq(ss)
  BY <1>1, <1>2, <1>7, <1>14
<1> QED BY <1>7, <1>15 DEF IsFlattening

\* ... so it has the members of all of them.
LEMMA FlattenFacts ==
  ASSUME NEW S, NEW ss \in Seq(Seq(S))
  PROVE  /\ FlattenSeq(ss) \in Seq(S)
         /\ \A x : x \in ToSet(FlattenSeq(ss)) <=> \E i \in 1 .. Len(ss) : x \in ToSet(ss[i])
<1> DEFINE n == Len(ss)
<1>1. n \in Nat /\ \A i \in 1 .. n : ss[i] \in Seq(S)
  OBVIOUS
<1>2. PICK f : IsFlattening(f, S, ss, FlattenSeq(ss))
  BY FlattenTrace
<1>3. /\ f \in [0 .. n -> Seq(S)] /\ f[0] = <<>> /\ f[n] = FlattenSeq(ss)
      /\ \A k \in 1 .. n : f[k] = f[k - 1] \o ss[k]
  BY <1>2 DEF IsFlattening
<1> DEFINE Ok(k) == \A x : x \in ToSet(f[k]) <=> \E i \in 1 .. k : x \in ToSet(ss[i])
           T == {k \in Nat : k <= n => Ok(k)}
<1>4. Ok(0)
  <2>1. 1 .. 0 = {}
    OBVIOUS
  <2>2. ToSet(<<>>) = {}
    BY DEF ToSet
  <2> QED BY <2>1, <2>2, <1>3
<1>5. ASSUME NEW k \in Nat, k + 1 <= n, Ok(k) PROVE Ok(k + 1)
  <2>1. k + 1 \in 1 .. n /\ (k + 1) - 1 = k /\ k \in 0 .. n
    BY <1>5, <1>1
  <2>2. f[k + 1] = f[k] \o ss[k + 1] /\ f[k] \in Seq(S) /\ ss[k + 1] \in Seq(S)
    BY <2>1, <1>1, <1>3
  <2>3. ToSet(f[k + 1]) = ToSet(f[k]) \cup ToSet(ss[k + 1])
    BY <2>2, ConcatSet
  <2>4. \A i : i \in 1 .. (k + 1) <=> i \in 1 .. k \/ i = k + 1
    OBVIOUS
  <2> QED BY <2>3, <2>4, <1>5
<1> HIDE DEF Ok
<1>6. 0 \in T /\ \A k \in Nat : k \in T => k + 1 \in T
  <2>1. \A k \in Nat : k + 1 <= n => k <= n
    BY <1>1
  <2> QED BY <1>4, <1>5, <2>1
<1>7. n \in T
  <2> HIDE DEF T
  <2> QED BY <1>6, <1>1, Induct
<1>8. Ok(n)
  <2>1. n <= n
    BY <1>1
  <2> QED BY <1>7, <2>1
<1>9. f[n] \in Seq(S)
  BY <1>1, <1>3
<1> QED BY <1>3, <1>8, <1>9 DEF Ok

-----------------------------------------------------------------------------
(* Roots                                                                    *)

\* How Min is found, and what it is.
LEMMA LeastIs ==
  ASSUME NEW S \in SUBSET Nat, NEW m \in S, \A y \in S : m <= y
  PROVE  Min(S) = m
<1>1. Min(S) \in S /\ \A y \in S : Min(S) =< y
  BY DEF Min
<1>2. Min(S) \in Nat /\ m \in Nat /\ Min(S) <= m /\ m <= Min(S)
  BY <1>1
<1> QED BY <1>2

LEMMA LeastOf ==
  ASSUME NEW S \in SUBSET Nat, S # {}
  PROVE  Min(S) \in S /\ \A y \in S : Min(S) <= y
<1>1. \E x \in S : \A y \in S : x <= y
  BY LeastNumber
<1> QED BY <1>1 DEF Min

LEMMA AppendFacts ==
  ASSUME NEW S, NEW s \in Seq(S), NEW x \in S
  PROVE  /\ Append(s, x) \in Seq(S) /\ Len(Append(s, x)) = Len(s) + 1 /\ Append(s, x)[Len(s) + 1] = x
         /\ \A i \in 1 .. Len(s) : Append(s, x)[i] = s[i]
  OBVIOUS

ARoot == [path : Paths, project : Projects \cup {NoProject}, roots : Seq(Paths)]
Configured == [id : Projects, roots : Seq(Paths)]

LEMMA AppendNewTyped ==
  ASSUME NEW known \in Seq(ARoot), NEW r \in ARoot
  PROVE  AppendNew(known, r) \in Seq(ARoot)
  BY DEF AppendNew

\* UniqueRoots takes the roots one after the other.
LEMMA UniqueRootsTrace ==
  ASSUME NEW rs \in Seq(ARoot)
  PROVE  \E f \in [0 .. Len(rs) -> Seq(ARoot)] :
            /\ f[0] = <<>> /\ f[Len(rs)] = UniqueRoots(rs)
            /\ \A k \in 1 .. Len(rs) : f[k] = AppendNew(f[k - 1], rs[k])
<1> DEFINE n == Len(rs)
           F == [x \in Seq(ARoot) \X ARoot |-> AppendNew(x[1], x[2])]
           IsIt(g) == g = [s \in SUBSET (DOMAIN rs) |->
                             IF s = {} THEN <<>> ELSE AppendNew(g[s \ {Max(s)}], rs[Max(s)])]
           h == CHOOSE g : IsIt(g)
<1>1. UniqueRoots(rs) = h[DOMAIN rs]
  BY Zenon DEF UniqueRoots, FoldLeft, MapThenFoldSet
<1>2. n \in Nat /\ DOMAIN rs = 1 .. n /\ rs \in [1 .. n -> ARoot] /\ <<>> \in Seq(ARoot)
  OBVIOUS
<1>3. F \in [Seq(ARoot) \X ARoot -> Seq(ARoot)]
  BY AppendNewTyped
<1>4. \A a \in Seq(ARoot), b \in ARoot : F[<<a, b>>] = AppendNew(a, b)
  OBVIOUS
<1> HIDE DEF F
<1>5. \A s \in SUBSET (1 .. n) : s # {} => Max(s) \in s
  <2>1. \A s \in SUBSET (1 .. n) : s \in SUBSET (0 .. n)
    BY <1>2
  <2> QED BY <2>1, <1>2, GreatestNumber
<1>6. \E g : IsIt(g)
  <2>1. PICK g \in [SUBSET (1 .. n) -> Seq(ARoot)] : IsFold(g, F, <<>>, rs, n)
    BY <1>2, <1>3, FoldExists
  <2>2. ASSUME NEW s \in SUBSET (1 .. n), s # {}
        PROVE  g[s] = AppendNew(g[s \ {Max(s)}], rs[Max(s)])
    <3>1. g[s \ {Max(s)}] \in Seq(ARoot) /\ rs[Max(s)] \in ARoot
      BY <2>2, <1>5, <1>2, <2>1
    <3>2. g[s] = F[<<g[s \ {Max(s)}], rs[Max(s)]>>]
      BY <2>1, <2>2 DEF IsFold
    <3> QED BY <3>1, <3>2, <1>4
  <2>3. g[{}] = <<>>
    BY <2>1 DEF IsFold
  <2>4. IsIt(g)
    BY <2>1, <2>2, <2>3, <1>2
  <2> QED BY <2>4
<1>7. IsIt(h)
  <2> HIDE DEF IsIt
  <2> QED BY <1>6
<1> HIDE DEF h
<1>8. /\ h[{}] = <<>>
      /\ \A s \in SUBSET (1 .. n) : s # {} => h[s] = AppendNew(h[s \ {Max(s)}], rs[Max(s)])
  BY <1>7, <1>2, Zenon
<1> HIDE DEF IsIt
<1>9. Follows(h, Seq(ARoot), F, <<>>, rs, n)
  <2>1. \A s \in SUBSET (1 .. n) : s # {} => rs[Max(s)] \in ARoot
    BY <1>5, <1>2
  <2> QED BY <2>1, <1>4, <1>8, Zenon DEF Follows
<1>10. PICK f : IsTrace(f, Seq(ARoot), F, <<>>, rs, n, h[1 .. n])
  BY <1>2, <1>3, <1>9, FoldTrace
<1>11. ASSUME NEW k \in 1 .. n PROVE f[k] = AppendNew(f[k - 1], rs[k])
  <2>1. k - 1 \in 0 .. n
    BY <1>2
  <2>2. f[k - 1] \in Seq(ARoot) /\ rs[k] \in ARoot
    BY <2>1, <1>2, <1>10 DEF IsTrace
  <2> QED BY <2>2, <1>4, <1>10 DEF IsTrace
<1> QED BY <1>1, <1>2, <1>10, <1>11 DEF IsTrace

OnePerPath(rs) == \A i, j \in 1 .. Len(rs) : rs[i].path = rs[j].path => i = j
\* u has the first of rs for each of its paths.
FirstsOf(u, rs, n) ==
    /\ \A x \in 1 .. Len(u) : \E i \in 1 .. n :
          rs[i] = u[x] /\ \A j \in 1 .. n : j < i => rs[j].path # u[x].path
    /\ \A i \in 1 .. n : \E x \in 1 .. Len(u) : u[x].path = rs[i].path

\* unique_state_project_roots keeps the first root of each path.
LEMMA UniqueRootsFacts ==
  ASSUME NEW rs \in Seq(ARoot)
  PROVE  UniqueRoots(rs) \in Seq(ARoot) /\ OnePerPath(UniqueRoots(rs)) /\ FirstsOf(UniqueRoots(rs), rs, Len(rs))
<1> DEFINE n == Len(rs)
<1>1. n \in Nat /\ rs \in [1 .. n -> ARoot]
  OBVIOUS
<1>2. PICK f \in [0 .. n -> Seq(ARoot)] :
         /\ f[0] = <<>> /\ f[n] = UniqueRoots(rs)
         /\ \A k \in 1 .. n : f[k] = AppendNew(f[k - 1], rs[k])
  BY UniqueRootsTrace
<1> DEFINE Ok(k) == OnePerPath(f[k]) /\ FirstsOf(f[k], rs, k)
           T == {k \in Nat : k <= n => Ok(k)}
<1>3. Ok(0)
  <2>1. 1 .. 0 = {} /\ Len(<<>>) = 0
    OBVIOUS
  <2> QED BY <2>1, <1>2 DEF OnePerPath, FirstsOf
<1>4. ASSUME NEW k \in Nat, k + 1 <= n, Ok(k) PROVE Ok(k + 1)
  <2> DEFINE u == f[k]
             v == f[k + 1]
             r == rs[k + 1]
  <2>1. k + 1 \in 1 .. n /\ (k + 1) - 1 = k /\ k \in 0 .. n
    BY <1>4, <1>1
  <2>2. v = AppendNew(u, r) /\ u \in Seq(ARoot) /\ r \in ARoot /\ Len(u) \in Nat
    BY <2>1, <1>1, <1>2
  <2>3. OnePerPath(u) /\ FirstsOf(u, rs, k)
    BY <1>4
  <2>4. \A i : i \in 1 .. (k + 1) <=> i \in 1 .. k \/ i = k + 1
    OBVIOUS
  <2> HIDE DEF u, v
  <2>5. ToSet(u) = {u[x] : x \in 1 .. Len(u)}
    BY <2>2, SeqFacts
  <2>6. CASE \E x \in 1 .. Len(u) : u[x].path = r.path
    <3>1. v = u
      BY <2>2, <2>5, <2>6 DEF AppendNew
    <3>2. \A i \in 1 .. k, j \in 1 .. (k + 1) : j < i => j \in 1 .. k
      OBVIOUS
    <3>3. FirstsOf(u, rs, k + 1)
      <4>1. ASSUME NEW x \in 1 .. Len(u)
            PROVE  \E i \in 1 .. (k + 1) : rs[i] = u[x] /\ \A j \in 1 .. (k + 1) : j < i => rs[j].path # u[x].path
        <5>1. PICK i \in 1 .. k : rs[i] = u[x] /\ \A j \in 1 .. k : j < i => rs[j].path # u[x].path
          BY <2>3 DEF FirstsOf
        <5>2. i \in 1 .. (k + 1)
          BY <2>4
        <5> QED BY <5>1, <5>2, <3>2
      <4>2. ASSUME NEW i \in 1 .. (k + 1) PROVE \E x \in 1 .. Len(u) : u[x].path = rs[i].path
        BY <2>3, <2>4, <2>6 DEF FirstsOf
      <4> QED BY <4>1, <4>2 DEF FirstsOf
    <3> QED BY <3>1, <3>3, <2>3 DEF v
  <2>7. CASE ~\E x \in 1 .. Len(u) : u[x].path = r.path
    <3>1. v = Append(u, r)
      BY <2>2, <2>5, <2>7 DEF AppendNew
    <3>2. /\ Len(v) = Len(u) + 1 /\ v[Len(u) + 1] = r
          /\ \A x \in 1 .. Len(u) : v[x] = u[x]
          /\ \A x : x \in 1 .. Len(v) <=> x \in 1 .. Len(u) \/ x = Len(u) + 1
      <4>1. Len(v) = Len(u) + 1 /\ v[Len(u) + 1] = r /\ \A x \in 1 .. Len(u) : v[x] = u[x]
        BY <3>1, <2>2, AppendFacts
      <4> QED BY <4>1, <2>2
    <3>3. ASSUME NEW i \in 1 .. Len(v), NEW j \in 1 .. Len(v), v[i].path = v[j].path PROVE i = j
      <4>1. CASE i \in 1 .. Len(u) /\ j \in 1 .. Len(u)
        BY <4>1, <3>2, <3>3, <2>3 DEF OnePerPath
      <4>2. CASE i = Len(u) + 1 \/ j = Len(u) + 1
        BY <4>2, <3>2, <3>3, <2>7
      <4> QED BY <4>1, <4>2, <3>2
    <3>4. ASSUME NEW x \in 1 .. Len(v)
          PROVE  \E i \in 1 .. (k + 1) : rs[i] = v[x] /\ \A j \in 1 .. (k + 1) : j < i => rs[j].path # v[x].path
      <4>1. CASE x \in 1 .. Len(u)
        <5>1. PICK i \in 1 .. k : rs[i] = u[x] /\ \A j \in 1 .. k : j < i => rs[j].path # u[x].path
          BY <4>1, <2>3 DEF FirstsOf
        <5>2. i \in 1 .. (k + 1) /\ v[x] = u[x]
          BY <2>4, <4>1, <3>2
        <5>3. \A j \in 1 .. (k + 1) : j < i => j \in 1 .. k
          OBVIOUS
        <5> QED BY <5>1, <5>2, <5>3
      <4>2. CASE x = Len(u) + 1
        <5>1. v[x] = rs[k + 1]
          BY <4>2, <3>2
        <5>2. \A j \in 1 .. (k + 1) : j < k + 1 => j \in 1 .. k
          OBVIOUS
        <5>3. \A j \in 1 .. k : rs[j].path # r.path
          BY <2>3, <2>7 DEF FirstsOf
        <5> QED BY <5>1, <5>2, <5>3, <2>4
      <4> QED BY <4>1, <4>2, <3>2
    <3>5. ASSUME NEW i \in 1 .. (k + 1) PROVE \E x \in 1 .. Len(v) : v[x].path = rs[i].path
      <4>1. CASE i \in 1 .. k
        <5>1. PICK x \in 1 .. Len(u) : u[x].path = rs[i].path
          BY <4>1, <2>3 DEF FirstsOf
        <5> QED BY <5>1, <3>2
      <4>2. CASE i = k + 1
        BY <4>2, <3>2
      <4> QED BY <4>1, <4>2, <2>4
    <3>6. FirstsOf(v, rs, k + 1)
      BY <3>4, <3>5 DEF FirstsOf
    <3> QED BY <3>3, <3>6 DEF v, OnePerPath
  <2> QED BY <2>6, <2>7
<1> HIDE DEF Ok
<1>5. 0 \in T /\ \A k \in Nat : k \in T => k + 1 \in T
  <2>1. \A k \in Nat : k + 1 <= n => k <= n
    BY <1>1
  <2> QED BY <1>3, <1>4, <2>1
<1>6. n \in T
  <2> HIDE DEF T
  <2> QED BY <1>5, <1>1, Induct
<1>7. Ok(n)
  <2>1. n <= n
    BY <1>1
  <2> QED BY <1>6, <2>1
<1>8. f[n] \in Seq(ARoot)
  BY <1>1, <1>2
<1> QED BY <1>2, <1>7, <1>8 DEF Ok

\* rs are the roots of the first k of the projects ps: each from its project, the first of a
\* path from the first project that holds it.
RootsShow(rs, ps, skip, k) ==
    /\ \A i \in 1 .. Len(rs) : \E m \in 1 .. k :
          /\ m \in Holding(ps, skip, rs[i].path) /\ rs[i].project = ps[m].id /\ rs[i].roots = ps[m].roots
          /\ (\A j \in 1 .. Len(rs) : j < i => rs[j].path # rs[i].path) =>
                \A l \in 1 .. k : l \in Holding(ps, skip, rs[i].path) => m <= l
    /\ \A m \in 1 .. k, p \in Paths : m \in Holding(ps, skip, p) =>
          \E i \in 1 .. Len(rs) : rs[i].path = p /\ rs[i].project = ps[m].id

\* The roots of a list of projects, in its order.
LEMMA AllRootsFacts ==
  ASSUME NEW ps \in Seq(Configured), NEW skip
  PROVE  AllRoots(ps, skip) \in Seq(ARoot) /\ RootsShow(AllRoots(ps, skip), ps, skip, Len(ps))
<1> DEFINE n == Len(ps)
           ss == [i \in 1 .. n |-> IF ps[i].id \in skip THEN <<>> ELSE RootsOf(ps[i])]
<1>1. n \in Nat /\ ps \in [1 .. n -> Configured] /\ DOMAIN ps = 1 .. n
  OBVIOUS
<1>2. ASSUME NEW i \in 1 .. n
      PROVE  /\ ps[i].id \in Projects /\ ps[i].roots \in Seq(Paths) /\ Len(ps[i].roots) \in Nat
             /\ RootsOf(ps[i]) \in Seq(ARoot) /\ Len(RootsOf(ps[i])) = Len(ps[i].roots)
             /\ \A x \in 1 .. Len(ps[i].roots) : RootsOf(ps[i])[x].path = ps[i].roots[x]
                                                 /\ RootsOf(ps[i])[x].project = ps[i].id
                                                 /\ RootsOf(ps[i])[x].roots = ps[i].roots
             /\ ToSet(ps[i].roots) = {ps[i].roots[x] : x \in 1 .. Len(ps[i].roots)}
  <2>1. ps[i].id \in Projects /\ ps[i].roots \in Seq(Paths)
    BY <1>1 DEF Configured
  <2> DEFINE q == ps[i]
             len == Len(q.roots)
             t == [x \in 1 .. len |-> [path |-> q.roots[x], project |-> q.id, roots |-> q.roots]]
  <2> HIDE DEF q
  <2>2. q.id \in Projects /\ q.roots \in Seq(Paths)
    BY <2>1 DEF q
  <2>3. len \in Nat /\ DOMAIN q.roots = 1 .. len /\ (\A x \in 1 .. len : q.roots[x] \in Paths)
        /\ ToSet(q.roots) = {q.roots[x] : x \in 1 .. len}
    BY <2>2, SeqFacts
  <2>4. RootsOf(q) = t
    BY <2>3 DEF RootsOf, Root
  <2>5. t \in [1 .. len -> ARoot]
    BY <2>2, <2>3 DEF ARoot
  <2>6. \A x \in 1 .. len : t[x].path = q.roots[x] /\ t[x].project = q.id /\ t[x].roots = q.roots
    OBVIOUS
  <2> HIDE DEF t
  <2>7. t \in Seq(ARoot) /\ Len(t) = len
    BY <2>3, <2>5
  <2> QED BY <2>2, <2>3, <2>4, <2>6, <2>7 DEF q
<1>3. ss \in [1 .. n -> Seq(ARoot)]
  BY <1>2
<1>4. AllRoots(ps, skip) = FlattenSeq(ss)
  BY <1>1, Zenon DEF AllRoots
<1>5. \A i \in 1 .. n : ss[i] = IF ps[i].id \in skip THEN <<>> ELSE RootsOf(ps[i])
  OBVIOUS
<1> HIDE DEF ss
<1>6. ss \in Seq(Seq(ARoot)) /\ Len(ss) = n
  BY <1>1, <1>3
<1>7. PICK f : IsFlattening(f, ARoot, ss, FlattenSeq(ss))
  BY <1>6, FlattenTrace
<1>8. /\ f \in [0 .. n -> Seq(ARoot)] /\ f[0] = <<>> /\ f[n] = FlattenSeq(ss)
      /\ \A k \in 1 .. n : f[k] = f[k - 1] \o ss[k]
  BY <1>6, <1>7 DEF IsFlattening
<1> DEFINE Ok(k) == RootsShow(f[k], ps, skip, k)
           T == {k \in Nat : k <= n => Ok(k)}
<1>9. Ok(0)
  <2>1. 1 .. 0 = {} /\ Len(<<>>) = 0
    OBVIOUS
  <2> QED BY <2>1, <1>8 DEF RootsShow
<1>10. ASSUME NEW k \in Nat, k + 1 <= n, Ok(k) PROVE Ok(k + 1)
  <2> DEFINE u == f[k]
             w == ss[k + 1]
             v == f[k + 1]
             c == k + 1
  <2>1. c \in 1 .. n /\ c - 1 = k /\ k \in 0 .. n
    BY <1>10, <1>1
  <2>2. v = u \o w /\ u \in Seq(ARoot) /\ w \in Seq(ARoot)
    BY <2>1, <1>3, <1>8
  <2>3. RootsShow(u, ps, skip, k)
    BY <1>10
  <2>4. w = IF ps[c].id \in skip THEN <<>> ELSE RootsOf(ps[c])
    BY <2>1, <1>5
  <2> HIDE DEF u, v, w
  <2>5. /\ Len(v) = Len(u) + Len(w) /\ Len(u) \in Nat /\ Len(w) \in Nat
        /\ \A i \in 1 .. Len(u) : v[i] = u[i]
        /\ \A i \in 1 .. Len(w) : v[Len(u) + i] = w[i]
        /\ \A i \in 1 .. Len(v) : i <= Len(u) \/ (i - Len(u) \in 1 .. Len(w) /\ v[i] = w[i - Len(u)])
    BY <2>2, ConcatFacts
  <2>6. \A l : l \in 1 .. c <=> l \in 1 .. k \/ l = c
    OBVIOUS
  <2> DEFINE e == ps[c]
             t == RootsOf(e)
  <2>12. /\ Len(e.roots) \in Nat /\ Len(t) = Len(e.roots)
         /\ \A x \in 1 .. Len(e.roots) : t[x].path = e.roots[x] /\ t[x].project = e.id /\ t[x].roots = e.roots
         /\ ToSet(e.roots) = {e.roots[x] : x \in 1 .. Len(e.roots)}
    BY <2>1, <1>2
  <2>13. /\ w = IF e.id \in skip THEN <<>> ELSE t
         /\ \A p : c \in Holding(ps, skip, p) <=> e.id \notin skip /\ p \in ToSet(e.roots)
    BY <2>1, <2>4, <1>1 DEF Holding
  <2> HIDE DEF t
  <2>7. ASSUME NEW x \in 1 .. Len(w)
        PROVE  /\ ps[c].id \notin skip /\ w[x].project = ps[c].id /\ w[x].roots = ps[c].roots
               /\ c \in Holding(ps, skip, w[x].path)
    <3> HIDE DEF e
    <3>1. e.id \notin skip /\ w = t
      <4>1. Len(<<>>) = 0 /\ Len(w) # 0
        OBVIOUS
      <4> QED BY <4>1, <2>13
    <3>2. x \in 1 .. Len(e.roots)
      BY <3>1, <2>12
    <3>3. w[x].path = e.roots[x] /\ w[x].project = e.id /\ w[x].roots = e.roots /\ w[x].path \in ToSet(e.roots)
      BY <3>1, <3>2, <2>12
    <3>4. e.id \notin skip /\ w[x].project = e.id /\ w[x].roots = e.roots /\ c \in Holding(ps, skip, w[x].path)
      BY <3>1, <3>3, <2>13
    <3> QED BY <3>4 DEF e
  <2>8. ASSUME NEW p \in Paths, c \in Holding(ps, skip, p)
        PROVE  \E x \in 1 .. Len(w) : w[x].path = p /\ w[x].project = ps[c].id
    <3> HIDE DEF e
    <3>1. e.id \notin skip /\ p \in ToSet(e.roots) /\ w = t
      BY <2>8, <2>13
    <3>2. PICK x \in 1 .. Len(e.roots) : e.roots[x] = p
      BY <3>1, <2>12
    <3>3. x \in 1 .. Len(w) /\ w[x].path = p /\ w[x].project = e.id
      BY <3>1, <3>2, <2>12
    <3> QED BY <3>3 DEF e
  <2>9. ASSUME NEW i \in 1 .. Len(v)
        PROVE  \E m \in 1 .. c :
          /\ m \in Holding(ps, skip, v[i].path) /\ v[i].project = ps[m].id /\ v[i].roots = ps[m].roots
          /\ (\A j \in 1 .. Len(v) : j < i => v[j].path # v[i].path) =>
                \A l \in 1 .. c : l \in Holding(ps, skip, v[i].path) => m <= l
    <3>1. CASE i <= Len(u)
      <4>1. i \in 1 .. Len(u) /\ v[i] = u[i]
        BY <3>1, <2>5
      <4>2. PICK m \in 1 .. k :
               /\ m \in Holding(ps, skip, u[i].path) /\ u[i].project = ps[m].id /\ u[i].roots = ps[m].roots
               /\ (\A j \in 1 .. Len(u) : j < i => u[j].path # u[i].path) =>
                     \A l \in 1 .. k : l \in Holding(ps, skip, u[i].path) => m <= l
        BY <4>1, <2>3 DEF RootsShow
      <4>3. ASSUME \A j \in 1 .. Len(v) : j < i => v[j].path # v[i].path,
                   NEW l \in 1 .. c, l \in Holding(ps, skip, v[i].path)
            PROVE  m <= l
        <5>1. \A j \in 1 .. Len(u) : j < i => u[j].path # u[i].path
          <6>1. \A j \in 1 .. Len(u) : j \in 1 .. Len(v) /\ v[j] = u[j]
            BY <2>5
          <6> QED BY <6>1, <4>1, <4>3
        <5>2. CASE l \in 1 .. k
          BY <5>1, <5>2, <4>1, <4>2, <4>3
        <5>3. CASE l = c
          BY <5>3
        <5> QED BY <5>2, <5>3, <2>6
      <4>4. m \in 1 .. c
        BY <2>6
      <4> QED BY <4>1, <4>2, <4>3, <4>4
    <3>2. CASE i - Len(u) \in 1 .. Len(w) /\ v[i] = w[i - Len(u)]
      <4>1. c \in Holding(ps, skip, v[i].path) /\ v[i].project = ps[c].id /\ v[i].roots = ps[c].roots
            /\ v[i].path \in Paths
        <5>1. w[i - Len(u)] \in ARoot
          BY <3>2, <2>2
        <5> QED BY <5>1, <3>2, <2>7 DEF ARoot
      <4>2. ASSUME \A j \in 1 .. Len(v) : j < i => v[j].path # v[i].path,
                   NEW l \in 1 .. c, l \in Holding(ps, skip, v[i].path)
            PROVE  c <= l
        <5>1. CASE l \in 1 .. k
          <6>1. PICK j \in 1 .. Len(u) : u[j].path = v[i].path
            BY <5>1, <4>1, <4>2, <2>3 DEF RootsShow
          <6>2. j \in 1 .. Len(v) /\ j < i /\ v[j] = u[j]
            BY <3>2, <2>5
          <6> QED BY <6>1, <6>2, <4>2
        <5>2. CASE l = c
          BY <5>2
        <5> QED BY <5>1, <5>2, <2>6
      <4>3. c \in 1 .. c
        OBVIOUS
      <4> QED BY <4>1, <4>2, <4>3
    <3> QED BY <3>1, <3>2, <2>5
  <2>10. ASSUME NEW m \in 1 .. c, NEW p \in Paths, m \in Holding(ps, skip, p)
         PROVE  \E i \in 1 .. Len(v) : v[i].path = p /\ v[i].project = ps[m].id
    <3>1. CASE m \in 1 .. k
      <4>1. PICK i \in 1 .. Len(u) : u[i].path = p /\ u[i].project = ps[m].id
        BY <3>1, <2>3, <2>10 DEF RootsShow
      <4>2. i \in 1 .. Len(v) /\ v[i] = u[i]
        BY <2>5
      <4> QED BY <4>1, <4>2
    <3>2. CASE m = c
      <4>1. PICK x \in 1 .. Len(w) : w[x].path = p /\ w[x].project = ps[c].id
        BY <3>2, <2>8, <2>10
      <4>2. Len(u) + x \in 1 .. Len(v) /\ v[Len(u) + x] = w[x]
        BY <2>5
      <4> QED BY <4>1, <4>2, <3>2
    <3> QED BY <3>1, <3>2, <2>6
  <2>11. RootsShow(v, ps, skip, c)
    BY <2>9, <2>10 DEF RootsShow
  <2> QED BY <2>11 DEF v
<1> HIDE DEF Ok
<1>11. 0 \in T /\ \A k \in Nat : k \in T => k + 1 \in T
  <2>1. \A k \in Nat : k + 1 <= n => k <= n
    BY <1>1
  <2> QED BY <1>9, <1>10, <2>1
<1>12. n \in T
  <2> HIDE DEF T
  <2> QED BY <1>11, <1>1, Induct
<1>13. Ok(n)
  <2>1. n <= n
    BY <1>1
  <2> QED BY <1>12, <2>1
<1>14. f[n] \in Seq(ARoot)
  BY <1>1, <1>8
<1> QED BY <1>4, <1>8, <1>13, <1>14 DEF Ok

References == Seq(Projects \cup Paths)
\* The parts of a global state.
LEMMA GlobalFacts ==
  ASSUME NEW g \in Global
  PROVE  /\ g.local \in Seq(Configured) /\ g.assigned \in Seq(Configured) /\ g.trusted \in Seq(Paths)
         /\ g.order \in References /\ g.saved \in References /\ g.active \in References /\ g.pinned \in References
  BY DEF Global, Configured, References

LEMMA HoldingFacts ==
  ASSUME NEW ps \in Seq(Configured), NEW skip, NEW p
  PROVE  Holding(ps, skip, p) \in SUBSET Nat /\ \A m \in Holding(ps, skip, p) : m \in 1 .. Len(ps) /\ ps[m].id \in Projects
<1>1. DOMAIN ps = 1 .. Len(ps) /\ Len(ps) \in Nat /\ \A m \in 1 .. Len(ps) : ps[m] \in Configured
  OBVIOUS
<1> QED BY <1>1 DEF Holding, Configured

\* Which project Holder finds.
LEMMA HolderIs ==
  ASSUME NEW g, NEW p
  PROVE  LET rooted == {q.id : q \in {c \in ToSet(g.local) : c.roots # <<>>}}
             local == Holding(g.local, {}, p)
             assigned == Holding(g.assigned, rooted, p)
         IN  /\ local # {} => Holder(g, p) = g.local[Min(local)]
             /\ local = {} /\ assigned # {} => Holder(g, p) = g.assigned[Min(assigned)]
             /\ local = {} /\ assigned = {} => Holder(g, p) = [id |-> NoProject, roots |-> <<p>>]
<1> DEFINE rooted == {q.id : q \in {c \in ToSet(g.local) : c.roots # <<>>}}
           local == Holding(g.local, {}, p)
           assigned == Holding(g.assigned, rooted, p)
<1>1. Holder(g, p) = CASE local # {} -> g.local[Min(local)]
                      [] local = {} /\ assigned # {} -> g.assigned[Min(assigned)]
                      [] OTHER -> [id |-> NoProject, roots |-> <<p>>]
  BY DEF Holder
<1> HIDE DEF local, assigned
<1>2. local # {} => Holder(g, p) = g.local[Min(local)]
  BY <1>1
<1>3. local = {} /\ assigned # {} => Holder(g, p) = g.assigned[Min(assigned)]
  BY <1>1
<1>4. local = {} /\ assigned = {} => Holder(g, p) = [id |-> NoProject, roots |-> <<p>>]
  BY <1>1
<1> QED BY <1>2, <1>3, <1>4 DEF local, assigned

\* The projects with a root are those configured with one.
LEMMA RootedIs ==
  ASSUME NEW g \in Global
  PROVE  Rooted(g) = {q.id : q \in {c \in ToSet(g.local) : c.roots # <<>>}}
<1> DEFINE ps == g.local
           a == AllRoots(ps, {})
           n == Len(ps)
<1>1. ps \in Seq(Configured) /\ n \in Nat /\ ToSet(ps) = {ps[i] : i \in 1 .. n} /\ DOMAIN ps = 1 .. n
      /\ \A i \in 1 .. n : ps[i] \in Configured
  BY GlobalFacts, SeqFacts
<1>2. a \in Seq(ARoot) /\ RootsShow(a, ps, {}, n)
  BY <1>1, AllRootsFacts
<1>3. ToSet(a) = {a[i] : i \in 1 .. Len(a)}
  BY <1>2, SeqFacts
<1>4. Rooted(g) = {r.project : r \in ToSet(a)}
  BY DEF Rooted
<1> HIDE DEF a, ps, n
<1>5. ASSUME NEW i \in 1 .. Len(a) PROVE \E c \in ToSet(ps) : c.roots # <<>> /\ c.id = a[i].project
  <2>1. PICK m \in 1 .. n : m \in Holding(ps, {}, a[i].path) /\ a[i].project = ps[m].id
    BY <1>2 DEF RootsShow
  <2>2. a[i].path \in ToSet(ps[m].roots)
    BY <2>1 DEF Holding
  <2>3. ToSet(<<>>) = {}
    BY DEF ToSet
  <2>4. ps[m].roots # <<>>
    BY <2>2, <2>3
  <2> QED BY <2>1, <2>4, <1>1
<1>6. ASSUME NEW c \in ToSet(ps), c.roots # <<>> PROVE \E i \in 1 .. Len(a) : a[i].project = c.id
  <2>1. PICK m \in 1 .. n : ps[m] = c
    BY <1>1
  <2>2. c.roots \in Seq(Paths)
    BY <2>1, <1>1 DEF Configured
  <2>3. Len(c.roots) # 0 /\ Len(c.roots) \in Nat /\ ToSet(c.roots) = {c.roots[x] : x \in 1 .. Len(c.roots)}
        /\ ToSet(c.roots) \subseteq Paths
    <3>1. Len(c.roots) # 0 /\ Len(c.roots) \in Nat
      BY <2>2, <1>6
    <3> QED BY <3>1, <2>2, SeqFacts
  <2>4. 1 \in 1 .. Len(c.roots)
    BY <2>3
  <2>5. c.roots[1] \in ToSet(c.roots) /\ c.roots[1] \in Paths
    BY <2>3, <2>4
  <2>6. m \in Holding(ps, {}, c.roots[1])
    BY <2>1, <2>5, <1>1 DEF Holding
  <2> QED BY <2>1, <2>5, <2>6, <1>2 DEF RootsShow
<1>7. Rooted(g) \subseteq {q.id : q \in {c \in ToSet(ps) : c.roots # <<>>}}
  BY <1>3, <1>4, <1>5
<1>8. {q.id : q \in {c \in ToSet(ps) : c.roots # <<>>}} \subseteq Rooted(g)
  BY <1>3, <1>4, <1>6
<1> QED BY <1>7, <1>8 DEF ps

\* The root r is from the project that has its path.
HeldBy(r, g) == r.project = Owner(g, r.path) /\ r.roots = Holder(g, r.path).roots
\* The known roots: one for each path that a project owns, from that project.
RootsAre(u, g) ==
    /\ u \in Seq(ARoot) /\ OnePerPath(u)
    /\ \A x \in 1 .. Len(u) : u[x].project \in Projects /\ HeldBy(u[x], g)
    /\ \A p \in Paths : Owner(g, p) # NoProject => \E x \in 1 .. Len(u) : u[x].path = p

\* state_project_roots gives the owner of each path that has one.
LEMMA StateRootsAre ==
  ASSUME NEW g \in Global
  PROVE  RootsAre(StateRoots(g), g)
<1> DEFINE a == AllRoots(g.local, {})
           b == AllRoots(g.assigned, Rooted(g))
           rs == a \o b
           u == UniqueRoots(rs)
           nl == Len(g.local)
           na == Len(g.assigned)
           L(p) == Holding(g.local, {}, p)
           A(p) == Holding(g.assigned, Rooted(g), p)
<1>1. g.local \in Seq(Configured) /\ g.assigned \in Seq(Configured) /\ nl \in Nat /\ na \in Nat
  BY GlobalFacts
<1>2. a \in Seq(ARoot) /\ RootsShow(a, g.local, {}, nl)
  BY <1>1, AllRootsFacts
<1>3. b \in Seq(ARoot) /\ RootsShow(b, g.assigned, Rooted(g), na)
  BY <1>1, AllRootsFacts
<1> HIDE DEF a, b
<1>4. /\ rs \in Seq(ARoot) /\ Len(rs) = Len(a) + Len(b) /\ Len(a) \in Nat /\ Len(b) \in Nat
      /\ \A i \in 1 .. Len(a) : rs[i] = a[i]
      /\ \A i \in 1 .. Len(b) : rs[Len(a) + i] = b[i]
      /\ \A i \in 1 .. Len(rs) : i <= Len(a) \/ (i - Len(a) \in 1 .. Len(b) /\ rs[i] = b[i - Len(a)])
  BY <1>2, <1>3, ConcatFacts
<1> HIDE DEF rs
<1>5. u \in Seq(ARoot) /\ OnePerPath(u) /\ FirstsOf(u, rs, Len(rs))
  BY <1>4, UniqueRootsFacts
<1> HIDE DEF u
<1>6. ASSUME NEW p
      PROVE  /\ L(p) # {} => Holder(g, p) = g.local[Min(L(p))]
             /\ L(p) = {} /\ A(p) # {} => Holder(g, p) = g.assigned[Min(A(p))]
             /\ L(p) = {} /\ A(p) = {} => Holder(g, p) = [id |-> NoProject, roots |-> <<p>>]
  <2> DEFINE rooted == {q.id : q \in {c \in ToSet(g.local) : c.roots # <<>>}}
             local == Holding(g.local, {}, p)
             assigned == Holding(g.assigned, rooted, p)
  <2>1. /\ local # {} => Holder(g, p) = g.local[Min(local)]
        /\ local = {} /\ assigned # {} => Holder(g, p) = g.assigned[Min(assigned)]
        /\ local = {} /\ assigned = {} => Holder(g, p) = [id |-> NoProject, roots |-> <<p>>]
    BY HolderIs
  <2>2. Rooted(g) = rooted
    BY RootedIs
  <2> HIDE DEF rooted
  <2> QED BY <2>1, <2>2
<1>7. ASSUME NEW p
      PROVE  /\ L(p) \in SUBSET Nat /\ \A m \in L(p) : m \in 1 .. nl /\ g.local[m].id \in Projects
             /\ A(p) \in SUBSET Nat /\ \A m \in A(p) : m \in 1 .. na /\ g.assigned[m].id \in Projects
  BY <1>1, HoldingFacts
<1>8. /\ \A i \in 1 .. Len(a) : \E m \in 1 .. nl :
            /\ m \in L(a[i].path) /\ a[i].project = g.local[m].id /\ a[i].roots = g.local[m].roots
            /\ (\A j \in 1 .. Len(a) : j < i => a[j].path # a[i].path) =>
                  \A l \in 1 .. nl : l \in L(a[i].path) => m <= l
      /\ \A m \in 1 .. nl, p \in Paths : m \in L(p) => \E i \in 1 .. Len(a) : a[i].path = p
  BY <1>2 DEF RootsShow
<1>9. /\ \A i \in 1 .. Len(b) : \E m \in 1 .. na :
            /\ m \in A(b[i].path) /\ b[i].project = g.assigned[m].id /\ b[i].roots = g.assigned[m].roots
            /\ (\A j \in 1 .. Len(b) : j < i => b[j].path # b[i].path) =>
                  \A l \in 1 .. na : l \in A(b[i].path) => m <= l
      /\ \A m \in 1 .. na, p \in Paths : m \in A(p) => \E i \in 1 .. Len(b) : b[i].path = p
  BY <1>3 DEF RootsShow
<1> HIDE DEF L, A, nl, na
<1>10. ASSUME NEW x \in 1 .. Len(u)
       PROVE  u[x].project \in Projects /\ HeldBy(u[x], g)
  <2>1. PICK i \in 1 .. Len(rs) : rs[i] = u[x] /\ \A j \in 1 .. Len(rs) : j < i => rs[j].path # u[x].path
    BY <1>5 DEF FirstsOf
  <2> DEFINE p == u[x].path
  <2>2. p \in Paths
    <3>1. u[x] \in ARoot
      BY <1>5
    <3> QED BY <3>1 DEF ARoot
  <2>3. CASE i <= Len(a)
    <3>1. i \in 1 .. Len(a) /\ a[i] = u[x]
      BY <2>1, <2>3, <1>4
    <3>2. \A j \in 1 .. Len(a) : j < i => a[j].path # a[i].path
      <4>1. \A j \in 1 .. Len(a) : j \in 1 .. Len(rs) /\ rs[j] = a[j]
        BY <1>4
      <4> QED BY <4>1, <2>1, <3>1
    <3>3. PICK m \in 1 .. nl : m \in L(p) /\ u[x].project = g.local[m].id /\ u[x].roots = g.local[m].roots
                         /\ \A l \in 1 .. nl : l \in L(p) => m <= l
      BY <3>1, <3>2, <1>8
    <3>4. L(p) \in SUBSET Nat /\ (\A l \in L(p) : m <= l) /\ g.local[m].id \in Projects
      BY <3>3, <1>7
    <3>5. Min(L(p)) = m
      BY <3>3, <3>4, LeastIs
    <3> QED BY <3>3, <3>4, <3>5, <1>6 DEF HeldBy, Owner
  <2>4. CASE i - Len(a) \in 1 .. Len(b) /\ rs[i] = b[i - Len(a)]
    <3> DEFINE d == i - Len(a)
    <3>1. d \in 1 .. Len(b) /\ b[d] = u[x]
      BY <2>1, <2>4
    <3>2. L(p) = {}
      <4> SUFFICES ASSUME NEW l \in L(p) PROVE FALSE
        OBVIOUS
      <4>1. PICK j \in 1 .. Len(a) : a[j].path = p
        BY <2>2, <1>7, <1>8
      <4>2. j \in 1 .. Len(rs) /\ j < i /\ rs[j] = a[j]
        BY <2>4, <1>4
      <4> QED BY <4>1, <4>2, <2>1
    <3>3. \A j \in 1 .. Len(b) : j < d => b[j].path # b[d].path
      <4>1. \A j \in 1 .. Len(b) : Len(a) + j \in 1 .. Len(rs) /\ rs[Len(a) + j] = b[j] /\ (j < d => Len(a) + j < i)
        BY <1>4
      <4> QED BY <4>1, <2>1, <3>1
    <3>4. PICK m \in 1 .. na : m \in A(p) /\ u[x].project = g.assigned[m].id /\ u[x].roots = g.assigned[m].roots
                         /\ \A l \in 1 .. na : l \in A(p) => m <= l
      <4> HIDE DEF d
      <4> QED BY <3>1, <3>3, <1>9
    <3>5. A(p) \in SUBSET Nat /\ (\A l \in A(p) : m <= l) /\ g.assigned[m].id \in Projects
      BY <3>4, <1>7
    <3>6. Min(A(p)) = m
      BY <3>4, <3>5, LeastIs
    <3> QED BY <3>2, <3>4, <3>5, <3>6, <1>6 DEF HeldBy, Owner
  <2> QED BY <2>3, <2>4, <1>4
<1>11. ASSUME NEW p \in Paths, Owner(g, p) # NoProject PROVE \E x \in 1 .. Len(u) : u[x].path = p
  <2>1. \E i \in 1 .. Len(rs) : rs[i].path = p
    <3>1. CASE L(p) # {}
      <4>1. PICK i \in 1 .. Len(a) : a[i].path = p
        BY <3>1, <1>7, <1>8
      <4>2. i \in 1 .. Len(rs) /\ rs[i] = a[i]
        BY <1>4
      <4> QED BY <4>1, <4>2
    <3>2. CASE A(p) # {}
      <4>1. PICK i \in 1 .. Len(b) : b[i].path = p
        BY <3>2, <1>7, <1>9
      <4>2. Len(a) + i \in 1 .. Len(rs) /\ rs[Len(a) + i] = b[i]
        BY <1>4
      <4> QED BY <4>1, <4>2
    <3> QED BY <3>1, <3>2, <1>6, <1>11 DEF Owner
  <2> QED BY <2>1, <1>5 DEF FirstsOf
<1>12. StateRoots(g) = u
  BY DEF StateRoots, u, rs, a, b
<1> QED BY <1>5, <1>10, <1>11, <1>12 DEF RootsAre

\* A path that no project has stands for itself.
LEMMA NotHeld ==
  ASSUME NEW g \in Global, NEW p, Owner(g, p) = NoProject
  PROVE  Holder(g, p).roots = <<p>>
<1> DEFINE rooted == {q.id : q \in {c \in ToSet(g.local) : c.roots # <<>>}}
           local == Holding(g.local, {}, p)
           assigned == Holding(g.assigned, rooted, p)
<1>1. /\ local # {} => Holder(g, p) = g.local[Min(local)]
      /\ local = {} /\ assigned # {} => Holder(g, p) = g.assigned[Min(assigned)]
      /\ local = {} /\ assigned = {} => Holder(g, p) = [id |-> NoProject, roots |-> <<p>>]
  BY HolderIs
<1>2. /\ local \in SUBSET Nat /\ \A m \in local : g.local[m].id \in Projects
      /\ assigned \in SUBSET Nat /\ \A m \in assigned : g.assigned[m].id \in Projects
  BY GlobalFacts, HoldingFacts
<1>3. NoProject \notin Projects
  BY IndexAssumption
<1> HIDE DEF local, assigned
<1>4. local = {} /\ assigned = {}
  BY <1>1, <1>2, <1>3, LeastOf DEF Owner
<1> QED BY <1>1, <1>4

LEMMA SingleFacts ==
  ASSUME NEW S, NEW x \in S
  PROVE  <<x>> \in Seq(S) /\ Len(<<x>>) = 1 /\ <<x>>[1] = x /\ ToSet(<<x>>) = {x} /\ <<>> \in Seq(S) /\ ToSet(<<>>) = {}
  BY DEF ToSet

\* The known roots of one project.
LEMMA OfProjectFacts ==
  ASSUME NEW known \in Seq(ARoot), NEW id
  PROVE  /\ OfProject(known, id) \in Seq(ARoot)
         /\ \A r : r \in ToSet(OfProject(known, id)) <=> \E i \in 1 .. Len(known) : known[i] = r /\ r.project = id
<1> DEFINE n == Len(known)
           ss == [i \in 1 .. n |-> IF known[i].project = id THEN <<known[i]>> ELSE <<>>]
<1>1. n \in Nat /\ DOMAIN known = 1 .. n /\ \A i \in 1 .. n : known[i] \in ARoot
  OBVIOUS
<1>2. OfProject(known, id) = FlattenSeq(ss)
  BY <1>1, Zenon DEF OfProject
<1>3. \A i \in 1 .. n : ss[i] = IF known[i].project = id THEN <<known[i]>> ELSE <<>>
  OBVIOUS
<1>4. \A i \in 1 .. n : ss[i] \in Seq(ARoot) /\ \A r : r \in ToSet(ss[i]) <=> known[i] = r /\ r.project = id
  <2> TAKE i \in 1 .. n
  <2>1. known[i] \in ARoot
    BY <1>1
  <2>2. <<known[i]>> \in Seq(ARoot) /\ ToSet(<<known[i]>>) = {known[i]} /\ <<>> \in Seq(ARoot) /\ ToSet(<<>>) = {}
    BY <2>1, SingleFacts
  <2>3. CASE known[i].project = id
    <3>1. ss[i] = <<known[i]>>
      BY <2>3
    <3> HIDE DEF ss
    <3> QED BY <3>1, <2>2, <2>3
  <2>4. CASE known[i].project # id
    <3>1. ss[i] = <<>>
      BY <2>4
    <3> HIDE DEF ss
    <3> QED BY <3>1, <2>2, <2>4
  <2> QED BY <2>3, <2>4
<1>5. ss \in [1 .. n -> Seq(ARoot)]
  BY <1>4
<1> HIDE DEF ss
<1>6. ss \in Seq(Seq(ARoot)) /\ Len(ss) = n
  BY <1>1, <1>5
<1>7. /\ FlattenSeq(ss) \in Seq(ARoot)
      /\ \A x : x \in ToSet(FlattenSeq(ss)) <=> \E i \in 1 .. n : x \in ToSet(ss[i])
  BY <1>6, FlattenFacts
<1> QED BY <1>2, <1>4, <1>7

\* No path is lost and none is made up.
LEMMA UniqueRootsSet ==
  ASSUME NEW rs \in Seq(ARoot)
  PROVE  /\ UniqueRoots(rs) \in Seq(ARoot) /\ OnePerPath(UniqueRoots(rs))
         /\ \A x \in 1 .. Len(UniqueRoots(rs)) : UniqueRoots(rs)[x] \in ToSet(rs)
         /\ \A r \in ToSet(rs) : \E x \in 1 .. Len(UniqueRoots(rs)) : UniqueRoots(rs)[x].path = r.path
<1>1. ToSet(rs) = {rs[i] : i \in 1 .. Len(rs)}
  BY SeqFacts
<1>2. UniqueRoots(rs) \in Seq(ARoot) /\ OnePerPath(UniqueRoots(rs)) /\ FirstsOf(UniqueRoots(rs), rs, Len(rs))
  BY UniqueRootsFacts
<1>3. \A x \in 1 .. Len(UniqueRoots(rs)) : UniqueRoots(rs)[x] \in ToSet(rs)
  BY <1>1, <1>2 DEF FirstsOf
<1>4. \A r \in ToSet(rs) : \E x \in 1 .. Len(UniqueRoots(rs)) : UniqueRoots(rs)[x].path = r.path
  BY <1>1, <1>2 DEF FirstsOf
<1> QED BY <1>2, <1>3, <1>4

\* The roots rs have the paths N, each from the project that owns it.
Stand(rs, g, N) ==
    /\ rs \in Seq(ARoot)
    /\ \A r \in ToSet(rs) : r.path \in N /\ HeldBy(r, g)
    /\ \A p \in N : \E r \in ToSet(rs) : r.path = p

\* The paths that one reference stands for.
NamedBy(g, ref) == {p \in Paths : p = ref \/ Owner(g, p) = ref}

\* A reference stands for the roots of the project it names, or for the path it is.
LEMMA ReferredIs ==
  ASSUME NEW g \in Global, NEW u, RootsAre(u, g), NEW ref \in Projects \cup Paths
  PROVE  Stand(Referred(u, ref), g, NamedBy(g, ref))
<1> DEFINE byId == OfProject(u, ref)
           at == {i \in DOMAIN u : u[i].path = ref}
           result == Referred(u, ref)
<1>1. /\ u \in Seq(ARoot) /\ DOMAIN u = 1 .. Len(u) /\ Len(u) \in Nat
      /\ \A x \in 1 .. Len(u) : u[x] \in ARoot /\ u[x].path \in Paths /\ u[x].project \in Projects
                                /\ HeldBy(u[x], g) /\ u[x].project = Owner(g, u[x].path)
      /\ \A p \in Paths : Owner(g, p) # NoProject => \E x \in 1 .. Len(u) : u[x].path = p
  <2>1. u \in Seq(ARoot) /\ DOMAIN u = 1 .. Len(u) /\ Len(u) \in Nat /\ \A x \in 1 .. Len(u) : u[x] \in ARoot
    BY SeqFacts DEF RootsAre
  <2>2. \A r \in ARoot : r.path \in Paths
    BY DEF ARoot
  <2> QED BY <2>1, <2>2, Zenon DEF RootsAre, HeldBy
<1>2. byId \in Seq(ARoot) /\ \A r : r \in ToSet(byId) <=> \E i \in 1 .. Len(u) : u[i] = r /\ r.project = ref
  BY <1>1, OfProjectFacts
<1>3. Projects \cap Paths = {} /\ NoProject \notin Projects /\ NoProject \notin Paths /\ Paths \subseteq Nat
  BY IndexAssumption
<1>4. \A p \in Paths : Owner(g, p) # NoProject => Owner(g, p) \in Projects
  BY <1>1
<1>5. result = CASE byId # <<>> -> byId
                 [] byId = <<>> /\ ref \notin Paths -> <<>>
                 [] byId = <<>> /\ ref \in Paths /\ at # {} -> <<u[Min(at)]>>
                 [] OTHER -> <<Root(ref, NoProject, <<ref>>)>>
  BY DEF Referred
<1> HIDE DEF byId, result
<1>6. byId # <<>> => \E x \in 1 .. Len(u) : u[x].project = ref
  <2> SUFFICES ASSUME byId # <<>> PROVE \E x \in 1 .. Len(u) : u[x].project = ref
    OBVIOUS
  <2>1. Len(byId) \in Nat /\ Len(byId) # 0 /\ ToSet(byId) = {byId[i] : i \in 1 .. Len(byId)}
    <3>1. Len(byId) \in Nat /\ Len(byId) # 0
      BY <1>2
    <3> QED BY <3>1, <1>2, SeqFacts
  <2>2. byId[1] \in ToSet(byId)
    BY <2>1
  <2> QED BY <2>2, <1>2
<1>7. byId = <<>> => \A x \in 1 .. Len(u) : u[x].project # ref
  <2> SUFFICES ASSUME byId = <<>>, NEW x \in 1 .. Len(u), u[x].project = ref PROVE FALSE
    OBVIOUS
  <2>1. u[x] \in ToSet(byId)
    BY <1>2
  <2>2. ToSet(<<>>) = {}
    BY DEF ToSet
  <2> QED BY <2>1, <2>2
<1>8. CASE byId # <<>>
  <2>1. result = byId
    BY <1>5, <1>8
  <2>2. ref \in Projects /\ ref \notin Paths
    BY <1>1, <1>3, <1>6, <1>8
  <2>3. ASSUME NEW r \in ToSet(byId) PROVE r.path \in NamedBy(g, ref) /\ HeldBy(r, g)
    BY <1>1, <1>2 DEF NamedBy
  <2>4. ASSUME NEW p \in NamedBy(g, ref) PROVE \E r \in ToSet(byId) : r.path = p
    <3>1. p \in Paths /\ Owner(g, p) = ref /\ Owner(g, p) # NoProject
      BY <2>2, <1>3 DEF NamedBy
    <3>2. PICK x \in 1 .. Len(u) : u[x].path = p
      BY <3>1, <1>1
    <3>3. u[x] \in ToSet(byId)
      BY <3>1, <3>2, <1>1, <1>2
    <3> QED BY <3>2, <3>3
  <2> QED BY <2>1, <2>3, <2>4, <1>2 DEF Stand, result
<1>9. CASE byId = <<>> /\ ref \notin Paths
  <2>1. result = <<>>
    BY <1>5, <1>9
  <2>2. <<>> \in Seq(ARoot) /\ ToSet(<<>>) = {}
    BY DEF ToSet
  <2>3. ASSUME NEW p \in NamedBy(g, ref) PROVE FALSE
    <3>1. p \in Paths /\ Owner(g, p) = ref /\ Owner(g, p) # NoProject
      BY <1>3, <1>9 DEF NamedBy
    <3> QED BY <3>1, <1>1, <1>7, <1>9
  <2> QED BY <2>1, <2>2, <2>3 DEF Stand, result
<1>10. CASE byId = <<>> /\ ref \in Paths
  <2>1. NamedBy(g, ref) = {ref}
    <3>1. ASSUME NEW p \in Paths, Owner(g, p) = ref PROVE p = ref
      BY <3>1, <1>3, <1>4, <1>10
    <3> QED BY <3>1, <1>10 DEF NamedBy
  <2>2. CASE at # {}
    <3>1. at \in SUBSET Nat
      BY <1>1
    <3>2. Min(at) \in at
      BY <3>1, <2>2, LeastOf
    <3>3. result = <<u[Min(at)]>>
      BY <1>5, <1>10, <2>2
    <3> DEFINE r0 == u[Min(at)]
    <3>4. r0 \in ARoot /\ r0.path = ref /\ HeldBy(r0, g)
      BY <3>2, <1>1
    <3> HIDE DEF r0, at
    <3>5. <<r0>> \in Seq(ARoot) /\ ToSet(<<r0>>) = {r0}
      BY <3>4, SingleFacts
    <3> QED BY <3>3, <3>4, <3>5, <2>1 DEF Stand, result, r0
  <2>3. CASE at = {}
    <3>1. result = <<Root(ref, NoProject, <<ref>>)>>
      BY <1>5, <1>10, <2>3
    <3> DEFINE r0 == Root(ref, NoProject, <<ref>>)
    <3>2. r0 \in ARoot /\ r0.path = ref /\ r0.project = NoProject /\ r0.roots = <<ref>>
      BY <1>10 DEF ARoot, Root
    <3>3. Owner(g, ref) = NoProject
      BY <1>1, <1>10, <2>3
    <3>5. HeldBy(r0, g)
      BY <3>2, <3>3, NotHeld DEF HeldBy
    <3> HIDE DEF r0, at
    <3>4. <<r0>> \in Seq(ARoot) /\ ToSet(<<r0>>) = {r0}
      BY <3>2, SingleFacts
    <3> QED BY <3>1, <3>2, <3>4, <3>5, <2>1 DEF Stand, result, r0
  <2> QED BY <2>2, <2>3
<1> QED BY <1>8, <1>9, <1>10

\* Roots that stand for the paths N, one for each.
StandOnce(rs, g, N) == Stand(rs, g, N) /\ OnePerPath(rs)

\* Dropping the repeated paths changes nothing that the roots stand for.
LEMMA UniqueStand ==
  ASSUME NEW rs, NEW g, NEW N, Stand(rs, g, N)
  PROVE  StandOnce(UniqueRoots(rs), g, N)
<1> DEFINE u == UniqueRoots(rs)
<1>1. rs \in Seq(ARoot)
  BY DEF Stand
<1>2. /\ u \in Seq(ARoot) /\ OnePerPath(u) /\ \A x \in 1 .. Len(u) : u[x] \in ToSet(rs)
      /\ \A r \in ToSet(rs) : \E x \in 1 .. Len(u) : u[x].path = r.path
  BY <1>1, UniqueRootsSet
<1> HIDE DEF u
<1>3. ToSet(u) = {u[x] : x \in 1 .. Len(u)}
  BY <1>2, SeqFacts
<1>4. \A r \in ToSet(u) : r.path \in N /\ HeldBy(r, g)
  BY <1>2, <1>3 DEF Stand
<1>5. ASSUME NEW p \in N PROVE \E r \in ToSet(u) : r.path = p
  <2>1. PICK r \in ToSet(rs) : r.path = p
    BY DEF Stand
  <2>2. PICK x \in 1 .. Len(u) : u[x].path = r.path
    BY <1>2
  <2> QED BY <2>1, <2>2, <1>3
<1> QED BY <1>2, <1>4, <1>5 DEF Stand, StandOnce, u

\* resolve_state_project_references gives the paths that the references name ...
LEMMA ResolveIs ==
  ASSUME NEW g \in Global, NEW refs \in References
  PROVE  StandOnce(Resolve(g, refs), g, Named(g, refs))
<1> DEFINE n == Len(refs)
           u == StateRoots(g)
           ss == [i \in 1 .. n |-> Referred(u, refs[i])]
<1>1. /\ n \in Nat /\ DOMAIN refs = 1 .. n /\ \A i \in 1 .. n : refs[i] \in Projects \cup Paths
      /\ ToSet(refs) = {refs[i] : i \in 1 .. n}
  BY SeqFacts DEF References
<1>2. RootsAre(u, g)
  BY StateRootsAre
<1> HIDE DEF u
<1>3. \A i \in 1 .. n : Stand(ss[i], g, NamedBy(g, refs[i]))
  BY <1>1, <1>2, ReferredIs
<1>4. ss \in [1 .. n -> Seq(ARoot)]
  BY <1>3 DEF Stand
<1>5. Resolve(g, refs) = UniqueRoots(FlattenSeq(ss))
  BY <1>1, Zenon DEF Resolve, u
<1> HIDE DEF ss
<1>6. ss \in Seq(Seq(ARoot)) /\ Len(ss) = n
  BY <1>1, <1>4
<1>7. /\ FlattenSeq(ss) \in Seq(ARoot)
      /\ \A x : x \in ToSet(FlattenSeq(ss)) <=> \E i \in 1 .. n : x \in ToSet(ss[i])
  BY <1>6, FlattenFacts
<1>8. ASSUME NEW r \in ToSet(FlattenSeq(ss)) PROVE r.path \in Named(g, refs) /\ HeldBy(r, g)
  <2>1. PICK i \in 1 .. n : r \in ToSet(ss[i])
    BY <1>7
  <2>2. r.path \in NamedBy(g, refs[i]) /\ HeldBy(r, g)
    BY <2>1, <1>3 DEF Stand
  <2> QED BY <2>2, <1>1 DEF Named, NamedBy
<1>9. ASSUME NEW p \in Named(g, refs) PROVE \E r \in ToSet(FlattenSeq(ss)) : r.path = p
  <2>1. PICK i \in 1 .. n : p \in NamedBy(g, refs[i])
    BY <1>1 DEF Named, NamedBy
  <2>2. PICK r \in ToSet(ss[i]) : r.path = p
    BY <2>1, <1>3 DEF Stand
  <2> QED BY <2>2, <1>7
<1>10. Stand(FlattenSeq(ss), g, Named(g, refs))
  BY <1>7, <1>8, <1>9 DEF Stand
<1> QED BY <1>5, <1>10, UniqueStand

\* ... and so for the order of the projects followed by the saved roots.
LEMMA SavedIs ==
  ASSUME NEW g \in Global
  PROVE  StandOnce(Saved(g), g, Named(g, g.order) \cup Named(g, g.saved))
<1> DEFINE a == Resolve(g, g.order)
           b == Resolve(g, g.saved)
<1>1. Stand(a, g, Named(g, g.order)) /\ Stand(b, g, Named(g, g.saved))
  BY GlobalFacts, ResolveIs DEF StandOnce
<1> HIDE DEF a, b
<1>2. a \in Seq(ARoot) /\ b \in Seq(ARoot)
  BY <1>1 DEF Stand
<1>3. a \o b \in Seq(ARoot) /\ ToSet(a \o b) = ToSet(a) \cup ToSet(b)
  BY <1>2, ConcatFacts, ConcatSet
<1>4. Stand(a \o b, g, Named(g, g.order) \cup Named(g, g.saved))
  BY <1>1, <1>3 DEF Stand
<1> QED BY <1>4, UniqueStand DEF Saved, a, b

-----------------------------------------------------------------------------
(* Building the index                                                       *)

Sources == {"saved", "active", "pinned", "trusted", "threads"}
Entries == [path : Paths, project : Projects \cup {NoProject}, roots : Seq(Paths), active : BOOLEAN,
            pinned : BOOLEAN, sources : SUBSET Sources, sessions : Nat, last : Values]
Indexes == UNION {[D -> Entries] : D \in SUBSET Paths}

\* An index is a function on directories.
LEMMA IndexFacts ==
  ASSUME NEW index
  PROVE  index \in Indexes <=> DOMAIN index \subseteq Paths /\ index \in [DOMAIN index -> Entries]
<1>1. ASSUME index \in Indexes PROVE DOMAIN index \subseteq Paths /\ index \in [DOMAIN index -> Entries]
  <2>1. PICK D \in SUBSET Paths : index \in [D -> Entries]
    BY <1>1 DEF Indexes
  <2> QED BY <2>1
<1> QED BY <1>1 DEF Indexes

LEMMA EntryFacts ==
  ASSUME NEW e \in Entries
  PROVE  /\ e.path \in Paths /\ e.project \in Projects \cup {NoProject} /\ e.roots \in Seq(Paths)
         /\ e.active \in BOOLEAN /\ e.pinned \in BOOLEAN /\ e.sources \in SUBSET Sources
         /\ e.sessions \in Nat /\ e.last \in Values
         /\ e = [path |-> e.path, project |-> e.project, roots |-> e.roots, active |-> e.active,
                 pinned |-> e.pinned, sources |-> e.sources, sessions |-> e.sessions, last |-> e.last]
  BY DEF Entries

\* What two entries have in common, the list of their sources aside.
SameShown(e, f) ==
    /\ e.path = f.path /\ e.project = f.project /\ e.roots = f.roots /\ e.sessions = f.sessions
    /\ e.active <=> f.active
    /\ e.pinned <=> f.pinned
EntryAt(index, path) == IF path \in DOMAIN index THEN index[path] ELSE NewEntry(path)

LEMMA NewEntryFacts ==
  ASSUME NEW path \in Paths
  PROVE  /\ NewEntry(path) \in Entries /\ NewEntry(path).path = path /\ NewEntry(path).project = NoProject
         /\ NewEntry(path).roots = <<path>>
         /\ ~NewEntry(path).active /\ ~NewEntry(path).pinned /\ NewEntry(path).sessions = 0
  BY DEF NewEntry, Entries, Null, Value, Values

\* An upsert touches one entry and shows what that entry showed.
LEMMA UpsertFacts ==
  ASSUME NEW index \in Indexes, NEW path \in Paths, NEW source \in Sources
  PROVE  /\ Upsert(index, path, source) \in Indexes
         /\ DOMAIN Upsert(index, path, source) = DOMAIN index \cup {path}
         /\ \A q \in DOMAIN index : q # path => Upsert(index, path, source)[q] = index[q]
         /\ SameShown(Upsert(index, path, source)[path], EntryAt(index, path))
<1> DEFINE old == EntryAt(index, path)
           new == [old EXCEPT !.sources = @ \cup {source}]
           D == DOMAIN index \cup {path}
           f == [p \in D |-> IF p = path THEN new ELSE index[p]]
<1>1. DOMAIN index \subseteq Paths /\ \A p \in DOMAIN index : index[p] \in Entries
  BY IndexFacts
<1>2. Upsert(index, path, source) = f
  BY DEF Upsert, EntryAt
<1>3. old \in Entries
  BY <1>1, NewEntryFacts DEF EntryAt
<1> HIDE DEF old
<1>4. new = [path |-> old.path, project |-> old.project, roots |-> old.roots, active |-> old.active,
             pinned |-> old.pinned, sources |-> old.sources \cup {source}, sessions |-> old.sessions,
             last |-> old.last]
  <2>1. old = [path |-> old.path, project |-> old.project, roots |-> old.roots, active |-> old.active,
               pinned |-> old.pinned, sources |-> old.sources, sessions |-> old.sessions, last |-> old.last]
    BY <1>3, EntryFacts
  <2> QED BY <2>1
<1>5. new \in Entries /\ SameShown(new, old)
  BY <1>3, <1>4, EntryFacts DEF Entries, SameShown
<1> HIDE DEF new
<1>6. f \in [D -> Entries] /\ DOMAIN f = D /\ D \in SUBSET Paths /\ f[path] = new
      /\ \A q \in DOMAIN index : q # path => f[q] = index[q]
  BY <1>1, <1>5
<1> HIDE DEF f
<1>7. f \in Indexes
  BY <1>6, IndexFacts
<1> QED BY <1>2, <1>5, <1>6, <1>7 DEF old

\* The identity, the owner and the marks after the upsert of a root.
LEMMA UpsertRootFacts ==
  ASSUME NEW index \in Indexes, NEW r \in ARoot, NEW source \in Sources
  PROVE  LET i == UpsertRoot(index, r, source)
             p == r.path
             old == EntryAt(index, p)
         IN  /\ i \in Indexes /\ DOMAIN i = DOMAIN index \cup {p}
             /\ \A q \in DOMAIN index : q # p => i[q] = index[q]
             /\ i[p].path = old.path /\ i[p].sessions = old.sessions /\ i[p].roots = r.roots
             /\ i[p].project = IF r.project = NoProject THEN old.project ELSE r.project
             /\ i[p].active <=> old.active \/ source = "active"
             /\ i[p].pinned <=> old.pinned \/ source = "pinned"
<1> DEFINE i == UpsertRoot(index, r, source)
           p == r.path
           old == EntryAt(index, p)
           u == Upsert(index, p, source)
           e == u[p]
           new == [path |-> e.path, project |-> IF r.project = NoProject THEN e.project ELSE r.project,
                   roots |-> r.roots, active |-> (e.active \/ source = "active"),
                   pinned |-> (e.pinned \/ source = "pinned"), sources |-> e.sources,
                   sessions |-> e.sessions, last |-> e.last]
<1>1. p \in Paths /\ r.project \in Projects \cup {NoProject} /\ r.roots \in Seq(Paths)
  BY DEF ARoot
<1>2. /\ u \in Indexes /\ DOMAIN u = DOMAIN index \cup {p}
      /\ \A q \in DOMAIN index : q # p => u[q] = index[q]
      /\ SameShown(u[p], old)
  <2> HIDE DEF p
  <2> QED BY <1>1, UpsertFacts
<1>3. i = [u EXCEPT ![p].project = IF r.project = NoProject THEN @ ELSE r.project,
                    ![p].roots = r.roots,
                    ![p].active = @ \/ source = "active",
                    ![p].pinned = @ \/ source = "pinned"]
  BY DEF UpsertRoot
<1> HIDE DEF i, u, old
<1>4. DOMAIN u \subseteq Paths /\ u \in [DOMAIN u -> Entries]
  BY <1>2, IndexFacts
<1>5. e \in Entries
  BY <1>1, <1>2, <1>4
<1>6. DOMAIN i = DOMAIN u /\ \A q \in DOMAIN u : q # p => i[q] = u[q]
  BY <1>3, <1>4
<1>7. i[p] = new
  <2>1. p \in DOMAIN u
    BY <1>2
  <2>2. e = [path |-> e.path, project |-> e.project, roots |-> e.roots, active |-> e.active,
             pinned |-> e.pinned, sources |-> e.sources, sessions |-> e.sessions, last |-> e.last]
    BY <1>5, EntryFacts
  <2> QED BY <1>3, <1>4, <2>1, <2>2
<1>8. new \in Entries
  BY <1>1, <1>5, EntryFacts DEF Entries
<1>9. i \in [DOMAIN i -> Entries]
  BY <1>2, <1>3, <1>4, <1>6, <1>7, <1>8
<1>10. i \in Indexes
  BY <1>4, <1>6, <1>9, IndexFacts
<1>11. /\ i[p].path = old.path /\ i[p].sessions = old.sessions /\ i[p].roots = r.roots
       /\ i[p].project = IF r.project = NoProject THEN old.project ELSE r.project
  BY <1>2, <1>7 DEF SameShown
<1>12. i[p].active <=> old.active \/ source = "active"
  <2>1. i[p].active = (e.active \/ source = "active")
    BY <1>7
  <2>2. e.active <=> old.active
    BY <1>2 DEF SameShown
  <2> HIDE DEF e, p
  <2> QED BY <2>1, <2>2, Zenon
<1>13. i[p].pinned <=> old.pinned \/ source = "pinned"
  <2>1. i[p].pinned = (e.pinned \/ source = "pinned")
    BY <1>7
  <2>2. e.pinned <=> old.pinned
    BY <1>2 DEF SameShown
  <2> HIDE DEF e, p
  <2> QED BY <2>1, <2>2, Zenon
<1>14. DOMAIN i = DOMAIN index \cup {p} /\ \A q \in DOMAIN index : q # p => i[q] = index[q]
  BY <1>2, <1>6
<1> QED BY <1>10, <1>11, <1>12, <1>13, <1>14 DEF i, old

LEMMA UpsertRootTyped ==
  ASSUME NEW index \in Indexes, NEW r \in ARoot, NEW source \in Sources
  PROVE  UpsertRoot(index, r, source) \in Indexes
  BY UpsertRootFacts

LEMMA TrustedTyped ==
  ASSUME NEW index \in Indexes, NEW p \in Paths
  PROVE  Upsert(index, p, "trusted") \in Indexes
<1>1. "trusted" \in Sources
  BY DEF Sources
<1> QED BY <1>1, UpsertFacts

UpsertPaths(index, ps) == FoldLeft(LAMBDA i, p : Upsert(i, p, "trusted"), index, ps)

\* UpsertRoots takes the roots one after the other ...
LEMMA UpsertRootsTrace ==
  ASSUME NEW index \in Indexes, NEW rs \in Seq(ARoot), NEW source \in Sources
  PROVE  \E f \in [0 .. Len(rs) -> Indexes] :
            /\ f[0] = index /\ f[Len(rs)] = UpsertRoots(index, rs, source)
            /\ \A k \in 1 .. Len(rs) : f[k] = UpsertRoot(f[k - 1], rs[k], source)
<1> DEFINE n == Len(rs)
           F == [x \in Indexes \X ARoot |-> UpsertRoot(x[1], x[2], source)]
           IsIt(g) == g = [s \in SUBSET (DOMAIN rs) |->
                             IF s = {} THEN index ELSE UpsertRoot(g[s \ {Max(s)}], rs[Max(s)], source)]
           h == CHOOSE g : IsIt(g)
<1>1. UpsertRoots(index, rs, source) = h[DOMAIN rs]
  BY Zenon DEF UpsertRoots, FoldLeft, MapThenFoldSet
<1>2. n \in Nat /\ DOMAIN rs = 1 .. n /\ rs \in [1 .. n -> ARoot] /\ index \in Indexes
  OBVIOUS
<1>3. F \in [Indexes \X ARoot -> Indexes]
  BY UpsertRootTyped
<1>4. \A a \in Indexes, b \in ARoot : F[<<a, b>>] = UpsertRoot(a, b, source)
  OBVIOUS
<1> HIDE DEF F
<1>5. \A s \in SUBSET (1 .. n) : s # {} => Max(s) \in s
  <2>1. \A s \in SUBSET (1 .. n) : s \in SUBSET (0 .. n)
    BY <1>2
  <2> QED BY <2>1, <1>2, GreatestNumber
<1>6. \E g : IsIt(g)
  <2>1. PICK g \in [SUBSET (1 .. n) -> Indexes] : IsFold(g, F, index, rs, n)
    BY <1>2, <1>3, FoldExists
  <2>2. ASSUME NEW s \in SUBSET (1 .. n), s # {}
        PROVE  g[s] = UpsertRoot(g[s \ {Max(s)}], rs[Max(s)], source)
    <3>1. g[s \ {Max(s)}] \in Indexes /\ rs[Max(s)] \in ARoot
      BY <2>2, <1>5, <1>2, <2>1
    <3>2. g[s] = F[<<g[s \ {Max(s)}], rs[Max(s)]>>]
      BY <2>1, <2>2 DEF IsFold
    <3> QED BY <3>1, <3>2, <1>4
  <2>3. g[{}] = index
    BY <2>1 DEF IsFold
  <2>4. IsIt(g)
    BY <2>1, <2>2, <2>3, <1>2
  <2> QED BY <2>4
<1>7. IsIt(h)
  <2> HIDE DEF IsIt
  <2> QED BY <1>6
<1> HIDE DEF h
<1>8. /\ h[{}] = index
      /\ \A s \in SUBSET (1 .. n) : s # {} => h[s] = UpsertRoot(h[s \ {Max(s)}], rs[Max(s)], source)
  BY <1>7, <1>2, Zenon
<1> HIDE DEF IsIt
<1>9. Follows(h, Indexes, F, index, rs, n)
  <2>1. \A s \in SUBSET (1 .. n) : s # {} => rs[Max(s)] \in ARoot
    BY <1>5, <1>2
  <2> QED BY <2>1, <1>4, <1>8, Zenon DEF Follows
<1>10. PICK f : IsTrace(f, Indexes, F, index, rs, n, h[1 .. n])
  BY <1>2, <1>3, <1>9, FoldTrace
<1>11. ASSUME NEW k \in 1 .. n PROVE f[k] = UpsertRoot(f[k - 1], rs[k], source)
  <2>1. k - 1 \in 0 .. n
    BY <1>2
  <2>2. f[k - 1] \in Indexes /\ rs[k] \in ARoot
    BY <2>1, <1>2, <1>10 DEF IsTrace
  <2> QED BY <2>2, <1>4, <1>10 DEF IsTrace
<1> QED BY <1>1, <1>2, <1>10, <1>11 DEF IsTrace

\* ... so are the trusted directories ...
LEMMA UpsertPathsTrace ==
  ASSUME NEW index \in Indexes, NEW ps \in Seq(Paths)
  PROVE  \E f \in [0 .. Len(ps) -> Indexes] :
            /\ f[0] = index /\ f[Len(ps)] = UpsertPaths(index, ps)
            /\ \A k \in 1 .. Len(ps) : f[k] = Upsert(f[k - 1], ps[k], "trusted")
<1> DEFINE n == Len(ps)
           F == [x \in Indexes \X Paths |-> Upsert(x[1], x[2], "trusted")]
           IsIt(g) == g = [s \in SUBSET (DOMAIN ps) |->
                             IF s = {} THEN index ELSE Upsert(g[s \ {Max(s)}], ps[Max(s)], "trusted")]
           h == CHOOSE g : IsIt(g)
<1>1. UpsertPaths(index, ps) = h[DOMAIN ps]
  BY Zenon DEF UpsertPaths, FoldLeft, MapThenFoldSet
<1>2. n \in Nat /\ DOMAIN ps = 1 .. n /\ ps \in [1 .. n -> Paths] /\ index \in Indexes
  OBVIOUS
<1>3. F \in [Indexes \X Paths -> Indexes]
  BY TrustedTyped
<1>4. \A a \in Indexes, b \in Paths : F[<<a, b>>] = Upsert(a, b, "trusted")
  OBVIOUS
<1> HIDE DEF F
<1>5. \A s \in SUBSET (1 .. n) : s # {} => Max(s) \in s
  <2>1. \A s \in SUBSET (1 .. n) : s \in SUBSET (0 .. n)
    BY <1>2
  <2> QED BY <2>1, <1>2, GreatestNumber
<1>6. \E g : IsIt(g)
  <2>1. PICK g \in [SUBSET (1 .. n) -> Indexes] : IsFold(g, F, index, ps, n)
    BY <1>2, <1>3, FoldExists
  <2>2. ASSUME NEW s \in SUBSET (1 .. n), s # {}
        PROVE  g[s] = Upsert(g[s \ {Max(s)}], ps[Max(s)], "trusted")
    <3>1. g[s \ {Max(s)}] \in Indexes /\ ps[Max(s)] \in Paths
      BY <2>2, <1>5, <1>2, <2>1
    <3>2. g[s] = F[<<g[s \ {Max(s)}], ps[Max(s)]>>]
      BY <2>1, <2>2 DEF IsFold
    <3> QED BY <3>1, <3>2, <1>4
  <2>3. g[{}] = index
    BY <2>1 DEF IsFold
  <2>4. IsIt(g)
    BY <2>1, <2>2, <2>3, <1>2
  <2> QED BY <2>4
<1>7. IsIt(h)
  <2> HIDE DEF IsIt
  <2> QED BY <1>6
<1> HIDE DEF h
<1>8. /\ h[{}] = index
      /\ \A s \in SUBSET (1 .. n) : s # {} => h[s] = Upsert(h[s \ {Max(s)}], ps[Max(s)], "trusted")
  BY <1>7, <1>2, Zenon
<1> HIDE DEF IsIt
<1>9. Follows(h, Indexes, F, index, ps, n)
  <2>1. \A s \in SUBSET (1 .. n) : s # {} => ps[Max(s)] \in Paths
    BY <1>5, <1>2
  <2> QED BY <2>1, <1>4, <1>8, Zenon DEF Follows
<1>10. PICK f : IsTrace(f, Indexes, F, index, ps, n, h[1 .. n])
  BY <1>2, <1>3, <1>9, FoldTrace
<1>11. ASSUME NEW k \in 1 .. n PROVE f[k] = Upsert(f[k - 1], ps[k], "trusted")
  <2>1. k - 1 \in 0 .. n
    BY <1>2
  <2>2. f[k - 1] \in Indexes /\ ps[k] \in Paths
    BY <2>1, <1>2, <1>10 DEF IsTrace
  <2> QED BY <2>2, <1>4, <1>10 DEF IsTrace
<1> QED BY <1>1, <1>2, <1>10, <1>11 DEF IsTrace

\* The index i has the directories dom: those of owned with the projects that own them, those
\* of act and pin active and pinned, each with its count of sessions.
Shows(i, g, dom, owned, act, pin, count) ==
    /\ i \in Indexes /\ DOMAIN i = dom /\ IsFiniteSet(dom) /\ owned \subseteq dom /\ act \subseteq dom /\ pin \subseteq dom
    /\ \A p \in dom :
          /\ i[p].path = p /\ i[p].sessions = count[p]
          /\ i[p].project = IF p \in owned THEN Owner(g, p) ELSE NoProject
          /\ i[p].roots = IF p \in owned THEN Holder(g, p).roots ELSE <<p>>
          /\ i[p].active <=> p \in act
          /\ i[p].pinned <=> p \in pin
    /\ \A p \in Paths : p \notin dom => count[p] = 0

\* What the entry of a directory shows before an upsert.
LEMMA ShownAt ==
  ASSUME NEW i, NEW g, NEW dom, NEW owned, NEW act, NEW pin, NEW count,
         Shows(i, g, dom, owned, act, pin, count), NEW p \in Paths
  PROVE  /\ EntryAt(i, p).path = p /\ EntryAt(i, p).sessions = count[p]
         /\ EntryAt(i, p).project = IF p \in owned THEN Owner(g, p) ELSE NoProject
         /\ EntryAt(i, p).roots = IF p \in owned THEN Holder(g, p).roots ELSE <<p>>
         /\ EntryAt(i, p).active <=> p \in act
         /\ EntryAt(i, p).pinned <=> p \in pin
<1>1. CASE p \in dom
  <2>1. EntryAt(i, p) = i[p]
    BY <1>1 DEF EntryAt, Shows
  <2> QED BY <1>1, <2>1 DEF Shows
<1>2. CASE p \notin dom
  <2>1. EntryAt(i, p) = NewEntry(p) /\ p \notin owned /\ p \notin act /\ p \notin pin /\ count[p] = 0
    BY <1>2 DEF EntryAt, Shows
  <2> QED BY <2>1, NewEntryFacts
<1> QED BY <1>1, <1>2

With(S, condition, T) == IF condition THEN S \cup T ELSE S

\* What an index shows after one root, ...
LEMMA UpsertRootShows ==
  ASSUME NEW i, NEW g, NEW dom, NEW owned, NEW act, NEW pin, NEW count,
         Shows(i, g, dom, owned, act, pin, count),
         NEW r \in ARoot, HeldBy(r, g), NEW source \in Sources
  PROVE  Shows(UpsertRoot(i, r, source), g, dom \cup {r.path}, owned \cup {r.path},
               With(act, source = "active", {r.path}), With(pin, source = "pinned", {r.path}), count)
<1> DEFINE p == r.path
           j == UpsertRoot(i, r, source)
           old == EntryAt(i, p)
           act1 == With(act, source = "active", {p})
           pin1 == With(pin, source = "pinned", {p})
<1>1. p \in Paths
  BY DEF ARoot
<1>2. /\ old.path = p /\ old.sessions = count[p]
      /\ old.project = IF p \in owned THEN Owner(g, p) ELSE NoProject
      /\ old.roots = IF p \in owned THEN Holder(g, p).roots ELSE <<p>>
      /\ old.active <=> p \in act
      /\ old.pinned <=> p \in pin
  BY <1>1, ShownAt
<1>3. /\ j \in Indexes /\ DOMAIN j = dom \cup {p}
      /\ \A q \in dom : q # p => j[q] = i[q]
      /\ j[p].path = old.path /\ j[p].sessions = old.sessions /\ j[p].roots = r.roots
      /\ j[p].project = IF r.project = NoProject THEN old.project ELSE r.project
      /\ j[p].active <=> old.active \/ source = "active"
      /\ j[p].pinned <=> old.pinned \/ source = "pinned"
  <2>1. i \in Indexes /\ DOMAIN i = dom
    BY DEF Shows
  <2>2. LET i1 == UpsertRoot(i, r, source)
            p1 == r.path
            old1 == EntryAt(i, p1)
        IN  /\ i1 \in Indexes /\ DOMAIN i1 = DOMAIN i \cup {p1}
            /\ \A q \in DOMAIN i : q # p1 => i1[q] = i[q]
            /\ i1[p1].path = old1.path /\ i1[p1].sessions = old1.sessions /\ i1[p1].roots = r.roots
            /\ i1[p1].project = IF r.project = NoProject THEN old1.project ELSE r.project
            /\ i1[p1].active <=> old1.active \/ source = "active"
            /\ i1[p1].pinned <=> old1.pinned \/ source = "pinned"
    BY <2>1, UpsertRootFacts
  <2> QED BY <2>1, <2>2, Zenon
<1> HIDE DEF j, old
<1>4. /\ p \in act1 <=> p \in act \/ source = "active"
      /\ p \in pin1 <=> p \in pin \/ source = "pinned"
      /\ \A q : q # p => (q \in act1 <=> q \in act) /\ (q \in pin1 <=> q \in pin)
      /\ act1 \subseteq act \cup {p} /\ pin1 \subseteq pin \cup {p}
  BY DEF With
<1> HIDE DEF act1, pin1
<1>5. ASSUME NEW q \in dom, q # p
      PROVE  /\ j[q].path = q /\ j[q].sessions = count[q]
             /\ j[q].project = IF q \in owned \cup {p} THEN Owner(g, q) ELSE NoProject
             /\ j[q].roots = IF q \in owned \cup {p} THEN Holder(g, q).roots ELSE <<q>>
             /\ j[q].active <=> q \in act1
             /\ j[q].pinned <=> q \in pin1
  BY <1>3, <1>4, <1>5 DEF Shows
<1>6. /\ j[p].path = p /\ j[p].sessions = count[p] /\ j[p].project = Owner(g, p)
      /\ j[p].roots = Holder(g, p).roots
      /\ j[p].active <=> p \in act1
      /\ j[p].pinned <=> p \in pin1
  <2>1. r.project = Owner(g, p) /\ r.roots = Holder(g, p).roots
    BY Zenon DEF HeldBy
  <2> HIDE DEF p
  <2> QED BY <1>2, <1>3, <1>4, <2>1
<1>7. Shows(j, g, dom \cup {p}, owned \cup {p}, act1, pin1, count)
  <2> HIDE DEF p
  <2>1. \A q \in dom \cup {p} :
          /\ j[q].path = q /\ j[q].sessions = count[q]
          /\ j[q].project = IF q \in owned \cup {p} THEN Owner(g, q) ELSE NoProject
          /\ j[q].roots = IF q \in owned \cup {p} THEN Holder(g, q).roots ELSE <<q>>
          /\ j[q].active <=> q \in act1
          /\ j[q].pinned <=> q \in pin1
    BY <1>5, <1>6
  <2>2. \A q \in Paths : q \notin dom \cup {p} => count[q] = 0
    BY DEF Shows
  <2>3. owned \cup {p} \subseteq dom \cup {p} /\ act1 \subseteq dom \cup {p} /\ pin1 \subseteq dom \cup {p}
    BY <1>4 DEF Shows
  <2>4. IsFiniteSet(dom \cup {p})
    BY FS_AddElement DEF Shows
  <2> QED BY <1>3, <2>1, <2>2, <2>3, <2>4 DEF Shows
<1> QED BY <1>7 DEF j, act1, pin1

\* ... after the roots of a source, ...
LEMMA UpsertRootsShow ==
  ASSUME NEW i, NEW g, NEW dom, NEW owned, NEW act, NEW pin, NEW count,
         Shows(i, g, dom, owned, act, pin, count), NEW rs, NEW N, Stand(rs, g, N), NEW source \in Sources
  PROVE  Shows(UpsertRoots(i, rs, source), g, dom \cup N, owned \cup N,
               With(act, source = "active", N), With(pin, source = "pinned", N), count)
<1> DEFINE n == Len(rs)
           P(k) == {rs[x].path : x \in 1 .. k}
           Ok(j, S) == Shows(j, g, dom \cup S, owned \cup S,
                             With(act, source = "active", S), With(pin, source = "pinned", S), count)
<1>1. rs \in Seq(ARoot) /\ n \in Nat /\ ToSet(rs) = {rs[x] : x \in 1 .. n} /\ i \in Indexes
      /\ \A x \in 1 .. n : rs[x] \in ARoot
  BY SeqFacts DEF Stand, Shows
<1>2. PICK f \in [0 .. n -> Indexes] :
         /\ f[0] = i /\ f[n] = UpsertRoots(i, rs, source)
         /\ \A k \in 1 .. n : f[k] = UpsertRoot(f[k - 1], rs[k], source)
  BY <1>1, UpsertRootsTrace
<1> DEFINE T == {k \in Nat : k <= n => Ok(f[k], P(k))}
<1>3. Ok(f[0], P(0))
  <2>1. P(0) = {}
    OBVIOUS
  <2>2. dom \cup {} = dom /\ owned \cup {} = owned
        /\ With(act, source = "active", {}) = act /\ With(pin, source = "pinned", {}) = pin
    BY DEF With
  <2> HIDE DEF P
  <2> QED BY <1>2, <2>1, <2>2
<1>4. ASSUME NEW k \in Nat, k + 1 <= n, Ok(f[k], P(k)) PROVE Ok(f[k + 1], P(k + 1))
  <2>1. k + 1 \in 1 .. n /\ (k + 1) - 1 = k
    BY <1>1, <1>4
  <2> DEFINE r == rs[k + 1]
  <2>2. r \in ARoot /\ HeldBy(r, g) /\ f[k + 1] = UpsertRoot(f[k], r, source)
    <3>1. r \in ToSet(rs) /\ r \in ARoot
      BY <1>1, <2>1
    <3> QED BY <2>1, <1>2, <3>1 DEF Stand
  <2>3. P(k + 1) = P(k) \cup {r.path}
    <3>1. \A x : x \in 1 .. (k + 1) <=> x \in 1 .. k \/ x = k + 1
      OBVIOUS
    <3> QED BY <3>1
  <2> HIDE DEF P, r
  <2> DEFINE j == f[k]
             d == dom \cup P(k)
             o == owned \cup P(k)
             A == With(act, source = "active", P(k))
             B == With(pin, source = "pinned", P(k))
  <2>4. Shows(j, g, d, o, A, B, count)
    BY <1>4
  <2>5. /\ d \cup {r.path} = dom \cup P(k + 1) /\ o \cup {r.path} = owned \cup P(k + 1)
        /\ With(A, source = "active", {r.path}) = With(act, source = "active", P(k + 1))
        /\ With(B, source = "pinned", {r.path}) = With(pin, source = "pinned", P(k + 1))
    BY <2>3 DEF With
  <2> HIDE DEF d, o, A, B, j
  <2>6. Shows(UpsertRoot(j, r, source), g, d \cup {r.path}, o \cup {r.path},
              With(A, source = "active", {r.path}), With(B, source = "pinned", {r.path}), count)
    BY <2>2, <2>4, UpsertRootShows
  <2> QED BY <2>2, <2>5, <2>6 DEF j
<1> HIDE DEF Ok
<1>5. 0 \in T /\ \A k \in Nat : k \in T => k + 1 \in T
  <2>1. \A k \in Nat : k + 1 <= n => k <= n
    BY <1>1
  <2> HIDE DEF P
  <2> QED BY <1>3, <1>4, <2>1
<1>6. n \in T
  <2> HIDE DEF T
  <2> QED BY <1>5, <1>1, Induct
<1>7. Ok(f[n], P(n))
  <2>1. n <= n
    BY <1>1
  <2> QED BY <1>6, <2>1
<1>8. P(n) = N
  <2>1. P(n) = {r.path : r \in ToSet(rs)}
    BY <1>1
  <2> QED BY <2>1 DEF Stand
<1> HIDE DEF P
<1> QED BY <1>2, <1>7, <1>8 DEF Ok

\* ... and after the trusted directories.
LEMMA UpsertPathsShow ==
  ASSUME NEW i, NEW g, NEW dom, NEW owned, NEW act, NEW pin, NEW count,
         Shows(i, g, dom, owned, act, pin, count), NEW ps \in Seq(Paths)
  PROVE  Shows(UpsertPaths(i, ps), g, dom \cup ToSet(ps), owned, act, pin, count)
<1> DEFINE n == Len(ps)
           P(k) == {ps[x] : x \in 1 .. k}
           Ok(j, S) == Shows(j, g, dom \cup S, owned, act, pin, count)
<1>1. n \in Nat /\ ToSet(ps) = P(n) /\ i \in Indexes /\ \A x \in 1 .. n : ps[x] \in Paths
  BY SeqFacts DEF Shows
<1>2. PICK f \in [0 .. n -> Indexes] :
         /\ f[0] = i /\ f[n] = UpsertPaths(i, ps)
         /\ \A k \in 1 .. n : f[k] = Upsert(f[k - 1], ps[k], "trusted")
  BY <1>1, UpsertPathsTrace
<1> DEFINE T == {k \in Nat : k <= n => Ok(f[k], P(k))}
<1>3. Ok(f[0], P(0))
  <2>1. P(0) = {} /\ dom \cup {} = dom
    OBVIOUS
  <2> HIDE DEF P
  <2> QED BY <1>2, <2>1
<1>4. ASSUME NEW k \in Nat, k + 1 <= n, Ok(f[k], P(k)) PROVE Ok(f[k + 1], P(k + 1))
  <2> DEFINE p == ps[k + 1]
             j == f[k]
             l == f[k + 1]
             D == dom \cup P(k)
  <2>1. k + 1 \in 1 .. n /\ (k + 1) - 1 = k
    BY <1>1, <1>4
  <2>2. p \in Paths /\ l = Upsert(j, p, "trusted") /\ "trusted" \in Sources
    BY <2>1, <1>1, <1>2 DEF Sources
  <2>3. dom \cup P(k + 1) = D \cup {p}
    <3>1. \A x : x \in 1 .. (k + 1) <=> x \in 1 .. k \/ x = k + 1
      OBVIOUS
    <3> QED BY <3>1
  <2>4. Shows(j, g, D, owned, act, pin, count)
    BY <1>4
  <2> HIDE DEF P, p, j, l, D
  <2>5. /\ l \in Indexes /\ DOMAIN l = D \cup {p} /\ \A q \in D : q # p => l[q] = j[q]
        /\ SameShown(l[p], EntryAt(j, p))
    <3>1. j \in Indexes /\ DOMAIN j = D
      BY <2>4 DEF Shows
    <3> QED BY <2>2, <3>1, UpsertFacts
  <2>6. /\ l[p].path = p /\ l[p].sessions = count[p]
        /\ l[p].project = IF p \in owned THEN Owner(g, p) ELSE NoProject
        /\ l[p].roots = IF p \in owned THEN Holder(g, p).roots ELSE <<p>>
        /\ l[p].active <=> p \in act
        /\ l[p].pinned <=> p \in pin
    BY <2>2, <2>4, <2>5, ShownAt DEF SameShown
  <2>7. \A q \in D \cup {p} :
          /\ l[q].path = q /\ l[q].sessions = count[q]
          /\ l[q].project = IF q \in owned THEN Owner(g, q) ELSE NoProject
          /\ l[q].roots = IF q \in owned THEN Holder(g, q).roots ELSE <<q>>
          /\ l[q].active <=> q \in act
          /\ l[q].pinned <=> q \in pin
    <3>1. ASSUME NEW q \in D, q # p
          PROVE  /\ l[q].path = q /\ l[q].sessions = count[q]
                 /\ l[q].project = IF q \in owned THEN Owner(g, q) ELSE NoProject
                 /\ l[q].roots = IF q \in owned THEN Holder(g, q).roots ELSE <<q>>
                 /\ l[q].active <=> q \in act
                 /\ l[q].pinned <=> q \in pin
      BY <2>4, <2>5, <3>1 DEF Shows
    <3> QED BY <2>6, <3>1
  <2>8. /\ owned \subseteq D \cup {p} /\ act \subseteq D \cup {p} /\ pin \subseteq D \cup {p}
        /\ \A q \in Paths : q \notin D \cup {p} => count[q] = 0
    BY <2>4 DEF Shows
  <2>10. IsFiniteSet(D \cup {p})
    BY <2>4, FS_AddElement DEF Shows
  <2>9. Shows(l, g, D \cup {p}, owned, act, pin, count)
    BY <2>5, <2>7, <2>8, <2>10 DEF Shows
  <2> QED BY <2>3, <2>9 DEF l
<1> HIDE DEF Ok
<1>5. 0 \in T /\ \A k \in Nat : k \in T => k + 1 \in T
  <2>1. \A k \in Nat : k + 1 <= n => k <= n
    BY <1>1
  <2> HIDE DEF P
  <2> QED BY <1>3, <1>4, <2>1
<1>6. n \in T
  <2> HIDE DEF T
  <2> QED BY <1>5, <1>1, Induct
<1>7. Ok(f[n], P(n))
  <2>1. n <= n
    BY <1>1
  <2> QED BY <1>6, <2>1
<1> HIDE DEF P
<1> QED BY <1>1, <1>2, <1>7 DEF Ok

Zero == [p \in Paths |-> 0]
\* The directories that the global state refers to.
ReferredPaths(g) == Named(g, g.order) \cup Named(g, g.saved) \cup Named(g, g.active) \cup Named(g, g.pinned)

\* The index before any thread is counted.
LEMMA ConfiguredShows ==
  ASSUME NEW g \in Global
  PROVE  Shows(ConfiguredIndex(g), g, ReferredPaths(g) \cup ToSet(g.trusted), ReferredPaths(g),
               Named(g, g.active), Named(g, g.pinned), Zero)
<1> DEFINE S == Named(g, g.order) \cup Named(g, g.saved)
           A == Named(g, g.active)
           P == Named(g, g.pinned)
           i1 == UpsertRoots(<<>>, Saved(g), "saved")
           i2 == UpsertRoots(i1, Resolve(g, g.active), "active")
           i3 == UpsertRoots(i2, Resolve(g, g.pinned), "pinned")
           i4 == UpsertPaths(i3, g.trusted)
<1>1. Shows(<<>>, g, {}, {}, {}, {}, Zero)
  <2>1. DOMAIN <<>> = {} /\ <<>> \in [{} -> Entries]
    OBVIOUS
  <2>2. <<>> \in Indexes
    BY <2>1, IndexFacts
  <2> QED BY <2>1, <2>2, FS_EmptySet DEF Shows, Zero
<1>2. "saved" \in Sources /\ "active" \in Sources /\ "pinned" \in Sources
  BY DEF Sources
<1>3. /\ Stand(Saved(g), g, S) /\ Stand(Resolve(g, g.active), g, A) /\ Stand(Resolve(g, g.pinned), g, P)
  BY GlobalFacts, SavedIs, ResolveIs DEF StandOnce
<1>4. ConfiguredIndex(g) = i4
  BY DEF ConfiguredIndex, UpsertPaths
<1> HIDE DEF S, A, P
<1>5. Shows(i1, g, S, S, {}, {}, Zero)
  <2>1. Shows(i1, g, {} \cup S, {} \cup S, With({}, "saved" = "active", S), With({}, "saved" = "pinned", S), Zero)
    BY <1>1, <1>2, <1>3, UpsertRootsShow
  <2>2. {} \cup S = S /\ With({}, "saved" = "active", S) = {} /\ With({}, "saved" = "pinned", S) = {}
    BY DEF With
  <2> HIDE DEF i1
  <2> QED BY <2>1, <2>2
<1> HIDE DEF i1
<1>6. Shows(i2, g, S \cup A, S \cup A, A, {}, Zero)
  <2>1. Shows(i2, g, S \cup A, S \cup A, With({}, "active" = "active", A), With({}, "active" = "pinned", A), Zero)
    BY <1>2, <1>3, <1>5, UpsertRootsShow
  <2>2. With({}, "active" = "active", A) = A /\ With({}, "active" = "pinned", A) = {}
    BY DEF With
  <2> HIDE DEF i2
  <2> QED BY <2>1, <2>2
<1> HIDE DEF i2
<1>7. Shows(i3, g, (S \cup A) \cup P, (S \cup A) \cup P, A, P, Zero)
  <2> DEFINE T == S \cup A
  <2> HIDE DEF T
  <2>1. Shows(i3, g, T \cup P, T \cup P, With(A, "pinned" = "active", P), With({}, "pinned" = "pinned", P), Zero)
    BY <1>2, <1>3, <1>6, UpsertRootsShow DEF T
  <2>2. With(A, "pinned" = "active", P) = A /\ With({}, "pinned" = "pinned", P) = P
    BY DEF With
  <2> HIDE DEF i3
  <2> QED BY <2>1, <2>2 DEF T
<1> HIDE DEF i3
<1>8. ReferredPaths(g) = (S \cup A) \cup P
  BY DEF ReferredPaths, S, A, P
<1>9. Shows(i4, g, ReferredPaths(g) \cup ToSet(g.trusted), ReferredPaths(g), A, P, Zero)
  BY <1>7, <1>8, GlobalFacts, UpsertPathsShow
<1> QED BY <1>4, <1>9 DEF A, P

-----------------------------------------------------------------------------
(* The sessions                                                             *)

\* A thread adds one session to the entry of its directory.
LEMMA UpsertThreadFacts ==
  ASSUME NEW index \in Indexes, NEW t \in Copy, t.path \in Paths
  PROVE  LET i == UpsertThread(index, t)
             p == t.path
             old == EntryAt(index, p)
         IN  /\ i \in Indexes /\ DOMAIN i = DOMAIN index \cup {p}
             /\ \A q \in DOMAIN index : q # p => i[q] = index[q]
             /\ i[p].path = old.path /\ i[p].sessions = old.sessions + 1 /\ i[p].project = old.project
             /\ i[p].roots = old.roots
             /\ i[p].active <=> old.active
             /\ i[p].pinned <=> old.pinned
<1> DEFINE i == UpsertThread(index, t)
           p == t.path
           old == EntryAt(index, p)
           u == Upsert(index, p, "threads")
           e == u[p]
           new == [path |-> e.path, project |-> e.project, roots |-> e.roots, active |-> e.active,
                   pinned |-> e.pinned, sources |-> e.sources, sessions |-> e.sessions + 1,
                   last |-> IF Timestamp(t).type = "absent" THEN e.last ELSE Timestamp(t)]
<1>1. p \in Paths /\ "threads" \in Sources /\ Timestamp(t) \in Values
  BY CopyFacts DEF Sources, Timestamp
<1>2. /\ u \in Indexes /\ DOMAIN u = DOMAIN index \cup {p}
      /\ \A q \in DOMAIN index : q # p => u[q] = index[q]
      /\ SameShown(u[p], old)
  <2> HIDE DEF p
  <2> QED BY <1>1, UpsertFacts
<1>3. i = [u EXCEPT ![p].sessions = @ + 1, ![p].last = IF Timestamp(t).type = "absent" THEN @ ELSE Timestamp(t)]
  BY <1>1 DEF UpsertThread
<1> HIDE DEF i, u, old
<1>4. DOMAIN u \subseteq Paths /\ u \in [DOMAIN u -> Entries]
  BY <1>2, IndexFacts
<1>5. e \in Entries
  BY <1>1, <1>2, <1>4
<1>6. DOMAIN i = DOMAIN u /\ \A q \in DOMAIN u : q # p => i[q] = u[q]
  BY <1>3, <1>4
<1>7. i[p] = new
  <2>1. p \in DOMAIN u
    BY <1>2
  <2>2. e = [path |-> e.path, project |-> e.project, roots |-> e.roots, active |-> e.active,
             pinned |-> e.pinned, sources |-> e.sources, sessions |-> e.sessions, last |-> e.last]
    BY <1>5, EntryFacts
  <2> QED BY <1>3, <1>4, <2>1, <2>2
<1>8. new \in Entries
  BY <1>1, <1>5, EntryFacts DEF Entries
<1>9. i \in [DOMAIN i -> Entries]
  BY <1>2, <1>3, <1>4, <1>6, <1>7, <1>8
<1>10. i \in Indexes
  BY <1>4, <1>6, <1>9, IndexFacts
<1>11. i[p].path = old.path /\ i[p].sessions = old.sessions + 1 /\ i[p].project = old.project
       /\ i[p].roots = old.roots
  BY <1>2, <1>7 DEF SameShown
<1>12. (i[p].active <=> old.active) /\ (i[p].pinned <=> old.pinned)
  <2>1. i[p].active = e.active /\ i[p].pinned = e.pinned
    BY <1>7
  <2>2. (e.active <=> old.active) /\ (e.pinned <=> old.pinned)
    BY <1>2 DEF SameShown
  <2> HIDE DEF e, p
  <2> QED BY <2>1, <2>2, Zenon
<1>13. DOMAIN i = DOMAIN index \cup {p} /\ \A q \in DOMAIN index : q # p => i[q] = index[q]
  BY <1>2, <1>6
<1> QED BY <1>10, <1>11, <1>12, <1>13 DEF i, old

LEMMA UpsertThreadTyped ==
  ASSUME NEW index \in Indexes, NEW t \in Copy
  PROVE  UpsertThread(index, t) \in Indexes
<1>1. CASE t.path \in Paths
  BY <1>1, UpsertThreadFacts
<1>2. CASE t.path \notin Paths
  BY <1>2 DEF UpsertThread
<1> QED BY <1>1, <1>2

ThreadsIndex(index, ts) == FoldLeft(UpsertThread, index, ts)

\* ... and so are the threads.
LEMMA ThreadsTrace ==
  ASSUME NEW index \in Indexes, NEW ts \in Seq(Copy)
  PROVE  \E f \in [0 .. Len(ts) -> Indexes] :
            /\ f[0] = index /\ f[Len(ts)] = ThreadsIndex(index, ts)
            /\ \A k \in 1 .. Len(ts) : f[k] = UpsertThread(f[k - 1], ts[k])
<1> DEFINE n == Len(ts)
           F == [x \in Indexes \X Copy |-> UpsertThread(x[1], x[2])]
           IsIt(g) == g = [s \in SUBSET (DOMAIN ts) |->
                             IF s = {} THEN index ELSE UpsertThread(g[s \ {Max(s)}], ts[Max(s)])]
           h == CHOOSE g : IsIt(g)
<1>1. ThreadsIndex(index, ts) = h[DOMAIN ts]
  BY Zenon DEF ThreadsIndex, FoldLeft, MapThenFoldSet
<1>2. n \in Nat /\ DOMAIN ts = 1 .. n /\ ts \in [1 .. n -> Copy] /\ index \in Indexes
  OBVIOUS
<1>3. F \in [Indexes \X Copy -> Indexes]
  BY UpsertThreadTyped
<1>4. \A a \in Indexes, b \in Copy : F[<<a, b>>] = UpsertThread(a, b)
  OBVIOUS
<1> HIDE DEF F
<1>5. \A s \in SUBSET (1 .. n) : s # {} => Max(s) \in s
  <2>1. \A s \in SUBSET (1 .. n) : s \in SUBSET (0 .. n)
    BY <1>2
  <2> QED BY <2>1, <1>2, GreatestNumber
<1>6. \E g : IsIt(g)
  <2>1. PICK g \in [SUBSET (1 .. n) -> Indexes] : IsFold(g, F, index, ts, n)
    BY <1>2, <1>3, FoldExists
  <2>2. ASSUME NEW s \in SUBSET (1 .. n), s # {}
        PROVE  g[s] = UpsertThread(g[s \ {Max(s)}], ts[Max(s)])
    <3>1. g[s \ {Max(s)}] \in Indexes /\ ts[Max(s)] \in Copy
      BY <2>2, <1>5, <1>2, <2>1
    <3>2. g[s] = F[<<g[s \ {Max(s)}], ts[Max(s)]>>]
      BY <2>1, <2>2 DEF IsFold
    <3> QED BY <3>1, <3>2, <1>4
  <2>3. g[{}] = index
    BY <2>1 DEF IsFold
  <2>4. IsIt(g)
    BY <2>1, <2>2, <2>3, <1>2
  <2> QED BY <2>4
<1>7. IsIt(h)
  <2> HIDE DEF IsIt
  <2> QED BY <1>6
<1> HIDE DEF h
<1>8. /\ h[{}] = index
      /\ \A s \in SUBSET (1 .. n) : s # {} => h[s] = UpsertThread(h[s \ {Max(s)}], ts[Max(s)])
  BY <1>7, <1>2, Zenon
<1> HIDE DEF IsIt
<1>9. Follows(h, Indexes, F, index, ts, n)
  <2>1. \A s \in SUBSET (1 .. n) : s # {} => ts[Max(s)] \in Copy
    BY <1>5, <1>2
  <2> QED BY <2>1, <1>4, <1>8, Zenon DEF Follows
<1>10. PICK f : IsTrace(f, Indexes, F, index, ts, n, h[1 .. n])
  BY <1>2, <1>3, <1>9, FoldTrace
<1>11. ASSUME NEW k \in 1 .. n PROVE f[k] = UpsertThread(f[k - 1], ts[k])
  <2>1. k - 1 \in 0 .. n
    BY <1>2
  <2>2. f[k - 1] \in Indexes /\ ts[k] \in Copy
    BY <2>1, <1>2, <1>10 DEF IsTrace
  <2> QED BY <2>2, <1>4, <1>10 DEF IsTrace
<1> QED BY <1>1, <1>2, <1>10, <1>11 DEF IsTrace

\* One more session in the directory p.
OneMore(count, p) == [q \in Paths |-> IF q = p THEN count[q] + 1 ELSE count[q]]

\* What an index shows after one thread ...
LEMMA UpsertThreadShows ==
  ASSUME NEW i, NEW g, NEW dom, NEW owned, NEW act, NEW pin, NEW count \in [Paths -> Nat],
         Shows(i, g, dom, owned, act, pin, count), NEW t \in Copy
  PROVE  Shows(UpsertThread(i, t), g, dom \cup ({t.path} \cap Paths), owned, act, pin, OneMore(count, t.path))
<1>1. CASE t.path \notin Paths
  <2>1. UpsertThread(i, t) = i
    BY <1>1 DEF UpsertThread
  <2>2. OneMore(count, t.path) = count
    BY <1>1 DEF OneMore
  <2>3. dom \cup ({t.path} \cap Paths) = dom
    BY <1>1
  <2> QED BY <2>1, <2>2, <2>3
<1>2. CASE t.path \in Paths
  <2> DEFINE p == t.path
             j == UpsertThread(i, t)
             old == EntryAt(i, p)
             c == OneMore(count, p)
  <2>1. i \in Indexes /\ DOMAIN i = dom /\ dom \subseteq Paths
    BY IndexFacts DEF Shows
  <2>2. /\ j \in Indexes /\ DOMAIN j = dom \cup {p}
        /\ \A q \in dom : q # p => j[q] = i[q]
        /\ j[p].path = old.path /\ j[p].sessions = old.sessions + 1 /\ j[p].project = old.project
        /\ j[p].roots = old.roots
        /\ j[p].active <=> old.active
        /\ j[p].pinned <=> old.pinned
    BY <1>2, <2>1, UpsertThreadFacts
  <2>3. /\ old.path = p /\ old.sessions = count[p]
        /\ old.project = IF p \in owned THEN Owner(g, p) ELSE NoProject
        /\ old.roots = IF p \in owned THEN Holder(g, p).roots ELSE <<p>>
        /\ old.active <=> p \in act
        /\ old.pinned <=> p \in pin
    BY <1>2, ShownAt
  <2>4. c[p] = count[p] + 1 /\ \A q \in Paths : q # p => c[q] = count[q]
    BY <1>2 DEF OneMore
  <2>5. dom \cup ({p} \cap Paths) = dom \cup {p} /\ p \in Paths
    BY <1>2
  <2> HIDE DEF j, old, c, p
  <2>6. \A q \in dom \cup {p} :
          /\ j[q].path = q /\ j[q].sessions = c[q]
          /\ j[q].project = IF q \in owned THEN Owner(g, q) ELSE NoProject
          /\ j[q].roots = IF q \in owned THEN Holder(g, q).roots ELSE <<q>>
          /\ j[q].active <=> q \in act
          /\ j[q].pinned <=> q \in pin
    <3>1. ASSUME NEW q \in dom, q # p
          PROVE  /\ j[q].path = q /\ j[q].sessions = c[q]
                 /\ j[q].project = IF q \in owned THEN Owner(g, q) ELSE NoProject
                 /\ j[q].roots = IF q \in owned THEN Holder(g, q).roots ELSE <<q>>
                 /\ j[q].active <=> q \in act
                 /\ j[q].pinned <=> q \in pin
      BY <2>1, <2>2, <2>4, <3>1 DEF Shows
    <3>2. /\ j[p].path = p /\ j[p].sessions = c[p]
          /\ j[p].project = IF p \in owned THEN Owner(g, p) ELSE NoProject
          /\ j[p].roots = IF p \in owned THEN Holder(g, p).roots ELSE <<p>>
          /\ j[p].active <=> p \in act
          /\ j[p].pinned <=> p \in pin
      BY <2>2, <2>3, <2>4
    <3> QED BY <3>1, <3>2
  <2>7. /\ owned \subseteq dom \cup {p} /\ act \subseteq dom \cup {p} /\ pin \subseteq dom \cup {p}
        /\ \A q \in Paths : q \notin dom \cup {p} => c[q] = 0
    BY <2>4 DEF Shows
  <2>9. IsFiniteSet(dom \cup {p})
    BY FS_AddElement DEF Shows
  <2>8. Shows(j, g, dom \cup {p}, owned, act, pin, c)
    BY <2>2, <2>6, <2>7, <2>9 DEF Shows
  <2> QED BY <2>5, <2>8 DEF j, c, p
<1> QED BY <1>1, <1>2

\* Which of the first k threads of ts are in the directory p, and how many they are.
PlacedAt(ts, k, p) == {y \in 1 .. k : ts[y].path = p}
SessionsOf(ts, k) == [p \in Paths |-> Cardinality(PlacedAt(ts, k, p))]

\* The threads of a directory are counted one by one.
LEMMA OneMoreSession ==
  ASSUME NEW ts \in Seq(Copy), NEW k \in Nat, \A p \in Paths : IsFiniteSet(PlacedAt(ts, k, p))
  PROVE  /\ \A p \in Paths : IsFiniteSet(PlacedAt(ts, k + 1, p))
         /\ SessionsOf(ts, k + 1) = OneMore(SessionsOf(ts, k), ts[k + 1].path)
<1>1. k + 1 \notin 1 .. k /\ 1 .. (k + 1) = (1 .. k) \cup {k + 1}
  OBVIOUS
<1>2. ASSUME NEW p \in Paths
      PROVE  /\ IsFiniteSet(PlacedAt(ts, k + 1, p))
             /\ Cardinality(PlacedAt(ts, k + 1, p)) =
                  IF p = ts[k + 1].path THEN Cardinality(PlacedAt(ts, k, p)) + 1 ELSE Cardinality(PlacedAt(ts, k, p))
  <2>1. CASE p = ts[k + 1].path
    <3>1. PlacedAt(ts, k + 1, p) = PlacedAt(ts, k, p) \cup {k + 1}
      BY <1>1, <2>1 DEF PlacedAt
    <3>2. k + 1 \notin PlacedAt(ts, k, p)
      BY <1>1 DEF PlacedAt
    <3> QED BY <2>1, <3>1, <3>2, FS_AddElement
  <2>2. CASE p # ts[k + 1].path
    <3>1. PlacedAt(ts, k + 1, p) = PlacedAt(ts, k, p)
      BY <1>1, <2>2 DEF PlacedAt
    <3> QED BY <2>2, <3>1
  <2> QED BY <2>1, <2>2
<1>3. SessionsOf(ts, k + 1) = OneMore(SessionsOf(ts, k), ts[k + 1].path)
  BY <1>2 DEF SessionsOf, OneMore
<1> QED BY <1>2, <1>3

\* ... and after all of them.
LEMMA ThreadsShow ==
  ASSUME NEW i, NEW g, NEW dom, NEW owned, NEW act, NEW pin, Shows(i, g, dom, owned, act, pin, Zero),
         NEW ts \in Seq(Copy)
  PROVE  Shows(ThreadsIndex(i, ts), g, dom \cup ({ts[x].path : x \in 1 .. Len(ts)} \cap Paths),
               owned, act, pin, SessionsOf(ts, Len(ts)))
<1> DEFINE n == Len(ts)
           P(k) == {ts[x].path : x \in 1 .. k} \cap Paths
           Finite(k) == \A p \in Paths : IsFiniteSet(PlacedAt(ts, k, p))
<1>1. n \in Nat /\ i \in Indexes /\ \A x \in 1 .. n : ts[x] \in Copy
  BY DEF Shows
<1>2. PICK f \in [0 .. n -> Indexes] :
         /\ f[0] = i /\ f[n] = ThreadsIndex(i, ts)
         /\ \A k \in 1 .. n : f[k] = UpsertThread(f[k - 1], ts[k])
  BY <1>1, ThreadsTrace
<1> DEFINE Ok(k) == Finite(k) /\ Shows(f[k], g, dom \cup P(k), owned, act, pin, SessionsOf(ts, k))
           T == {k \in Nat : k <= n => Ok(k)}
<1>3. Ok(0)
  <2>1. 1 .. 0 = {}
    OBVIOUS
  <2>2. P(0) = {} /\ \A p : PlacedAt(ts, 0, p) = {}
    BY <2>1 DEF PlacedAt
  <2>3. Finite(0) /\ SessionsOf(ts, 0) = Zero
    BY <2>2, FS_EmptySet DEF SessionsOf, Zero
  <2>4. dom \cup P(0) = dom
    BY <2>2
  <2> HIDE DEF P, Finite
  <2> QED BY <1>2, <2>3, <2>4
<1>4. ASSUME NEW k \in Nat, k + 1 <= n, Ok(k) PROVE Ok(k + 1)
  <2> DEFINE t == ts[k + 1]
             c == SessionsOf(ts, k)
             d == dom \cup P(k)
             j == f[k]
  <2>1. k + 1 \in 1 .. n /\ (k + 1) - 1 = k
    BY <1>1, <1>4
  <2>2. t \in Copy /\ f[k + 1] = UpsertThread(j, t)
    BY <2>1, <1>1, <1>2
  <2>3. Finite(k + 1) /\ SessionsOf(ts, k + 1) = OneMore(c, t.path)
    BY <1>1, <1>4, OneMoreSession
  <2>4. dom \cup P(k + 1) = d \cup ({t.path} \cap Paths)
    <3>1. \A x : x \in 1 .. (k + 1) <=> x \in 1 .. k \/ x = k + 1
      OBVIOUS
    <3> QED BY <3>1
  <2>5. Shows(j, g, d, owned, act, pin, c)
    BY <1>4
  <2>6. c \in [Paths -> Nat]
    BY <1>4, FS_CardinalityType DEF SessionsOf
  <2> HIDE DEF P, Finite, t, c, d, j
  <2>7. Shows(UpsertThread(j, t), g, d \cup ({t.path} \cap Paths), owned, act, pin, OneMore(c, t.path))
    BY <2>2, <2>5, <2>6, UpsertThreadShows
  <2> QED BY <2>2, <2>3, <2>4, <2>7
<1> HIDE DEF Ok
<1>5. 0 \in T /\ \A k \in Nat : k \in T => k + 1 \in T
  <2>1. \A k \in Nat : k + 1 <= n => k <= n
    BY <1>1
  <2> QED BY <1>3, <1>4, <2>1
<1>6. n \in T
  <2> HIDE DEF T
  <2> QED BY <1>5, <1>1, Induct
<1>7. Ok(n)
  <2>1. n <= n
    BY <1>1
  <2> QED BY <1>6, <2>1
<1> HIDE DEF Finite
<1> QED BY <1>2, <1>7 DEF Ok

\* The index of a global state and of threads.
LEMMA ProjectIndexShows ==
  ASSUME NEW g \in Global, NEW ts \in Seq(Copy)
  PROVE  Shows(ProjectIndexOf(g, ts), g,
               (ReferredPaths(g) \cup ToSet(g.trusted)) \cup ({ts[x].path : x \in 1 .. Len(ts)} \cap Paths),
               ReferredPaths(g), Named(g, g.active), Named(g, g.pinned), SessionsOf(ts, Len(ts)))
<1>1. ProjectIndexOf(g, ts) = ThreadsIndex(ConfiguredIndex(g), ts)
  BY DEF ProjectIndexOf, ThreadsIndex
<1>2. Shows(ConfiguredIndex(g), g, ReferredPaths(g) \cup ToSet(g.trusted), ReferredPaths(g),
            Named(g, g.active), Named(g, g.pinned), Zero)
  BY ConfiguredShows
<1> QED BY <1>1, <1>2, ThreadsShow

\* The index is what IndexIs says of the threads.
LEMMA IndexIsShown ==
  ASSUME NEW g \in Global, NEW ts \in Seq(Copy)
  PROVE  /\ IndexIs(g, ts, ProjectIndexOf(g, ts))
         /\ ProjectIndexOf(g, ts) \in Indexes /\ IsFiniteSet(DOMAIN ProjectIndexOf(g, ts))
         /\ \A p \in DOMAIN ProjectIndexOf(g, ts) : ProjectIndexOf(g, ts)[p].path = p
<1> DEFINE index == ProjectIndexOf(g, ts)
           placed == {ts[x].path : x \in 1 .. Len(ts)} \cap Paths
           dom == (ReferredPaths(g) \cup ToSet(g.trusted)) \cup placed
           count == SessionsOf(ts, Len(ts))
<1>1. DOMAIN ts = 1 .. Len(ts) /\ {t.path : t \in ToSet(ts)} \cap Paths = placed
  BY SeqFacts
<1>2. Shows(index, g, dom, ReferredPaths(g), Named(g, g.active), Named(g, g.pinned), count)
  BY ProjectIndexShows
<1>3. \A p \in Paths : count[p] = Cardinality({x \in DOMAIN ts : ts[x].path = p})
  BY <1>1 DEF SessionsOf, PlacedAt
<1>4. dom \subseteq Paths
  BY <1>2, IndexFacts DEF Shows
<1> HIDE DEF index, count
<1>5. /\ DOMAIN index = dom /\ index \in Indexes /\ IsFiniteSet(dom)
      /\ \A p \in dom :
            /\ index[p].path = p
            /\ index[p].project = IF p \in ReferredPaths(g) THEN Owner(g, p) ELSE NoProject
            /\ index[p].roots = IF p \in ReferredPaths(g) THEN Holder(g, p).roots ELSE <<p>>
            /\ index[p].pinned <=> p \in Named(g, g.pinned)
            /\ index[p].active <=> p \in Named(g, g.active)
            /\ index[p].sessions = Cardinality({x \in DOMAIN ts : ts[x].path = p})
  BY <1>2, <1>3, <1>4 DEF Shows
<1>6. IndexIs(g, ts, index)
  BY <1>1, <1>5 DEF IndexIs, ReferredPaths
<1> QED BY <1>5, <1>6 DEF index

-----------------------------------------------------------------------------
(* The list of projects and its pages                                       *)

LEMMA RankIsNumber ==
  ASSUME NEW g \in Global, NEW p
  PROVE  SavedRank(g, p) \in Nat
<1> DEFINE saved == Saved(g)
           at == {i \in DOMAIN saved : saved[i].path = p}
<1>1. saved \in Seq(ARoot)
  BY SavedIs DEF StandOnce, Stand
<1> HIDE DEF saved
<1>2. Len(saved) \in Nat /\ DOMAIN saved = 1 .. Len(saved)
  BY <1>1
<1>3. at \in SUBSET Nat
  BY <1>2
<1>4. SavedRank(g, p) = IF at = {} THEN Len(saved) + 1 ELSE CHOOSE i \in at : TRUE
  BY DEF SavedRank, saved
<1> HIDE DEF at
<1>5. at # {} => (CHOOSE i \in at : TRUE) \in at
  OBVIOUS
<1>6. CASE at = {}
  BY <1>2, <1>4, <1>6
<1>7. CASE at # {}
  <2>1. SavedRank(g, p) = CHOOSE i \in at : TRUE
    BY <1>4, <1>7
  <2> QED BY <2>1, <1>3, <1>5, <1>7
<1> QED BY <1>6, <1>7

\* The order of list_projects tells any two entries apart.
LEMMA BeforeOrders ==
  ASSUME NEW g \in Global, NEW S \in SUBSET Entries, \A d, e \in S : d.path = e.path => d = e
  PROVE  IsOrderOn({x \in S \X S : Before(g, x[1], x[2])}, S)
<1> DEFINE R == {x \in S \X S : Before(g, x[1], x[2])}
           rank == [e \in S |-> SavedRank(g, e.path)]
           pinned(e) == e.pinned = TRUE
<1>1. \A d, e \in S : <<d, e>> \in R <=> Before(g, d, e)
  OBVIOUS
<1>2. /\ \A e \in S : rank[e] \in Nat /\ e.path \in Nat /\ e.pinned \in BOOLEAN
      /\ \A e \in S : rank[e] = SavedRank(g, e.path)
  BY RankIsNumber, EntryFacts, IndexAssumption
<1> HIDE DEF R, rank
<1>3. ASSUME NEW d \in S, NEW e \in S
      PROVE  <<d, e>> \in R <=> \/ pinned(d) /\ ~pinned(e)
                                \/ /\ pinned(d) <=> pinned(e)
                                   /\ rank[d] < rank[e] \/ (rank[d] = rank[e] /\ d.path < e.path)
  BY <1>1, <1>2 DEF Before
<1> HIDE DEF pinned
<1>4. \A d, e \in S : d = e \/ <<d, e>> \in R \/ <<e, d>> \in R
  <2> SUFFICES ASSUME NEW d \in S, NEW e \in S, d # e PROVE <<d, e>> \in R \/ <<e, d>> \in R
    OBVIOUS
  <2>1. /\ rank[d] < rank[e] \/ rank[e] < rank[d] \/ rank[d] = rank[e]
        /\ d.path < e.path \/ e.path < d.path
    <3>1. d.path # e.path
      OBVIOUS
    <3>2. rank[d] \in Nat /\ rank[e] \in Nat /\ d.path \in Nat /\ e.path \in Nat
      BY <1>2
    <3> QED BY <3>1, <3>2
  <2> QED BY <2>1, <1>3
<1>5. \A d \in S : <<d, d>> \notin R
  BY <1>2, <1>3
<1>6. \A d, e, f \in S : <<d, e>> \in R /\ <<e, f>> \in R => <<d, f>> \in R
  BY <1>2, <1>3
<1>7. IsOrderOn(R, S)
  BY <1>4, <1>5, <1>6 DEF IsOrderOn
<1> QED BY <1>7 DEF R

\* Every entry is listed, the pinned ones come first and no directory comes twice.
LEMMA ListedIs ==
  ASSUME NEW g \in Global, NEW ts, ProjectIndexOf(g, ts) \in Indexes, IsFiniteSet(DOMAIN ProjectIndexOf(g, ts)),
         \A p \in DOMAIN ProjectIndexOf(g, ts) : ProjectIndexOf(g, ts)[p].path = p
  PROVE  /\ Listed(g, ts) \in Seq(Entries)
         /\ ToSet(Listed(g, ts)) = {ProjectIndexOf(g, ts)[p] : p \in DOMAIN ProjectIndexOf(g, ts)}
         /\ \A i, j \in DOMAIN Listed(g, ts) : i < j =>
              /\ ~(Listed(g, ts)[j].pinned /\ ~Listed(g, ts)[i].pinned)
              /\ Listed(g, ts)[i].path # Listed(g, ts)[j].path
<1> DEFINE index == ProjectIndexOf(g, ts)
           D == DOMAIN index
           S == {index[p] : p \in D}
           n == Cardinality(S)
           R == {x \in S \X S : Before(g, x[1], x[2])}
           Ordered(s) == \A i, j \in DOMAIN s : i < j => Before(g, s[i], s[j])
           items == Listed(g, ts)
<1>1. index \in [D -> Entries]
  BY IndexFacts
<1>2. items = CHOOSE s \in [1 .. n -> S] : Ordered(s)
  BY DEF Listed, InOrder
<1>3. \A p \in D : index[p].path = p
  OBVIOUS
<1>4. IsFiniteSet(D)
  OBVIOUS
<1> HIDE DEF index
<1>5. S \in SUBSET Entries /\ \A d, e \in S : d.path = e.path => d = e
  BY <1>1, <1>3
<1>6. IsFiniteSet(S)
  <2>1. index \in Surjection(D, S)
    BY <1>1 DEF Surjection
  <2> QED BY <2>1, <1>4, FS_Surjection
<1> HIDE DEF S
<1>7. IsOrderOn(R, S) /\ n \in Nat
  BY <1>5, <1>6, BeforeOrders, FS_CardinalityType
<1>8. \A s \in [1 .. n -> S] : InOrderOf(s, R) <=> Ordered(s)
  BY DEF InOrderOf
<1> HIDE DEF R
<1>9. \E s \in [1 .. n -> S] : Ordered(s)
  BY <1>6, <1>7, <1>8, OrderedExists
<1> HIDE DEF Ordered, n, items
<1>10. items \in [1 .. n -> S] /\ Ordered(items)
  BY <1>2, <1>9
<1>11. items \in Seq(Entries)
  BY <1>5, <1>7, <1>10
<1>12. InOrderOf(items, R) /\ DOMAIN items = 1 .. n
  BY <1>8, <1>10
<1>13. ASSUME NEW i \in 1 .. n, NEW j \in 1 .. n, i < j
       PROVE  ~(items[j].pinned /\ ~items[i].pinned) /\ items[i].path # items[j].path
  <2> DEFINE d == items[i]
             e == items[j]
  <2>1. d \in S /\ e \in S /\ Before(g, d, e) /\ <<d, e>> \in R
    BY <1>10, <1>12, <1>13 DEF Ordered, InOrderOf
  <2> HIDE DEF d, e
  <2>2. d # e
    BY <2>1, <1>7 DEF IsOrderOn
  <2>3. d.path # e.path
    BY <2>1, <2>2, <1>5
  <2>4. d.pinned \in BOOLEAN /\ e.pinned \in BOOLEAN
    BY <2>1, <1>5, EntryFacts
  <2>5. ~(e.pinned /\ ~d.pinned)
    BY <2>1, <2>4 DEF Before
  <2> QED BY <2>3, <2>5 DEF d, e
<1>14. ToSet(items) = S
  <2>1. IsListOf(items, S)
    BY <1>10 DEF IsListOf, n
  <2>2. HasEachOnce(items, S)
    BY <2>1, <1>6, <1>7, <1>12, OrderedHasAll
  <2>3. ToSet(items) = {items[i] : i \in 1 .. n} /\ \A e \in S : \E i \in 1 .. n : items[i] = e
    BY <2>2, <1>12 DEF ToSet, HasEachOnce, n
  <2> QED BY <2>3, <1>10
<1>15. ToSet(items) = {index[p] : p \in D}
  BY <1>14 DEF S
<1> QED BY <1>11, <1>12, <1>13, <1>15 DEF items, index

\* Asking for the pages by their offsets gives the list.
LEMMA WalkGivesAll ==
  ASSUME NEW S, NEW items \in Seq(S), NEW limit \in Nat \ {0}
  PROVE  WalkOf(items, limit) = items
<1> DEFINE n == Len(items)
           Page1(c) == PageOf(items, Number(c), limit)
           Step(w, c) == Page1(c).items \o (IF Page1(c).next = Null THEN <<>> ELSE w[Page1(c).next.n])
           IsIt(w) == w = [c \in 0 .. n |-> Step(w, c)]
           rest == [c \in 0 .. n |-> SubSeq(items, c + 1, n)]
           given == CHOOSE w : IsIt(w)
<1>1. n \in Nat
  OBVIOUS
<1>2. ASSUME NEW c \in 0 .. n, NEW w, c + limit < n => w[c + limit] = rest[c + limit]
      PROVE  Step(w, c) = rest[c]
  <2> DEFINE page == Page1(c)
  <2>1. page.items = SubSeq(items, c + 1, Min({c + limit, n})) /\ page.next = IF c + limit < n THEN Text(c + limit) ELSE Null
    BY DEF PageOf, UsizeParam, Number, Value
  <2>2. c \in Nat /\ c + limit \in Nat
    BY <1>1
  <2>5. Text(c + limit) # Null /\ Text(c + limit).n = c + limit
    BY DEF Text, Null, Value
  <2> HIDE DEF page, rest
  <2>3. CASE c + limit < n
    <3>1. Min({c + limit, n}) = c + limit
      BY <2>2, <2>3, <1>1, LesserOf
    <3>2. w[c + limit] = SubSeq(items, (c + limit) + 1, n)
      <4>1. c + limit \in 0 .. n
        BY <2>2, <2>3, <1>1
      <4> QED BY <4>1, <2>3, <1>2 DEF rest
    <3>3. Step(w, c) = SubSeq(items, c + 1, c + limit) \o SubSeq(items, (c + limit) + 1, n)
      BY <2>1, <2>5, <2>3, <3>1, <3>2 DEF page
    <3>4. c + 1 \in 1 .. n + 1 /\ c + limit \in (c + 1) - 1 .. n /\ n \in c + limit .. n
      BY <2>2, <2>3, <1>1
    <3>5. Step(w, c) = SubSeq(items, c + 1, n)
      BY <3>3, <3>4, ConcatAdjacentSubSeq
    <3> QED BY <3>5 DEF rest
  <2>4. CASE ~(c + limit < n)
    <3>1. Min({c + limit, n}) = n
      BY <2>2, <2>4, <1>1, LesserOf
    <3>2. Step(w, c) = SubSeq(items, c + 1, n) \o <<>>
      BY <2>1, <2>4, <3>1 DEF page
    <3>3. SubSeq(items, c + 1, n) \in Seq(S)
      <4>1. c + 1 \in Int /\ n \in Int /\ \A i \in c + 1 .. n : items[i] \in S
        BY <2>2, <1>1
      <4> QED BY <4>1, SubSeqProperties
    <3>4. Step(w, c) = SubSeq(items, c + 1, n)
      <4> DEFINE s == SubSeq(items, c + 1, n)
      <4> HIDE DEF s, Step
      <4>1. s \o <<>> = s
        BY <3>3 DEF s
      <4> QED BY <4>1, <3>2 DEF s
    <3> QED BY <3>4 DEF rest
  <2> QED BY <2>3, <2>4
<1>3. IsIt(rest)
  <2>1. \A c \in 0 .. n : rest[c] = Step(rest, c)
    BY <1>2
  <2> HIDE DEF Step
  <2> QED BY <2>1
<1>4. IsIt(given)
  <2> HIDE DEF IsIt
  <2> QED BY <1>3
<1>5. WalkOf(items, limit) = given[0]
  BY Zenon DEF WalkOf
<1> HIDE DEF given, rest
<1>6. \A c \in 0 .. n : given[c] = Step(given, c)
  <2> HIDE DEF Step
  <2> QED BY <1>4
<1> HIDE DEF IsIt, Step
<1> DEFINE T == {k \in Nat : \A c \in 0 .. n : n - c <= k => given[c] = rest[c]}
<1>7. ASSUME NEW c \in 0 .. n, ~(c + limit < n) PROVE given[c] = rest[c]
  BY <1>2, <1>6, <1>7
<1>8. 0 \in T
  <2>1. \A c \in 0 .. n : n - c <= 0 => ~(c + limit < n)
    BY <1>1
  <2> QED BY <2>1, <1>7
<1>9. ASSUME NEW k \in Nat, k \in T PROVE k + 1 \in T
  <2> SUFFICES ASSUME NEW c \in 0 .. n, n - c <= k + 1 PROVE given[c] = rest[c]
    OBVIOUS
  <2>1. c + limit < n => c + limit \in 0 .. n /\ n - (c + limit) <= k
    BY <1>1
  <2>2. c + limit < n => given[c + limit] = rest[c + limit]
    BY <2>1, <1>9
  <2> QED BY <2>2, <1>2, <1>6
<1>10. n \in T
  <2> HIDE DEF T
  <2> QED BY <1>1, <1>8, <1>9, Induct
<1>11. given[0] = rest[0]
  <2>1. 0 \in 0 .. n /\ n - 0 <= n
    BY <1>1
  <2> QED BY <1>10, <2>1
<1>12. rest[0] = items
  <2>1. rest[0] = SubSeq(items, 0 + 1, n) /\ 0 + 1 = 1
    BY <1>1 DEF rest
  <2> QED BY <2>1, SubSeqFull
<1> QED BY <1>5, <1>11, <1>12

-----------------------------------------------------------------------------
(* The inductive invariant                                                  *)

Calls == [kind : {"none", "threads", "projects"}, pc : {"idle", "paging", "done", "failed"},
          limit : Limits \cup {0}, cursor : Cursors, next : Cursors,
          pages : 0 .. (MaxListPages + MaxProjectPages), visited : SUBSET Cursors,
          threads : Seq(Copy), received : SUBSET Copy]
CallType == call \in Calls
StateType ==
    /\ CallType /\ touched \subseteq Ids \cup {NoId}
    /\ walk \in [cursor : Cursors, got : SUBSET (Ids \cup {NoId}), on : BOOLEAN]

\* The answer so far is the merge of the pages so far, and there is more to ask for.
CallInv ==
    /\ MergedOf(call.threads, call.received)
    /\ call.limit # 0 => Len(call.threads) <= call.limit
    /\ call.kind # "threads" => call.limit = 0
    /\ call.pc = "paging" => Asked \in Nat \ {0}
    /\ call.pc = "paging" /\ call.kind = "threads" => walk.on

\* Whoever was not touched was given to the client, is in the answer under way, or comes
\* after the cursor.
Got(c) == c.id \in walk.got
WalkInv ==
    orderly => \A c \in copies : c.id \notin touched =>
        /\ walk.on => c.at < walk.cursor \/ Got(c)
        /\ ~walk.on => Got(c)
        /\ call.pc = "paging" /\ call.kind = "threads" =>
              \/ c.at < call.cursor \/ Got(c)
              \/ \E i \in DOMAIN call.threads : call.threads[i].id = c.id

IInv == ListInv /\ StateType /\ CallInv /\ WalkInv

LEMMA CursorFacts ==
  /\ MaxAt \in Nat /\ Top = MaxAt + 1 /\ End = 0 /\ Top \in Cursors /\ End \in Cursors
  /\ 0 .. MaxAt \subseteq Cursors /\ Cursors \subseteq Nat
  /\ PageSize \in Nat \ {0} /\ MaxListPages \in Nat \ {0} /\ MaxProjectPages \in Nat \ {0}
  /\ Limits \subseteq Nat
  BY ListingsAssumption DEF Top, End, Cursors

LEMMA CallFacts ==
  ASSUME NEW c \in Calls
  PROVE  /\ c.threads \in Seq(Copy) /\ c.received \in SUBSET Copy /\ Len(c.threads) \in Nat
         /\ c.limit \in Nat /\ c.limit \in Limits \cup {0} /\ c.cursor \in Cursors
<1>1. c.threads \in Seq(Copy) /\ c.received \in SUBSET Copy /\ c.limit \in Limits \cup {0} /\ c.cursor \in Cursors
  BY DEF Calls
<1>2. c.limit \in Nat
  BY <1>1, CursorFacts
<1> QED BY <1>1, <1>2

LEMMA NoThreads == MergedOf(<<>>, {}) /\ <<>> \in Seq(Copy) /\ Len(<<>>) = 0
  BY DEF MergedOf

LEMMA InitInv == Init => IInv
<1> SUFFICES ASSUME Init PROVE IInv
  OBVIOUS
<1>1. ListInv
  BY WorldsAssumption DEF Init, ListInv
<1>2. StateType
  <2>1. CallType
    BY CursorFacts, NoThreads DEF Init, CallType, Calls, Idle
  <2> QED BY <2>1, CursorFacts DEF Init, StateType
<1>3. CallInv
  BY NoThreads DEF Init, CallInv, Idle
<1>4. WalkInv
  <2>1. \A c \in copies : c.at < Top
    BY <1>1, CopyFacts, CursorFacts DEF ListInv
  <2> QED BY <2>1 DEF Init, WalkInv, Idle
<1> QED BY <1>1, <1>2, <1>3, <1>4 DEF IInv

\* A thread that moves is the most recent one; it is not among those the client waits for.
LEMMA TouchInv == ASSUME IInv, NEW c \in copies, Touch(c) PROVE IInv'
<1> DEFINE N == {d.at : d \in copies}
           e == [c EXCEPT !.at = Max(N) + 1, !.recency = Moved(@, Max(N) + 1),
                          !.updated = Moved(@, Max(N) + 1)]
<1>1. /\ copies \subseteq Copy /\ IsFiniteSet(copies) /\ c \in Copy
      /\ copies' = (copies \ {c}) \cup {e} /\ touched' = touched \cup {c.id}
      /\ orderly' = orderly /\ call' = call /\ walk' = walk
      /\ Max(N) + 1 <= MaxAt
  BY DEF IInv, ListInv, Touch
<1>2. Max(N) \in N /\ \A d \in copies : d.at <= Max(N)
  <2>4. \A d \in copies : d.at \in 0 .. MaxAt
    <3>1. \A d \in Copy : d.at \in 1 .. MaxAt
      BY CopyFacts
    <3>2. copies \subseteq Copy
      BY <1>1
    <3> QED BY <3>1, <3>2
  <2>1. N \in SUBSET (0 .. MaxAt) /\ N # {}
    BY <2>4
  <2>2. \A d \in copies : d.at \in N
    OBVIOUS
  <2> HIDE DEF N
  <2>3. Max(N) \in N /\ \A y \in N : y <= Max(N)
    BY <2>1, CursorFacts, GreatestNumber
  <2> QED BY <2>2, <2>3
<1>3. Max(N) \in Nat /\ Max(N) + 1 \in 1 .. MaxAt
  <2>1. PICK d \in copies : Max(N) = d.at
    BY <1>2
  <2>2. d \in Copy /\ d.at \in 1 .. MaxAt
    BY <1>1, CopyFacts
  <2>3. Max(N) + 1 <= MaxAt /\ MaxAt \in Nat
    BY <1>1, CursorFacts
  <2> HIDE DEF N
  <2> QED BY <2>1, <2>2, <2>3
<1> HIDE DEF N
<1>4. /\ e \in Copy /\ e.id = c.id /\ e.at = Max(N) + 1
      /\ \A d \in copies : d.at < e.at
  <2> DEFINE at == Max(N) + 1
             recency == Moved(c.recency, at)
             updated == Moved(c.updated, at)
  <2>1. recency \in Values /\ updated \in Values
    <3>1. \A v \in Values : Moved(v, at) \in Values
      BY <1>3 DEF Moved, Value, Values
    <3> QED BY <3>1, <1>1, CopyFacts
  <2>3. e = [c EXCEPT !.at = at, !.recency = recency, !.updated = updated]
    BY DEF e
  <2> HIDE DEF recency, updated
  <2>4. e = [id |-> c.id, at |-> at, live |-> c.live, path |-> c.path, recency |-> recency, updated |-> updated]
    <3>1. c = [id |-> c.id, at |-> c.at, live |-> c.live, path |-> c.path, recency |-> c.recency,
               updated |-> c.updated]
      BY <1>1, CopyFacts
    <3> HIDE DEF e
    <3> QED BY <2>3, <3>1
  <2> HIDE DEF e
  <2>2. e \in Copy /\ e.id = c.id /\ e.at = Max(N) + 1
    BY <2>1, <2>4, <1>1, <1>3, CopyFacts DEF Copy
  <2> QED BY <2>2, <1>1, <1>2, <1>3, CopyFacts
<1> HIDE DEF e
<1>5. ListInv'
  <2>1. copies' \subseteq Copy
    BY <1>1, <1>4
  <2>2. IsFiniteSet(copies')
    BY <1>1, FS_RemoveElement, FS_AddElement
  <2>3. ASSUME orderly, NEW d \in copies', NEW f \in copies', d.at = f.at PROVE d = f
    <3>1. (d \in copies \/ d = e) /\ (f \in copies \/ f = e)
      BY <1>1
    <3>2. CASE d = e \/ f = e
      BY <3>1, <3>2, <2>3, <1>4, <1>1, CopyFacts
    <3>3. CASE d \in copies /\ f \in copies
      BY <3>3, <2>3 DEF IInv, ListInv
    <3> QED BY <3>1, <3>2, <3>3
  <2> QED BY <2>1, <2>2, <2>3, <1>1 DEF IInv, ListInv
<1>6. StateType'
  BY <1>1, CopyFacts DEF IInv, StateType, CallType, Calls
<1>7. CallInv'
  BY <1>1 DEF IInv, CallInv, Asked
<1>8. WalkInv'
  <2>1. \A d \in copies' : d.id \notin touched' => d \in copies /\ d.id \notin touched
    BY <1>1, <1>4
  <2> QED BY <2>1, <1>1 DEF IInv, WalkInv, Got
<1> QED BY <1>5, <1>6, <1>7, <1>8 DEF IInv

LEMMA ListThreadsInv == ASSUME IInv, NEW limit \in Limits, ListThreads(limit) PROVE IInv'
<1>1. /\ walk.on /\ UNCHANGED <<copies, global, orderly, touched, walk>>
      /\ call'.kind = "threads" /\ call'.pc = "paging" /\ call'.limit = limit
      /\ call'.cursor = walk.cursor /\ call'.threads = <<>> /\ call'.received = {}
  BY DEF ListThreads, Idle
<1>2. CallType'
  <2>1. (IF walk.cursor = Top THEN {} ELSE {walk.cursor}) \in SUBSET Cursors /\ walk.cursor \in Cursors
    BY DEF IInv, StateType
  <2> DEFINE visited == IF walk.cursor = Top THEN {} ELSE {walk.cursor}
  <2>2. call' = [kind |-> "threads", pc |-> "paging", limit |-> limit, cursor |-> walk.cursor, next |-> End,
                 pages |-> 0, visited |-> visited, threads |-> <<>>, received |-> {}]
    BY DEF ListThreads, Idle
  <2> HIDE DEF visited
  <2> QED BY <2>1, <2>2, CursorFacts, NoThreads DEF CallType, Calls, visited
<1>3. ListInv' /\ StateType'
  BY <1>1, <1>2 DEF IInv, ListInv, StateType
<1>4. CallInv'
  <2>1. MergedOf(call'.threads, call'.received) /\ Len(call'.threads) = 0
    BY <1>1, NoThreads
  <2>2. Asked' \in Nat \ {0}
    BY <1>1, <2>1, CursorFacts DEF Asked
  <2>3. limit \in Nat
    BY CursorFacts
  <2> QED BY <1>1, <2>1, <2>2, <2>3 DEF CallInv
<1>5. WalkInv'
  BY <1>1 DEF IInv, WalkInv, Got
<1> QED BY <1>3, <1>4, <1>5 DEF IInv

LEMMA ListProjectsInv == ASSUME IInv, ListProjects PROVE IInv'
<1>1. /\ UNCHANGED <<copies, global, orderly, touched, walk>>
      /\ call' = [kind |-> "projects", pc |-> "paging", limit |-> 0, cursor |-> Top, next |-> End,
                  pages |-> 0, visited |-> {}, threads |-> <<>>, received |-> {}]
  BY DEF ListProjects, Idle
<1>2. CallType'
  BY <1>1, CursorFacts, NoThreads DEF CallType, Calls
<1>3. ListInv' /\ StateType'
  BY <1>1, <1>2 DEF IInv, ListInv, StateType
<1>4. CallInv'
  BY <1>1, NoThreads, CursorFacts DEF CallInv, Asked
<1>5. WalkInv'
  BY <1>1 DEF IInv, WalkInv, Got
<1> QED BY <1>3, <1>4, <1>5 DEF IInv

LEMMA PageFailsInv == ASSUME IInv, PageFails PROVE IInv'
<1>1. /\ UNCHANGED <<copies, global, orderly, touched, walk>>
      /\ call' = [call EXCEPT !.pc = "failed"] /\ CallType
  BY DEF PageFails, IInv, StateType
<1>2. CallType' /\ call'.pc = "failed" /\ call'.threads = call.threads /\ call'.received = call.received
      /\ call'.limit = call.limit /\ call'.kind = call.kind
  BY <1>1 DEF CallType, Calls
<1>3. ListInv' /\ StateType'
  BY <1>1, <1>2 DEF IInv, ListInv, StateType
<1>4. CallInv'
  BY <1>2 DEF IInv, CallInv
<1>5. WalkInv'
  BY <1>1, <1>2 DEF IInv, WalkInv, Got
<1> QED BY <1>3, <1>4, <1>5 DEF IInv

\* The call after a page: the items are merged into the answer, the cursor is the one that
\* came with them.
LEMMA PageCall ==
  ASSUME IInv, call.pc = "paging", NEW page \in Answers(call.cursor, Asked)
  PROVE  LET c == AfterPage(page)
         IN  /\ IsPage(page, Asked)
             /\ c.kind = call.kind /\ c.limit = call.limit /\ c.cursor = page.next /\ c.next = page.next
             /\ c.received = call.received \cup ToSet(page.items)
             /\ c.threads \in Seq(Copy) /\ MergedOf(c.threads, c.received)
             /\ c.limit # 0 => Len(c.threads) <= c.limit
             /\ c.pc \in {"paging", "done"}
             /\ c.pc = "paging" /\ c.kind = "threads" /\ c.limit # 0 => Len(c.threads) < c.limit
             /\ c \in Calls
<1> DEFINE m == MergeThreads(call.threads, page.items)
           over == IF call.kind = "threads" THEN ThreadsEnd(m, page) ELSE ProjectsEnd(page)
           pages == IF call.pages >= MaxPages THEN call.pages ELSE call.pages + 1
           pc == IF over THEN "done" ELSE "paging"
           c == [kind |-> call.kind, pc |-> pc, limit |-> call.limit, cursor |-> page.next, next |-> page.next,
                 pages |-> pages, visited |-> call.visited \cup {page.next}, threads |-> m,
                 received |-> call.received \cup ToSet(page.items)]
<1>1. ListInv /\ CallType /\ CallInv
  BY DEF IInv, StateType
<1>2. Asked \in Nat \ {0} /\ call.cursor \in Cursors
  BY <1>1 DEF CallInv, CallType, Calls
<1>3. IsPage(page, Asked)
  BY <1>1, <1>2, AnswersArePages
<1>4. page.items \in Seq(Copy) /\ Len(page.items) <= Asked /\ page.next \in Cursors /\ Len(page.items) \in Nat
  BY <1>3, CursorFacts DEF IsPage
<1>5. call.threads \in Seq(Copy) /\ call.received \in SUBSET Copy /\ MergedOf(call.threads, call.received)
      /\ Len(call.threads) \in Nat /\ call.limit \in Nat
  BY <1>1, CallFacts DEF CallType, CallInv
<1>6. /\ m \in Seq(Copy) /\ MergedOf(m, call.received \cup ToSet(page.items))
      /\ Len(m) <= Len(call.threads) + Len(page.items)
  BY <1>4, <1>5, MergeThreadsKeeps
<1>7. AfterPage(page) = c
  <2>1. call = [kind |-> call.kind, pc |-> call.pc, limit |-> call.limit, cursor |-> call.cursor,
                next |-> call.next, pages |-> call.pages, visited |-> call.visited,
                threads |-> call.threads, received |-> call.received]
    BY <1>1 DEF CallType, Calls
  <2>2. AfterPage(page) = [call EXCEPT !.threads = m, !.received = @ \cup ToSet(page.items),
                     !.next = page.next, !.cursor = page.next, !.visited = @ \cup {page.next},
                     !.pages = pages, !.pc = pc]
    BY Zenon DEF AfterPage
  <2> HIDE DEF m, over, pages, pc
  <2> QED BY <2>1, <2>2
<1>8. Len(m) \in Nat
  BY <1>6
<1>9. call.limit # 0 => Len(m) <= call.limit
  <2> SUFFICES ASSUME call.limit # 0 PROVE Len(m) <= call.limit
    OBVIOUS
  <2>1. Asked = call.limit - Len(call.threads)
    BY DEF Asked
  <2> HIDE DEF m, over, pages, pc, c
  <2>2. Len(page.items) <= call.limit - Len(call.threads)
    BY <2>1, <1>4
  <2>3. Len(m) <= Len(call.threads) + Len(page.items)
    BY <1>6
  <2>4. Len(page.items) \in Nat /\ Len(call.threads) \in Nat /\ call.limit \in Nat /\ Len(m) \in Nat
    BY <1>4, <1>5, <1>8
  <2>5. \A a, b, d, e \in Nat : a <= b + d /\ d <= e - b => a <= e
    OBVIOUS
  <2> QED BY <2>2, <2>3, <2>4, <2>5, Zenon
<1>10. pc \in {"paging", "done"} /\ (pc = "paging" /\ call.kind = "threads" /\ call.limit # 0 => Len(m) < call.limit)
  BY <1>5, <1>8 DEF ThreadsEnd
<1>11. pages \in 0 .. (MaxListPages + MaxProjectPages)
  <2>1. call.pages \in Nat /\ call.pages <= MaxListPages + MaxProjectPages
    BY <1>1, CursorFacts DEF CallType, Calls
  <2>2. MaxPages \in Nat /\ MaxPages <= MaxListPages + MaxProjectPages
    BY CursorFacts DEF MaxPages
  <2> QED BY <2>1, <2>2, CursorFacts
<1>12. ToSet(page.items) \subseteq Copy
  BY <1>4, SeqFacts
<1> HIDE DEF m, over, pages, pc
<1>13. c \in Calls
  BY <1>1, <1>4, <1>6, <1>10, <1>11, <1>12 DEF CallType, Calls
<1> QED BY <1>3, <1>6, <1>7, <1>9, <1>10, <1>13

LEMMA PageInv == ASSUME IInv, Page PROVE IInv'
<1>1. call.pc = "paging" /\ UNCHANGED <<copies, global, orderly, touched>>
  BY DEF Page
<1>2. PICK page \in Answers(call.cursor, Asked) : call' = AfterPage(page) /\ walk' = Walked(AfterPage(page))
  BY DEF Page
<1>3. /\ IsPage(page, Asked)
      /\ call'.kind = call.kind /\ call'.limit = call.limit /\ call'.cursor = page.next /\ call'.next = page.next
      /\ call'.received = call.received \cup ToSet(page.items)
      /\ call'.threads \in Seq(Copy) /\ MergedOf(call'.threads, call'.received)
      /\ call'.limit # 0 => Len(call'.threads) <= call'.limit
      /\ call'.pc \in {"paging", "done"}
      /\ call'.pc = "paging" /\ call'.kind = "threads" /\ call'.limit # 0 => Len(call'.threads) < call'.limit
      /\ CallType'
  BY <1>1, <1>2, PageCall DEF CallType, Calls
<1>4. ListInv /\ StateType /\ CallInv /\ WalkInv
  BY DEF IInv
<1> DEFINE ids == {t.id : t \in ToSet(call'.threads)}
<1>5. ids \subseteq Ids \cup {NoId} /\ \A i \in DOMAIN call'.threads : call'.threads[i].id \in ids
  <2>1. ToSet(call'.threads) \subseteq Copy
    BY <1>3, SeqFacts
  <2>2. \A i \in DOMAIN call'.threads : call'.threads[i] \in ToSet(call'.threads)
    BY DEF ToSet
  <2> QED BY <2>1, <2>2, CopyFacts
<1>6. /\ walk' = IF call'.kind = "threads" /\ call'.pc = "done"
                 THEN [cursor |-> IF page.next = End THEN walk.cursor ELSE page.next,
                       got |-> walk.got \cup ids, on |-> page.next # End]
                 ELSE walk
      /\ page.next \in 0 .. MaxAt
  BY <1>2, <1>3 DEF Walked, IsPage
<1> HIDE DEF ids
<1>7. walk' \in [cursor : Cursors, got : SUBSET (Ids \cup {NoId}), on : BOOLEAN]
  BY <1>4, <1>5, <1>6, CursorFacts DEF StateType
<1>8. ListInv' /\ StateType'
  BY <1>1, <1>3, <1>4, <1>7 DEF ListInv, StateType
<1>9. CallInv'
  <2>1. Len(call'.threads) \in Nat /\ call'.limit \in Nat
    BY <1>3, CallFacts DEF CallType
  <2>2. call'.pc = "paging" => Asked' \in Nat \ {0}
    BY <1>3, <1>4, <2>1, CursorFacts DEF CallInv, Asked
  <2>3. call'.pc = "paging" /\ call'.kind = "threads" => walk'.on
    BY <1>1, <1>3, <1>4, <1>6 DEF CallInv
  <2> QED BY <1>3, <1>4, <2>2, <2>3 DEF CallInv
<1>10. ASSUME orderly, NEW c \in copies, c.id \notin touched
       PROVE  /\ walk'.on => c.at < walk'.cursor \/ c.id \in walk'.got
              /\ ~walk'.on => c.id \in walk'.got
              /\ call'.pc = "paging" /\ call'.kind = "threads" =>
                    \/ c.at < call'.cursor \/ c.id \in walk'.got
                    \/ \E i \in DOMAIN call'.threads : call'.threads[i].id = c.id
  <2>1. c \in Copy /\ c.at \in Nat /\ c.at >= 1
    BY <1>4, CopyFacts DEF ListInv
  <2>2. CASE call.kind # "threads"
    BY <2>2, <1>3, <1>4, <1>6, <1>10 DEF WalkInv, Got
  <2>3. CASE call.kind = "threads"
    <3>1. walk.on
      BY <2>3, <1>1, <1>4 DEF CallInv
    <3>2. \/ c.at < call.cursor \/ c.id \in walk.got
          \/ \E i \in DOMAIN call.threads : call.threads[i].id = c.id
      BY <2>3, <1>1, <1>4, <1>10 DEF WalkInv, Got
    <3>3. c.at < page.next \/ c.id \in walk.got \/ \E i \in DOMAIN call'.threads : call'.threads[i].id = c.id
      <4>1. CASE c.at < call.cursor
        <5>1. Asked \in Nat \ {0} /\ call.cursor \in Cursors /\ page = NextPage(call.cursor, Asked)
          BY <1>1, <1>2, <1>4, <1>10 DEF CallInv, StateType, CallType, Calls, Answers
        <5>2. c \in ToSet(page.items) \/ c.at < page.next
          BY <4>1, <5>1, <1>4, <1>10, NextPageCovers
        <5>3. c \in ToSet(page.items) => \E i \in DOMAIN call'.threads : call'.threads[i].id = c.id
          BY <1>3 DEF MergedOf
        <5> QED BY <5>2, <5>3
      <4>2. CASE \E i \in DOMAIN call.threads : call.threads[i].id = c.id
        <5>1. PICK i \in DOMAIN call.threads : call.threads[i].id = c.id
          BY <4>2
        <5>2. \E d \in call.received : d.id = c.id
          <6>1. \/ call.threads[i] \in call.received
                \/ MadeOf(call.threads[i], CopiesOf(call.received, c.id))
            BY <5>1, <1>4 DEF CallInv, MergedOf
          <6>2. MadeOf(call.threads[i], CopiesOf(call.received, c.id)) => CopiesOf(call.received, c.id) # {}
            BY DEF MadeOf
          <6> QED BY <5>1, <6>1, <6>2 DEF CopiesOf
        <5> QED BY <5>2, <1>3 DEF MergedOf
      <4> QED BY <3>2, <4>1, <4>2
    <3>4. CASE call'.pc = "paging"
      BY <3>1, <3>3, <3>4, <2>3, <1>3, <1>4, <1>6, <1>10 DEF WalkInv, Got
    <3>5. CASE call'.pc = "done"
      <4>1. /\ walk'.cursor = (IF page.next = End THEN walk.cursor ELSE page.next)
            /\ walk'.got = walk.got \cup ids /\ (walk'.on <=> page.next # End)
        BY <3>5, <2>3, <1>3, <1>6
      <4>2. c.at < page.next \/ c.id \in walk'.got
        BY <3>3, <4>1, <1>5
      <4>3. page.next = End => c.id \in walk'.got
        BY <4>2, <2>1, CursorFacts
      <4> QED BY <4>1, <4>2, <4>3, <3>5
    <3> QED BY <3>4, <3>5, <1>3
  <2> QED BY <2>2, <2>3
<1>11. WalkInv'
  BY <1>1, <1>10 DEF WalkInv, Got
<1> QED BY <1>8, <1>9, <1>11 DEF IInv

LEMMA StepInv == IInv /\ [Next]_vars => IInv'
<1> SUFFICES ASSUME IInv, [Next]_vars PROVE IInv'
  OBVIOUS
<1>1. ASSUME NEW c \in copies, Touch(c) PROVE IInv'
  BY <1>1, TouchInv
<1>2. ASSUME NEW limit \in Limits, ListThreads(limit) PROVE IInv'
  BY <1>2, ListThreadsInv
<1>3. CASE ListProjects
  BY <1>3, ListProjectsInv
<1>4. CASE Page
  BY <1>4, PageInv
<1>5. CASE PageFails
  BY <1>5, PageFailsInv
<1>6. CASE UNCHANGED vars
  BY <1>6 DEF vars, IInv, ListInv, StateType, CallType, Calls, CallInv, Asked, WalkInv, Got
<1> QED BY <1>1, <1>2, <1>3, <1>4, <1>5, <1>6 DEF Next

LEMMA Invariance == Spec => []IInv
<1>1. Init => IInv
  BY InitInv
<1>2. IInv /\ [Next]_vars => IInv'
  BY StepInv
<1> QED BY <1>1, <1>2, PTL DEF Spec

\* The files do not change while a listing runs.
LEMMA GlobalTyped == Spec => [](global \in Global)
<1>1. Init => global \in Global
  BY WorldsAssumption DEF Init
<1>2. global \in Global /\ [Next]_vars => (global \in Global)'
  <2> SUFFICES ASSUME [Next]_vars PROVE global' = global
    OBVIOUS
  <2> QED BY DEF Next, vars, Touch, ListThreads, ListProjects, Page, PageFails
<1> QED BY <1>1, <1>2, PTL DEF Spec

-----------------------------------------------------------------------------
(* The theorems                                                             *)

\* The listing keeps its types: the cursor, the pages and the copies stay in their bounds
\* and a listing that goes on asks for at least one item (request_unique_threads asks for
\* what is missing to the limit).
THEOREM TypeCorrect == Spec => []TypeOK
<1>1. IInv => TypeOK
  <2> SUFFICES ASSUME IInv PROVE TypeOK
    OBVIOUS
  <2>1. ToSet(call.threads) \subseteq Copy
    BY SeqFacts DEF IInv, StateType, CallType, Calls
  <2> QED BY <2>1 DEF IInv, ListInv, StateType, CallType, Calls, CallInv, TypeOK
<1> QED BY <1>1, Invariance, PTL

\* Following nextCursor to the end gives every thread that Codex lists and nobody used
\* meanwhile: request_unique_threads answers with a cursor behind which nothing is left out,
\* for every list, limit and page size.
THEOREM NothingIsSkipped == Spec => []NothingSkipped
<1>1. IInv => NothingSkipped
  BY DEF IInv, WalkInv, Got, NothingSkipped
<1> QED BY <1>1, Invariance, PTL

\* Merging copy by copy gives each thread once, no more of them than asked for, live if any
\* copy was, with every field that any copy had, and as the most recent copy when the dates of
\* the copies are of one kind; a record without an id is given as it is (the merge of the
\* copies of a thread in request_unique_threads and read_thread_projects).
THEOREM AnswersAreMerged == Spec => []AnswerIsMerged
<1>1. IInv => AnswerIsMerged
  <2> SUFFICES ASSUME IInv PROVE AnswerIsMerged
    OBVIOUS
  <2> DEFINE threads == call.threads
             R == call.received
             n == Len(threads)
  <2>1. threads \in Seq(Copy) /\ R \in SUBSET Copy /\ MergedOf(threads, R)
        /\ (call.limit # 0 => n <= call.limit)
    BY DEF IInv, StateType, CallType, Calls, CallInv
  <2> HIDE DEF threads, R
  <2>2. /\ DOMAIN threads = 1 .. n
        /\ \A i \in 1 .. n : threads[i] \in ToSet(threads)
        /\ \A t \in ToSet(threads) : \E i \in 1 .. n : t = threads[i]
    BY <2>1, SeqFacts
  <2>3. \A t \in ToSet(threads) : IF t.id = NoId THEN t \in R ELSE MadeOf(t, CopiesOf(R, t.id))
    BY <2>1, <2>2 DEF MergedOf
  <2>4. \A c \in R : \E t \in ToSet(threads) : t.id = c.id /\ (c.id = NoId => t = c)
    BY <2>1, <2>2 DEF MergedOf
  <2>5. \A t \in ToSet(threads) : \E c \in R : c.id = t.id
    BY <2>3 DEF MadeOf, CopiesOf
  <2>6. {t.id : t \in ToSet(threads)} = {c.id : c \in R}
    BY <2>4, <2>5
  <2>7. {t \in ToSet(threads) : t.id = NoId} = {c \in R : c.id = NoId}
    BY <2>3, <2>4
  <2>8. \A i, j \in DOMAIN threads : threads[i].id = threads[j].id => i = j \/ threads[i].id = NoId
    BY <2>1 DEF MergedOf
  <2>9. \A t \in ToSet(threads) : t.id # NoId => MadeOf(t, {c \in R : c.id = t.id})
    BY <2>3 DEF CopiesOf
  <2> QED BY <2>1, <2>6, <2>7, <2>8, <2>9 DEF AnswerIsMerged, threads, R
<1> QED BY <1>1, Invariance, PTL

\* listProjects shows the directories that its sources name, with the project that owns
\* each, its marks and its sessions, and its pages, asked for by their offsets as numbers, give
\* that list, the pinned projects first and no directory twice: for every global state, every
\* list of threads and every limit.  A cursor sent back as the text it was given as is another
\* matter: see CursorAdvances
\* (state_project_roots, resolve_state_project_references and list_projects).
THEOREM ProjectsAreRight == Spec => []IndexIsRight
<1>1. IInv /\ global \in Global => IndexIsRight
  <2> DEFINE ts == call.threads
             index == ProjectIndexOf(global, ts)
             items == Listed(global, ts)
  <2> SUFFICES ASSUME IInv, global \in Global
               PROVE  /\ IndexIs(global, ts, index)
                      /\ ToSet(items) = {index[p] : p \in DOMAIN index}
                      /\ \A limit \in Limits \ {0} : PagesCover(items, limit)
    BY DEF IndexIsRight
  <2>1. ts \in Seq(Copy)
    BY DEF IInv, StateType, CallType, Calls
  <2>2. /\ IndexIs(global, ts, index) /\ index \in Indexes /\ IsFiniteSet(DOMAIN index)
        /\ \A p \in DOMAIN index : index[p].path = p
    BY <2>1, IndexIsShown
  <2>3. /\ items \in Seq(Entries) /\ ToSet(items) = {index[p] : p \in DOMAIN index}
        /\ \A i, j \in DOMAIN items : i < j =>
              ~(items[j].pinned /\ ~items[i].pinned) /\ items[i].path # items[j].path
    BY <2>2, ListedIs
  <2> HIDE DEF items
  <2>4. ASSUME NEW limit \in Limits \ {0} PROVE PagesCover(items, limit)
    <3>1. limit \in Nat \ {0}
      BY CursorFacts
    <3>2. WalkOf(items, limit) = items
      BY <2>3, <3>1, WalkGivesAll
    <3> QED BY <2>3, <3>2 DEF PagesCover
  <2> QED BY <2>2, <2>3, <2>4
<1> QED BY <1>1, Invariance, GlobalTyped, PTL

\* While a listing goes on it has pages left, and each page takes one of them: whatever
\* cursors Codex answers, request_unique_threads asks for no more than MAX_THREAD_LIST_PAGES
\* pages and read_thread_projects for no more than maxThreadPages.
PagesLeft == call.pc = "paging" => call.pages \in Nat /\ call.pages < MaxPages
PageCounts == [][Page => call'.pages = call.pages + 1 /\ call'.pages <= MaxPages']_vars
THEOREM PagesAreBounded == Spec => []PagesLeft /\ PageCounts
<1>1. Init => PagesLeft
  BY DEF Init, Idle, PagesLeft
<1>2. ASSUME IInv, PagesLeft, Page
      PROVE  PagesLeft' /\ call'.pages = call.pages + 1 /\ call'.pages <= MaxPages'
  <2>1. PICK page \in Answers(call.cursor, Asked) : call' = AfterPage(page)
    BY <1>2 DEF Page
  <2>2. call \in Calls /\ call.pc = "paging" /\ call.pages \in Nat /\ call.pages < MaxPages
    BY <1>2 DEF IInv, StateType, CallType, PagesLeft, Page
  <2>3. MaxListPages \in Nat \ {0} /\ MaxProjectPages \in Nat \ {0}
    BY CursorFacts
  <2> DEFINE threads == MergeThreads(call.threads, page.items)
             ends == IF call.kind = "threads" THEN ThreadsEnd(threads, page) ELSE ProjectsEnd(page)
  <2>4. /\ call'.kind = call.kind /\ call'.pc = (IF ends THEN "done" ELSE "paging")
        /\ call'.pages = IF call.pages >= MaxPages THEN call.pages ELSE call.pages + 1
    BY <2>1, <2>2 DEF AfterPage, Calls
  <2>5. call.pages + 1 = MaxPages => ends
    BY <2>2 DEF MaxPages, ThreadsEnd, ProjectsEnd
  <2> HIDE DEF ends
  <2>6. MaxPages' = MaxPages /\ MaxPages \in Nat
    BY <2>3, <2>4 DEF MaxPages
  <2>7. call'.pages = call.pages + 1 /\ call'.pages <= MaxPages'
    BY <2>2, <2>4, <2>6
  <2>8. PagesLeft'
    <3> SUFFICES ASSUME call'.pc = "paging" PROVE call'.pages \in Nat /\ call'.pages < MaxPages'
      BY DEF PagesLeft
    <3>1. ~ends
      BY <2>4
    <3> QED BY <3>1, <2>2, <2>5, <2>6, <2>7
  <2> QED BY <2>7, <2>8
<1>3. ASSUME IInv, PagesLeft, [Next]_vars PROVE PagesLeft'
  <2>1. CASE Page
    BY <1>2, <1>3, <2>1
  <2>2. CASE UNCHANGED call
    BY <1>3, <2>2 DEF PagesLeft, MaxPages
  <2>3. ASSUME NEW limit \in Limits, ListThreads(limit) PROVE PagesLeft'
    <3>1. call'.pages = 0 /\ call'.kind = "threads"
      BY <2>3 DEF ListThreads, Idle
    <3> QED BY <3>1, CursorFacts DEF PagesLeft, MaxPages
  <2>4. CASE ListProjects
    <3>1. call'.pages = 0 /\ call'.kind = "projects"
      BY <2>4 DEF ListProjects, Idle
    <3> QED BY <3>1, CursorFacts DEF PagesLeft, MaxPages
  <2>5. CASE PageFails
    <3>1. call'.pc # "paging"
      <4>1. call \in Calls
        BY <1>3 DEF IInv, StateType, CallType
      <4> QED BY <4>1, <2>5 DEF PageFails, Calls
    <3> QED BY <3>1 DEF PagesLeft
  <2> QED BY <1>3, <2>1, <2>2, <2>3, <2>4, <2>5 DEF Next, vars, Touch
<1>4. IInv /\ PagesLeft /\ [Next]_vars => [Page => call'.pages = call.pages + 1 /\ call'.pages <= MaxPages']_vars
  BY <1>2
<1> QED BY <1>1, <1>3, <1>4, Invariance, PTL DEF Spec, PageCounts
=============================================================================
