--------------------------- MODULE GroebnerProofs ---------------------------
(***************************************************************************)
(* Groebner, for every quiver, prime, presentation and bound: the order of *)
(* paths is a well-founded monomial order, every reduction descends in it, *)
(* every rule that completion adds is new and their number is bounded, the *)
(* cleanup leaves an antichain with the same basis, and the certificate    *)
(* leaves no ambiguity out.                                                *)
(***************************************************************************)
EXTENDS Confluence, SequenceTheorems, FunctionTheorems, FiniteSetTheorems, WellFoundedInduction, TLAPS

\* Least-number principle, from the well-founded order of the naturals.
LEMMA LeastNumber ==
  ASSUME NEW S \in SUBSET Nat, S # {}
  PROVE  \E m \in S : \A k \in S : m <= k
<1> DEFINE R == {p \in Nat \X Nat : p[1] < p[2]}
<1>1. OpToRel(<, Nat) = R
  BY Zenon DEF OpToRel
<1>2. IsWellFoundedOn(R, Nat)
  BY <1>1, NatLessThanWellFounded, Zenon
<1>3. PICK m \in S : \A k \in S : ~(<<k, m>> \in R)
  <2> HIDE DEF R
  <2> QED
    BY <1>2, WFMin
<1>4. \A k \in S : k < m => <<k, m>> \in R
  OBVIOUS
<1> HIDE DEF R
<1>5. ASSUME NEW k \in S PROVE m <= k
  <2>1. ~(k < m)
    BY <1>3, <1>4, Zenon
  <2>2. k \in Nat /\ m \in Nat
    OBVIOUS
  <2> QED
    BY <2>1, <2>2
<1> QED
  BY <1>3, <1>5

-----------------------------------------------------------------------------
(* The order of paths, order.py. *)

\* Every word is a sequence of numbers.
LEMMA NumberSeq ==
  ASSUME NEW u \in Seq(Nat)
  PROVE  /\ Len(u) \in Nat /\ DOMAIN u = 1..Len(u)
         /\ \A k \in 1..Len(u) : u[k] \in Nat
  OBVIOUS

\* The first place where two words of the same length differ.
Differ(u, v, i) == i \in 1..Len(u) /\ u[i] < v[i] /\ \A j \in 1..(i - 1) : u[j] = v[j]

LEMMA LessMeans ==
  ASSUME NEW u \in Seq(Nat), NEW v \in Seq(Nat)
  PROVE  Less(u, v) <=> Len(u) < Len(v) \/ (Len(u) = Len(v) /\ \E i : Differ(u, v, i))
  BY NumberSeq DEF Less, Differ

LEMMA DifferOnce ==
  ASSUME NEW u \in Seq(Nat), NEW v \in Seq(Nat), Len(u) = Len(v),
         NEW i, NEW k, Differ(u, v, i), Differ(v, u, k)
  PROVE  FALSE
<1>1. i \in Nat /\ k \in Nat /\ i >= 1 /\ k >= 1
  BY NumberSeq DEF Differ
<1>2. u[i] \in Nat /\ v[i] \in Nat /\ u[k] \in Nat /\ v[k] \in Nat
  BY NumberSeq DEF Differ
<1>3. u[i] < v[i] /\ v[k] < u[k]
  BY DEF Differ
<1>4. i < k => v[i] = u[i]
  <2>1. ASSUME i < k PROVE i \in 1..(k - 1)
    BY <1>1, <2>1
  <2> QED
    BY <2>1 DEF Differ
<1>5. k < i => u[k] = v[k]
  <2>1. ASSUME k < i PROVE k \in 1..(i - 1)
    BY <1>1, <2>1
  <2> QED
    BY <2>1 DEF Differ
<1> QED
  BY <1>1, <1>2, <1>3, <1>4, <1>5

LEMMA LessIsStrict ==
  ASSUME NEW u \in Seq(Nat), NEW v \in Seq(Nat), Less(u, v)
  PROVE  ~Less(v, u)
<1>1. Len(u) \in Nat /\ Len(v) \in Nat
  BY NumberSeq
<1>2. CASE Len(u) < Len(v)
  <2>1. ~(Len(v) < Len(u))
    BY <1>1, <1>2
  <2>2. Len(v) # Len(u)
    BY <1>1, <1>2
  <2> QED
    BY <2>1, <2>2, LessMeans
<1>3. CASE Len(u) = Len(v)
  <2>1. ~(Len(v) < Len(u))
    BY <1>1, <1>3
  <2>2. \E i : Differ(u, v, i)
    BY <1>1, <1>3, LessMeans
  <2>3. ~\E k : Differ(v, u, k)
    BY <1>3, <2>2, DifferOnce
  <2> QED
    BY <2>1, <2>3, LessMeans
<1> QED
  BY <1>2, <1>3, LessMeans

LEMMA DifferInTurn ==
  ASSUME NEW u \in Seq(Nat), NEW v \in Seq(Nat), NEW w \in Seq(Nat),
         Len(u) = Len(v), Len(v) = Len(w),
         NEW i, NEW k, Differ(u, v, i), Differ(v, w, k)
  PROVE  \E l : Differ(u, w, l)
<1>1. i \in 1..Len(u) /\ k \in 1..Len(u) /\ Len(u) \in Nat
  BY NumberSeq DEF Differ
<1>2. /\ u[i] \in Nat /\ v[i] \in Nat /\ w[i] \in Nat
      /\ u[k] \in Nat /\ v[k] \in Nat /\ w[k] \in Nat
  BY <1>1, NumberSeq
<1>3. u[i] < v[i] /\ v[k] < w[k]
  BY DEF Differ
<1>4. /\ \A j \in 1..(i - 1) : u[j] = v[j]
      /\ \A j \in 1..(k - 1) : v[j] = w[j]
  BY DEF Differ
<1>5. CASE i < k
  <2>1. v[i] = w[i]
    <3>1. i \in 1..(k - 1)
      BY <1>1, <1>5
    <3> QED
      BY <3>1, <1>4
  <2>2. \A j \in 1..(i - 1) : u[j] = w[j]
    <3>1. ASSUME NEW j \in 1..(i - 1) PROVE j \in 1..(k - 1)
      BY <1>1, <1>5
    <3> QED
      BY <3>1, <1>4
  <2>3. u[i] < w[i]
    BY <1>2, <1>3, <2>1
  <2> QED
    BY <1>1, <2>2, <2>3 DEF Differ
<1>6. CASE k <= i
  <2>1. u[k] <= v[k]
    <3>1. CASE k = i
      BY <1>2, <1>3, <3>1
    <3>2. CASE k < i
      <4>1. k \in 1..(i - 1)
        BY <1>1, <3>2
      <4> QED
        BY <4>1, <1>2, <1>4
    <3> QED
      BY <1>1, <1>6, <3>1, <3>2
  <2>2. \A j \in 1..(k - 1) : u[j] = w[j]
    <3>1. ASSUME NEW j \in 1..(k - 1) PROVE j \in 1..(i - 1)
      BY <1>1, <1>6
    <3> QED
      BY <3>1, <1>4
  <2>3. u[k] < w[k]
    BY <1>2, <1>3, <2>1
  <2> QED
    BY <1>1, <2>2, <2>3 DEF Differ
<1> QED
  BY <1>1, <1>5, <1>6

LEMMA LessIsTransitive ==
  ASSUME NEW u \in Seq(Nat), NEW v \in Seq(Nat), NEW w \in Seq(Nat), Less(u, v), Less(v, w)
  PROVE  Less(u, w)
<1>1. Len(u) \in Nat /\ Len(v) \in Nat /\ Len(w) \in Nat
  BY NumberSeq
<1>2. /\ Len(u) < Len(v) \/ (Len(u) = Len(v) /\ \E i : Differ(u, v, i))
      /\ Len(v) < Len(w) \/ (Len(v) = Len(w) /\ \E i : Differ(v, w, i))
  BY LessMeans
<1>3. CASE Len(u) = Len(v) /\ Len(v) = Len(w)
  <2>1. (\E i : Differ(u, v, i)) /\ (\E i : Differ(v, w, i))
    BY <1>1, <1>2, <1>3
  <2>2. \E l : Differ(u, w, l)
    BY <1>3, <2>1, DifferInTurn
  <2> QED
    BY <1>3, <2>2, LessMeans
<1>4. CASE ~(Len(u) = Len(v) /\ Len(v) = Len(w))
  <2>1. Len(u) < Len(w)
    BY <1>1, <1>2, <1>4
  <2> QED
    BY <2>1, LessMeans
<1> QED
  BY <1>3, <1>4

\* Any two words compare (order.py:15, "Total").
THEOREM OrderIsTotal ==
  ASSUME NEW u \in Seq(Nat), NEW v \in Seq(Nat), u # v
  PROVE  Less(u, v) \/ Less(v, u)
<1>1. Len(u) \in Nat /\ Len(v) \in Nat
  BY NumberSeq
<1>2. CASE Len(u) # Len(v)
  <2>1. Len(u) < Len(v) \/ Len(v) < Len(u)
    BY <1>1, <1>2
  <2> QED
    BY <2>1, LessMeans
<1>3. CASE Len(u) = Len(v)
  <2> DEFINE D == {k \in 1..Len(u) : u[k] # v[k]}
  <2>1. D # {}
    BY <1>3, SeqEqual
  <2>2. D \in SUBSET Nat
    BY <1>1
  <2>3. PICK i \in D : \A k \in D : i <= k
    <3> HIDE DEF D
    <3> QED
      BY <2>1, <2>2, LeastNumber
  <2>4. i \in 1..Len(u) /\ u[i] # v[i]
    BY <2>3
  <2>5. ASSUME NEW j \in 1..(i - 1) PROVE u[j] = v[j]
    <3>1. j \in 1..Len(u) /\ j < i
      BY <1>1, <2>4
    <3>2. ~(i <= j)
      BY <1>1, <2>4, <3>1
    <3> QED
      BY <2>3, <3>1, <3>2
  <2>6. u[i] < v[i] \/ v[i] < u[i]
    <3>1. u[i] \in Nat /\ v[i] \in Nat
      BY <1>3, <2>4, NumberSeq
    <3> QED
      BY <2>4, <3>1
  <2>7. Differ(u, v, i) \/ Differ(v, u, i)
    BY <1>3, <2>4, <2>5, <2>6 DEF Differ
  <2> QED
    BY <1>3, <2>7, LessMeans
<1> QED
  BY <1>2, <1>3

\* No set of words goes down for ever (order.py:16, "Well-founded").
THEOREM OrderIsWellFounded ==
  ASSUME NEW S \in SUBSET Seq(Nat), S # {}
  PROVE  \E w \in S : \A v \in S : ~Less(v, w)
<1>1. PICK n \in {Len(w) : w \in S} : \A k \in {Len(w) : w \in S} : n <= k
  <2>1. {Len(w) : w \in S} \in SUBSET Nat /\ {Len(w) : w \in S} # {}
    BY NumberSeq
  <2> QED
    BY <2>1, LeastNumber
<1>2. n \in Nat /\ \A w \in S : n <= Len(w)
  BY <1>1, NumberSeq
<1> DEFINE T == {w \in S : Len(w) = n}
<1>3. T # {} /\ T \subseteq Seq(Nat)
  BY <1>1
<1> DEFINE Good(w, k) == \A v \in T : \A i \in 1..k : ~Differ(v, w, i)
<1> DEFINE Bad == {k \in Nat : k <= n /\ ~\E w \in T : Good(w, k)}
<1>4. Bad = {}
  <2>1. SUFFICES ASSUME Bad # {} PROVE FALSE
    OBVIOUS
  <2>2. Bad \in SUBSET Nat
    OBVIOUS
  <2>3. PICK k \in Bad : \A l \in Bad : k <= l
    <3> HIDE DEF Bad
    <3> QED
      BY <2>1, <2>2, LeastNumber
  <2>4. k \in Nat /\ k <= n /\ ~\E w \in T : Good(w, k)
    BY <2>3
  <2>5. k # 0
    <3>1. 1..0 = {}
      OBVIOUS
    <3>2. \A w \in T : Good(w, 0)
      BY <3>1
    <3> QED
      BY <1>3, <2>4, <3>2
  <2>6. PICK w \in T : Good(w, k - 1)
    <3>1. k - 1 \in Nat /\ k - 1 <= n /\ ~(k <= k - 1)
      BY <1>2, <2>4, <2>5
    <3>2. k - 1 \notin Bad
      BY <2>3, <3>1
    <3> HIDE DEF Good
    <3> QED
      BY <3>1, <3>2
  <2> DEFINE U == {v \in T : \A j \in 1..(k - 1) : v[j] = w[j]}
  <2>7. \A v \in T : Len(v) = n /\ k \in 1..Len(v) /\ v[k] \in Nat
    <3>1. \A v \in T : Len(v) = n /\ k \in 1..Len(v)
      BY <1>2, <2>4, <2>5
    <3> QED
      BY <1>3, <3>1, NumberSeq
  <2>8. PICK x \in U : \A v \in U : x[k] <= v[k]
    <3>1. {v[k] : v \in U} # {}
      BY <2>6
    <3>2. {v[k] : v \in U} \in SUBSET Nat
      BY <2>7
    <3>3. PICK c \in {v[k] : v \in U} : \A d \in {v[k] : v \in U} : c <= d
      <4> HIDE DEF U
      <4> QED
        BY <3>1, <3>2, LeastNumber
    <3> HIDE DEF U
    <3> QED
      BY <3>3
  <2>9. ASSUME NEW v \in T, NEW i \in 1..k, Differ(v, x, i) PROVE FALSE
    <3>1. CASE i = k
      <4>1. \A j \in 1..(k - 1) : v[j] = x[j]
        BY <2>9, <3>1 DEF Differ
      <4>2. v \in U
        BY <2>8, <4>1
      <4>3. x[k] <= v[k] /\ v[k] < x[k]
        <5>1. v[k] < x[k]
          BY <2>9, <3>1 DEF Differ
        <5>2. x[k] <= v[k]
          BY <4>2, <2>8
        <5> QED
          BY <5>1, <5>2
      <4>4. x[k] \in Nat /\ v[k] \in Nat
        BY <2>7, <2>8
      <4> QED
        BY <4>3, <4>4
    <3>2. CASE i # k
      <4>1. i \in 1..(k - 1) /\ \A j \in 1..(i - 1) : j \in 1..(k - 1)
        BY <2>4, <3>2
      <4>2. \A j \in 1..(k - 1) : x[j] = w[j]
        BY <2>8
      <4>3. i \in 1..Len(v) /\ v[i] < x[i] /\ \A j \in 1..(i - 1) : v[j] = x[j]
        BY <2>9 DEF Differ
      <4>4. x[i] = w[i] /\ \A j \in 1..(i - 1) : v[j] = w[j]
        BY <4>1, <4>2, <4>3
      <4>5. Differ(v, w, i)
        BY <4>3, <4>4 DEF Differ
      <4> QED
        BY <2>6, <4>1, <4>5
    <3> QED
      BY <3>1, <3>2
  <2>10. x \in T /\ Good(x, k)
    BY <2>8, <2>9
  <2> QED
    <3> HIDE DEF T, Good
    <3> QED
      BY <2>4, <2>10
<1>5. PICK w \in T : Good(w, n)
  <2>1. n \notin Bad /\ n <= n
    BY <1>2, <1>4
  <2> HIDE DEF Good, T
  <2> QED
    BY <1>2, <2>1
<1>6. ASSUME NEW v \in S, Less(v, w) PROVE FALSE
  <2>1. Len(v) \in Nat /\ n <= Len(v) /\ Len(w) = n
    BY <1>2, NumberSeq
  <2>2. Len(v) < Len(w) \/ (Len(v) = Len(w) /\ \E i : Differ(v, w, i))
    BY <1>3, <1>6, LessMeans
  <2>3. v \in T /\ \E i : Differ(v, w, i)
    BY <1>2, <2>1, <2>2
  <2>4. PICK i : Differ(v, w, i)
    BY <2>3
  <2>5. i \in 1..n
    BY <2>3, <2>4 DEF Differ
  <2> QED
    BY <1>5, <2>3, <2>4, <2>5
<1> QED
  BY <1>6

\* No reduction goes on for ever (order.py:19, "no infinite descending chain").
THEOREM NoInfiniteDescent ==
  ASSUME NEW chain \in [Nat -> Seq(Nat)]
  PROVE  ~\A n \in Nat : Less(chain[n + 1], chain[n])
<1> SUFFICES ASSUME \A n \in Nat : Less(chain[n + 1], chain[n]) PROVE FALSE
  OBVIOUS
<1> DEFINE S == {chain[n] : n \in Nat}
<1>1. S \in SUBSET Seq(Nat) /\ chain[0] \in S
  OBVIOUS
<1>2. PICK w \in S : \A v \in S : ~Less(v, w)
  <2> HIDE DEF S
  <2> QED
    BY <1>1, OrderIsWellFounded
<1>3. PICK n \in Nat : w = chain[n]
  BY <1>2
<1>4. chain[n + 1] \in S
  <2>1. n + 1 \in Nat
    BY <1>3
  <2> QED
    BY <2>1
<1> QED
  BY <1>2, <1>3, <1>4

LEMMA SmallestIsLeast ==
  ASSUME NEW S \in SUBSET Seq(Nat), S # {}
  PROVE  Smallest(S) \in S /\ \A v \in S : ~Less(v, Smallest(S))
<1>1. \E w \in S : \A v \in S : ~Less(v, w)
  BY OrderIsWellFounded
<1> QED
  BY <1>1 DEF Smallest

LEMMA ConcatThree ==
  ASSUME NEW a \in Seq(Nat), NEW u \in Seq(Nat), NEW b \in Seq(Nat)
  PROVE  /\ a \o u \o b \in Seq(Nat)
         /\ Len(a \o u \o b) = Len(a) + Len(u) + Len(b)
         /\ \A k \in 1..(Len(a) + Len(u) + Len(b)) :
               (a \o u \o b)[k] = IF k <= Len(a) THEN a[k]
                                  ELSE IF k <= Len(a) + Len(u) THEN u[k - Len(a)]
                                  ELSE b[k - (Len(a) + Len(u))]
<1>1. Len(a) \in Nat /\ Len(u) \in Nat /\ Len(b) \in Nat
  BY NumberSeq
<1>2. /\ a \o u \in Seq(Nat) /\ Len(a \o u) = Len(a) + Len(u)
      /\ \A k \in 1..(Len(a) + Len(u)) :
            (a \o u)[k] = IF k <= Len(a) THEN a[k] ELSE u[k - Len(a)]
  BY ConcatProperties
<1>3. /\ a \o u \o b \in Seq(Nat) /\ Len(a \o u \o b) = Len(a \o u) + Len(b)
      /\ \A k \in 1..(Len(a \o u) + Len(b)) :
            (a \o u \o b)[k] = IF k <= Len(a \o u) THEN (a \o u)[k] ELSE b[k - Len(a \o u)]
  BY <1>2, ConcatProperties
<1>4. ASSUME NEW k \in 1..(Len(a) + Len(u) + Len(b))
      PROVE (a \o u \o b)[k] = IF k <= Len(a) THEN a[k]
                               ELSE IF k <= Len(a) + Len(u) THEN u[k - Len(a)]
                               ELSE b[k - (Len(a) + Len(u))]
  <2>1. CASE k <= Len(a) + Len(u)
    <3>1. k \in 1..(Len(a) + Len(u))
      BY <1>1, <2>1
    <3> QED
      BY <1>1, <1>2, <1>3, <2>1, <3>1
  <2>2. CASE ~(k <= Len(a) + Len(u))
    BY <1>1, <1>2, <1>3, <2>2
  <2> QED
    BY <2>1, <2>2
<1> QED
  BY <1>1, <1>2, <1>3, <1>4

\* A smaller word stays smaller between the same two words (order.py:22,
\* "Two-sided multiplicative").
THEOREM OrderIsMultiplicative ==
  ASSUME NEW a \in Seq(Nat), NEW u \in Seq(Nat), NEW v \in Seq(Nat), NEW b \in Seq(Nat),
         Less(u, v)
  PROVE  Less(a \o u \o b, a \o v \o b)
<1>1. /\ Len(a) \in Nat /\ Len(u) \in Nat /\ Len(v) \in Nat /\ Len(b) \in Nat
      /\ a \o u \o b \in Seq(Nat) /\ a \o v \o b \in Seq(Nat)
  BY NumberSeq, ConcatThree
<1>2. /\ Len(a \o u \o b) = Len(a) + Len(u) + Len(b)
      /\ Len(a \o v \o b) = Len(a) + Len(v) + Len(b)
  BY ConcatThree
<1>3. CASE Len(u) < Len(v)
  <2>1. Len(a \o u \o b) < Len(a \o v \o b)
    BY <1>1, <1>2, <1>3
  <2> QED
    BY <1>1, <2>1, LessMeans
<1>4. CASE Len(u) = Len(v)
  <2>1. PICK i : Differ(u, v, i)
    <3>1. ~(Len(u) < Len(v))
      BY <1>1, <1>4
    <3> QED
      BY <3>1, LessMeans
  <2>2. i \in 1..Len(u) /\ u[i] < v[i]
    BY <2>1 DEF Differ
  <2> DEFINE k == Len(a) + i
  <2>3. /\ k \in 1..(Len(a) + Len(u) + Len(b)) /\ ~(k <= Len(a)) /\ k <= Len(a) + Len(u)
        /\ k - Len(a) = i
    BY <1>1, <2>2
  <2>4. (a \o u \o b)[k] = u[i] /\ (a \o v \o b)[k] = v[i]
    <3> HIDE DEF k
    <3>1. (a \o u \o b)[k] = u[i]
      BY <2>3, ConcatThree
    <3>2. (a \o v \o b)[k] = v[i]
      BY <1>4, <2>3, ConcatThree
    <3> QED
      BY <3>1, <3>2
  <2>5. ASSUME NEW j \in 1..(k - 1) PROVE (a \o u \o b)[j] = (a \o v \o b)[j]
    <3>1. j \in 1..(Len(a) + Len(u) + Len(b)) /\ j <= Len(a) + Len(u)
      BY <1>1, <2>2
    <3>2. CASE j <= Len(a)
      BY <1>4, <3>1, <3>2, ConcatThree
    <3>3. CASE ~(j <= Len(a))
      <4>1. j - Len(a) \in 1..(i - 1)
        BY <1>1, <2>2, <3>3
      <4>2. u[j - Len(a)] = v[j - Len(a)]
        BY <2>1, <4>1 DEF Differ
      <4>3. (a \o u \o b)[j] = u[j - Len(a)]
        BY <3>1, <3>3, ConcatThree
      <4>4. (a \o v \o b)[j] = v[j - Len(a)]
        BY <1>4, <3>1, <3>3, ConcatThree
      <4> QED
        BY <4>2, <4>3, <4>4
    <3> QED
      BY <3>2, <3>3
  <2>6. Differ(a \o u \o b, a \o v \o b, k)
    <3>1. k \in 1..Len(a \o u \o b)
      BY <1>2, <2>3
    <3>2. (a \o u \o b)[k] < (a \o v \o b)[k]
      BY <2>2, <2>4
    <3> HIDE DEF k
    <3> QED
      BY <2>5, <3>1, <3>2 DEF Differ
  <2> QED
    BY <1>1, <1>2, <1>4, <2>6, LessMeans
<1>5. Len(u) < Len(v) \/ Len(u) = Len(v)
  BY LessMeans
<1> QED
  BY <1>3, <1>4, <1>5

LEMMA FiniteHasLargest ==
  ASSUME NEW S \in SUBSET Seq(Nat), IsFiniteSet(S), S # {}
  PROVE  \E w \in S : \A v \in S : ~Less(w, v)
<1> DEFINE Has(T)  == \E w \in T : \A v \in T : ~Less(w, v)
<1> DEFINE None    == {T \in SUBSET S : T # {} /\ ~Has(T)}
<1> DEFINE Sizes   == {Cardinality(T) : T \in None}
<1>1. \A T \in SUBSET S : IsFiniteSet(T) /\ Cardinality(T) \in Nat
  BY FS_Subset, FS_CardinalityType
<1>2. None = {}
  <2>1. SUFFICES ASSUME None # {} PROVE FALSE
    OBVIOUS
  <2>2. Sizes \in SUBSET Nat /\ Sizes # {}
    BY <1>1, <2>1
  <2>3. PICK c \in Sizes : \A d \in Sizes : c <= d
    <3> HIDE DEF Sizes
    <3> QED
      BY <2>2, LeastNumber
  <2>4. PICK T \in None : c = Cardinality(T)
    BY <2>3
  <2>5. T \in SUBSET S /\ T # {} /\ ~Has(T)
    BY <2>4
  <2>6. PICK x \in T : TRUE
    BY <2>5
  <2>7. Cardinality(T \ {x}) = Cardinality(T) - 1
    <3>1. IsFiniteSet(T)
      BY <1>1, <2>5
    <3> QED
      BY <2>6, <3>1, FS_RemoveElement
  <2>8. T \ {x} \notin None
    <3>1. SUFFICES ASSUME T \ {x} \in None PROVE FALSE
      OBVIOUS
    <3>2. Cardinality(T \ {x}) \in Sizes
      BY <3>1
    <3>3. c <= Cardinality(T \ {x})
      BY <2>3, <3>2
    <3>4. Cardinality(T) \in Nat
      BY <1>1, <2>5
    <3> QED
      BY <2>4, <2>7, <3>3, <3>4
  <2>9. T \ {x} \in SUBSET S
    BY <2>5
  <2>10. x \in Seq(Nat) /\ \A v \in T : v \in Seq(Nat)
    BY <2>5, <2>6
  <2>11. ~Less(x, x)
    BY <2>10, LessIsStrict
  <2>12. CASE T \ {x} = {}
    BY <2>5, <2>6, <2>11, <2>12
  <2>13. CASE T \ {x} # {}
    <3>1. PICK y \in T \ {x} : \A v \in T \ {x} : ~Less(y, v)
      BY <2>8, <2>9, <2>13
    <3>2. CASE Less(y, x)
      <4>1. ASSUME NEW v \in T, Less(x, v) PROVE FALSE
        <5>1. Less(y, v)
          BY <2>10, <3>1, <3>2, <4>1, LessIsTransitive
        <5> QED
          BY <2>11, <3>1, <4>1, <5>1
      <4> QED
        BY <2>5, <2>6, <4>1
    <3>3. CASE ~Less(y, x)
      BY <2>5, <3>1, <3>3
    <3> QED
      BY <3>2, <3>3
  <2> QED
    BY <2>12, <2>13
<1> QED
  <2>1. S \in SUBSET S /\ S \notin None
    BY <1>2
  <2> QED
    BY <2>1

LEMMA LargestIsGreatest ==
  ASSUME NEW S \in SUBSET Seq(Nat), IsFiniteSet(S), S # {}
  PROVE  /\ Largest(S) \in S
         /\ \A v \in S : v # Largest(S) => Less(v, Largest(S))
<1>1. \E w \in S : \A v \in S : ~Less(w, v)
  BY FiniteHasLargest
<1>2. Largest(S) \in S /\ \A v \in S : ~Less(Largest(S), v)
  BY <1>1 DEF Largest
<1>3. \A v \in S : v \in Seq(Nat)
  OBVIOUS
<1> QED
  BY <1>2, <1>3, OrderIsTotal

-----------------------------------------------------------------------------
(* Words, and the elements made of them. *)

LEMMA WordFacts ==
  /\ Words \subseteq Seq(Nat)
  /\ <<>> \in Words /\ Len(<<>>) = 0
  /\ \A u, v, w \in Words : u \o v \o w \in Words
<1>1. Len(Source) \in Nat /\ DOMAIN Source = 1..Len(Source)
  BY GroebnerAssumption
<1>2. Arrows \subseteq Nat
  BY <1>1 DEF Arrows
<1>3. Words \subseteq Seq(Nat)
  BY <1>2, SeqMonotonic DEF Words
<1>4. ASSUME NEW u \in Words, NEW v \in Words, NEW w \in Words PROVE u \o v \o w \in Words
  <2>1. u \o v \in Words
    BY ConcatProperties DEF Words
  <2> QED
    BY <2>1, ConcatProperties DEF Words
<1>5. <<>> \in Words /\ Len(<<>>) = 0
  BY DEF Words
<1> QED
  BY <1>3, <1>4, <1>5

LEMMA Remainder ==
  ASSUME NEW x \in Int
  PROVE  x % P \in 0..(P - 1)
BY GroebnerAssumption

LEMMA ElementCoeff ==
  ASSUME NEW c, IsElement(c), NEW w
  PROVE  Coeff(c, w) \in Int
<1>1. w \in DOMAIN c => c[w] \in 1..(P - 1)
  BY DEF IsElement
<1>2. w \in DOMAIN c => c[w] \in Int
  BY <1>1, GroebnerAssumption
<1> QED
  BY <1>2 DEF Coeff

LEMMA ZeroElement ==
  /\ IsElement(Zero)
  /\ \A c : IsElement(c) /\ c # Zero => DOMAIN c # {}
<1>1. DOMAIN Zero = {} /\ Zero = [w \in DOMAIN Zero |-> Zero[w]]
  BY DEF Zero
<1>2. IsFiniteSet(DOMAIN Zero)
  BY <1>1, FS_EmptySet
<1>3. IsElement(Zero)
  BY <1>1, <1>2 DEF IsElement
<1>4. ASSUME NEW c, IsElement(c), DOMAIN c = {} PROVE c = Zero
  BY <1>4 DEF IsElement, Zero
<1> QED
  BY <1>3, <1>4

\* What a definition by Element amounts to.
LEMMA NewElement ==
  ASSUME NEW S, IsFiniteSet(S), S \subseteq Words,
         NEW f, NEW e, \A w \in S : f[w] \in Int,
         e = [w \in {v \in S : f[v] % P # 0} |-> f[w] % P]
  PROVE  IsElement(e) /\ DOMAIN e \subseteq S
<1>1. DOMAIN e = {v \in S : f[v] % P # 0}
  OBVIOUS
<1>2. IsFiniteSet(DOMAIN e)
  <2>1. DOMAIN e \in SUBSET S
    BY <1>1
  <2> QED
    BY <2>1, FS_Subset
<1>3. ASSUME NEW w \in DOMAIN e PROVE e[w] \in 1..(P - 1)
  <2>1. f[w] % P \in 0..(P - 1) /\ f[w] % P # 0
    BY <1>1, Remainder
  <2>2. P \in Int
    BY GroebnerAssumption
  <2>3. f[w] % P \in 1..(P - 1)
    BY <2>1, <2>2
  <2>4. e[w] = f[w] % P
    BY <1>1
  <2> QED
    BY <2>3, <2>4
<1>4. e = [w \in DOMAIN e |-> e[w]]
  BY <1>1
<1> QED
  BY <1>1, <1>2, <1>3, <1>4 DEF IsElement

LEMMA AddElement ==
  ASSUME NEW a, NEW b, IsElement(a), IsElement(b)
  PROVE  /\ IsElement(LcAdd(a, b)) /\ DOMAIN LcAdd(a, b) \subseteq DOMAIN a \cup DOMAIN b
         /\ IsElement(LcSub(a, b)) /\ DOMAIN LcSub(a, b) \subseteq DOMAIN a \cup DOMAIN b
<1> DEFINE S == DOMAIN a \cup DOMAIN b
<1>1. IsFiniteSet(S) /\ S \subseteq Words
  BY FS_Union DEF IsElement
<1>2. \A w : Coeff(a, w) \in Int /\ Coeff(b, w) \in Int
  BY ElementCoeff
<1>3. IsElement(LcAdd(a, b)) /\ DOMAIN LcAdd(a, b) \subseteq S
  <2> DEFINE f == [w \in S |-> Coeff(a, w) + Coeff(b, w)]
  <2>1. \A w \in S : f[w] \in Int
    BY <1>2
  <2>2. LcAdd(a, b) = [w \in {v \in S : f[v] % P # 0} |-> f[w] % P]
    BY DEF LcAdd, Element
  <2> HIDE DEF S, f
  <2> QED
    BY <1>1, <2>1, <2>2, NewElement
<1>4. IsElement(LcSub(a, b)) /\ DOMAIN LcSub(a, b) \subseteq S
  <2> DEFINE f == [w \in S |-> Coeff(a, w) - Coeff(b, w)]
  <2>1. \A w \in S : f[w] \in Int
    BY <1>2
  <2>2. LcSub(a, b) = [w \in {v \in S : f[v] % P # 0} |-> f[w] % P]
    BY DEF LcSub, Element
  <2> HIDE DEF S, f
  <2> QED
    BY <1>1, <2>1, <2>2, NewElement
<1> QED
  BY <1>3, <1>4

LEMMA ScaleElement ==
  ASSUME NEW k \in Int, NEW a, IsElement(a)
  PROVE  IsElement(Scale(k, a)) /\ DOMAIN Scale(k, a) \subseteq DOMAIN a
<1>1. IsFiniteSet(DOMAIN a) /\ DOMAIN a \subseteq Words
  BY DEF IsElement
<1> DEFINE f == [w \in DOMAIN a |-> k * a[w]]
<1>2. \A w \in DOMAIN a : a[w] \in Int
  <2>1. \A w \in DOMAIN a : a[w] \in 1..(P - 1)
    BY DEF IsElement
  <2> QED
    BY <2>1
<1>3. \A w \in DOMAIN a : f[w] \in Int
  BY <1>2
<1>4. Scale(k, a) = [w \in {v \in DOMAIN a : f[v] % P # 0} |-> f[w] % P]
  BY DEF Scale, Element
<1> HIDE DEF f
<1> QED
  BY <1>1, <1>3, <1>4, NewElement

LEMMA WithoutElement ==
  ASSUME NEW a, IsElement(a), NEW w
  PROVE  IsElement(Without(a, w)) /\ DOMAIN Without(a, w) = DOMAIN a \ {w}
<1>1. DOMAIN Without(a, w) = DOMAIN a \ {w}
  BY DEF Without
<1>2. IsFiniteSet(DOMAIN a \ {w})
  <2>1. IsFiniteSet(DOMAIN a)
    BY DEF IsElement
  <2> QED
    BY <2>1, FS_RemoveElement
<1>3. /\ Without(a, w) = [v \in DOMAIN Without(a, w) |-> Without(a, w)[v]]
      /\ \A v \in DOMAIN a \ {w} : Without(a, w)[v] = a[v]
  BY DEF Without
<1> QED
  BY <1>1, <1>2, <1>3 DEF IsElement

\* The middle of three words can be found again.
LEMMA MiddleOfThree ==
  ASSUME NEW u \in Words, NEW t \in Words, NEW v \in Words
  PROVE  SubSeq(u \o t \o v, Len(u) + 1, Len(u \o t \o v) - Len(v)) = t
<1>1. u \in Seq(Nat) /\ t \in Seq(Nat) /\ v \in Seq(Nat)
  BY WordFacts
<1>2. Len(u) \in Nat /\ Len(t) \in Nat /\ Len(v) \in Nat
  BY <1>1, NumberSeq
<1> SUFFICES ASSUME NEW w, w = u \o t \o v
             PROVE  SubSeq(w, Len(u) + 1, Len(w) - Len(v)) = t
  OBVIOUS
<1>3. /\ Len(w) = Len(u) + Len(t) + Len(v)
      /\ \A k \in 1..(Len(u) + Len(t) + Len(v)) :
            ~(k <= Len(u)) /\ k <= Len(u) + Len(t) => w[k] = t[k - Len(u)]
  BY <1>1, ConcatThree
<1>4. Len(w) - Len(v) = Len(u) + Len(t)
  BY <1>2, <1>3
<1>5. ASSUME NEW k \in 1..Len(t)
      PROVE  w[Len(u) + k] = t[k] /\ t[k] \in Nat
  <2>1. /\ Len(u) + k \in 1..(Len(u) + Len(t) + Len(v))
        /\ ~(Len(u) + k <= Len(u)) /\ Len(u) + k <= Len(u) + Len(t)
        /\ Len(u) + k - Len(u) = k
    BY <1>2
  <2>2. w[Len(u) + k] = t[Len(u) + k - Len(u)]
    BY <1>3, <2>1
  <2> QED
    BY <1>1, <2>1, <2>2, NumberSeq
<1> DEFINE s == SubSeq(w, Len(u) + 1, Len(u) + Len(t))
<1>6. \A i \in (Len(u) + 1)..(Len(u) + Len(t)) : w[i] \in Nat
  <2> SUFFICES ASSUME NEW i \in (Len(u) + 1)..(Len(u) + Len(t)) PROVE w[i] \in Nat
    OBVIOUS
  <2>1. i - Len(u) \in 1..Len(t) /\ Len(u) + (i - Len(u)) = i
    BY <1>2
  <2> QED
    BY <1>5, <2>1
<1>7. /\ s \in Seq(Nat)
      /\ Len(s) = IF Len(u) + 1 <= Len(u) + Len(t)
                    THEN Len(u) + Len(t) - (Len(u) + 1) + 1 ELSE 0
      /\ \A i \in 1..(Len(u) + Len(t) - (Len(u) + 1) + 1) : s[i] = w[Len(u) + 1 + i - 1]
  <2>1. Len(u) + 1 \in Int /\ Len(u) + Len(t) \in Int
    BY <1>2
  <2> QED
    BY <1>6, <2>1, SubSeqProperties
<1>8. Len(s) = Len(t)
  BY <1>2, <1>7
<1>9. ASSUME NEW i \in 1..Len(s) PROVE s[i] = t[i]
  <2>1. i \in 1..(Len(u) + Len(t) - (Len(u) + 1) + 1) /\ Len(u) + 1 + i - 1 = Len(u) + i
    BY <1>2, <1>8
  <2>2. s[i] = w[Len(u) + 1 + i - 1]
    BY <1>7, <2>1
  <2> HIDE DEF s
  <2> QED
    BY <1>5, <1>8, <2>1, <2>2
<1>10. s = t
  <2> HIDE DEF s
  <2> QED
    BY <1>1, <1>7, <1>8, <1>9, SeqEqual
<1> QED
  BY <1>4, <1>10

\* The words of e are the words of c between u and v.
Wraps(e, u, c, v) == \A w \in DOMAIN e : \E t \in DOMAIN c : w = u \o t \o v

LEMMA ContextElement ==
  ASSUME NEW u \in Words, NEW c, IsElement(c), NEW v \in Words
  PROVE  IsElement(InContext(u, c, v)) /\ Wraps(InContext(u, c, v), u, c, v)
<1> DEFINE S == {u \o t \o v : t \in DOMAIN c}
           e == InContext(u, c, v)
<1>1. DOMAIN e = S /\ \A w \in S : e[w] = c[SubSeq(w, Len(u) + 1, Len(w) - Len(v))]
  BY DEF InContext
<1>2. IsFiniteSet(DOMAIN c) /\ DOMAIN c \subseteq Words /\ \A t \in DOMAIN c : c[t] \in 1..(P - 1)
  BY DEF IsElement
<1>3. IsFiniteSet(S)
  <2> DEFINE f == [t \in DOMAIN c |-> u \o t \o v]
  <2>1. f \in Surjection(DOMAIN c, S)
    BY DEF Surjection
  <2> HIDE DEF f, S
  <2> QED
    BY <1>2, <2>1, FS_Surjection
<1>4. S \subseteq Words
  BY <1>2, WordFacts
<1>5. \A w \in S : e[w] \in 1..(P - 1)
  <2> SUFFICES ASSUME NEW t \in DOMAIN c PROVE e[u \o t \o v] \in 1..(P - 1)
    BY DEF e
  <2>1. SubSeq(u \o t \o v, Len(u) + 1, Len(u \o t \o v) - Len(v)) = t
    BY <1>2, MiddleOfThree
  <2>2. e[u \o t \o v] = c[t]
    <3>1. u \o t \o v \in S
      OBVIOUS
    <3> HIDE DEF e, S
    <3> QED
      BY <1>1, <2>1, <3>1
  <2> QED
    BY <1>2, <2>2
<1>6. e = [w \in DOMAIN e |-> e[w]]
  BY DEF InContext
<1>7. IsElement(e)
  <2> HIDE DEF e, S
  <2> QED
    BY <1>1, <1>3, <1>4, <1>5, <1>6 DEF IsElement
<1>8. Wraps(e, u, c, v)
  BY <1>1 DEF Wraps
<1> QED
  BY <1>7, <1>8

LEMMA LeadingWord ==
  ASSUME NEW c, IsElement(c), c # Zero
  PROVE  Leading(c) \in DOMAIN c /\ \A w \in DOMAIN c \ {Leading(c)} : Less(w, Leading(c))
<1>1. DOMAIN c \in SUBSET Seq(Nat) /\ IsFiniteSet(DOMAIN c)
  BY WordFacts DEF IsElement
<1>2. DOMAIN c # {}
  BY ZeroElement
<1> QED
  BY <1>1, <1>2, LargestIsGreatest DEF Leading

LEMMA CombRule ==
  ASSUME NEW c, IsElement(c), c # Zero, \A w \in DOMAIN c : Len(w) >= 2
  PROVE  /\ IsRule(RuleFromComb(c))
         /\ RuleFromComb(c).lead = Leading(c) /\ Leading(c) \in DOMAIN c
<1> DEFINE lead == Leading(c)
           inv  == CHOOSE k \in 1..(P - 1) : (k * c[lead]) % P = 1
           tail == Scale(-inv, Without(c, lead))
<1>1. RuleFromComb(c) = [lead |-> lead, tail |-> tail]
  BY DEF RuleFromComb
<1>2. lead \in DOMAIN c /\ \A w \in DOMAIN c \ {lead} : Less(w, lead)
  BY LeadingWord
<1>3. inv \in 1..(P - 1)
  <2>1. c[lead] \in 1..(P - 1)
    BY <1>2 DEF IsElement
  <2>2. \E k \in 1..(P - 1) : (k * c[lead]) % P = 1
    <3> HIDE DEF lead
    <3> QED
      BY <2>1, GroebnerAssumption
  <2> HIDE DEF lead
  <2> QED
    BY <2>2
<1>4. -inv \in Int
  <2> HIDE DEF inv
  <2> QED
    BY <1>3, GroebnerAssumption
<1>5. IsElement(tail) /\ DOMAIN tail \subseteq DOMAIN c \ {lead}
  <2> HIDE DEF inv, lead
  <2>1. IsElement(Without(c, lead)) /\ DOMAIN Without(c, lead) = DOMAIN c \ {lead}
    BY WithoutElement
  <2> QED
    BY <1>4, <2>1, ScaleElement
<1>6. RuleFromComb(c).lead = lead /\ RuleFromComb(c).tail = tail
  <2> HIDE DEF lead, tail
  <2> QED
    BY <1>1
<1>7. lead \in Words
  BY <1>2 DEF IsElement
<1> HIDE DEF lead, inv, tail
<1>8. IsRule(RuleFromComb(c))
  BY <1>2, <1>5, <1>6, <1>7 DEF IsRule
<1> QED
  BY <1>2, <1>6, <1>8 DEF lead

-----------------------------------------------------------------------------
(* One rewriting, reduction.py. *)

LEMMA Factored ==
  ASSUME NEW w \in Words, NEW f \in Words, NEW i \in Occurrences(f, w)
  PROVE  /\ SubSeq(w, 1, i) \in Words /\ Len(SubSeq(w, 1, i)) = i
         /\ SubSeq(w, i + Len(f) + 1, Len(w)) \in Words
         /\ Len(SubSeq(w, i + Len(f) + 1, Len(w))) = Len(w) - (i + Len(f))
         /\ SubSeq(w, 1, i) \o f \o SubSeq(w, i + Len(f) + 1, Len(w)) = w
<1>1. w \in Seq(Arrows) /\ f \in Seq(Arrows) /\ Len(w) \in Nat /\ Len(f) \in Nat
  BY DEF Words
<1>2. i \in 0..(Len(w) - Len(f)) /\ SubSeq(w, i + 1, i + Len(f)) = f
  BY DEF Occurrences
<1>3. /\ i \in Nat /\ 1 \in 1..(Len(w) + 1) /\ i \in 0..Len(w)
      /\ i + Len(f) \in i..Len(w) /\ i + Len(f) \in 0..Len(w)
  BY <1>1, <1>2
<1>4. \A k \in 1..Len(w) : w[k] \in Arrows
  BY <1>1
<1>5. SubSeq(w, 1, i) \o SubSeq(w, i + 1, i + Len(f)) = SubSeq(w, 1, i + Len(f))
  <2>1. i \in (1 - 1)..Len(w)
    BY <1>3
  <2> QED
    BY <1>1, <1>3, <2>1, ConcatAdjacentSubSeq
<1>6. SubSeq(w, 1, i + Len(f)) \o SubSeq(w, i + Len(f) + 1, Len(w)) = SubSeq(w, 1, Len(w))
  <2>1. i + Len(f) \in (1 - 1)..Len(w) /\ Len(w) \in (i + Len(f))..Len(w)
    BY <1>1, <1>3
  <2> QED
    BY <1>1, <1>3, <2>1, ConcatAdjacentSubSeq
<1>7. SubSeq(w, 1, Len(w)) = w
  BY <1>1, SubSeqFull
<1>8. SubSeq(w, 1, i) \in Seq(Arrows) /\ Len(SubSeq(w, 1, i)) = i
  <2>1. 1 \in Int /\ i \in Int /\ \A k \in 1..i : w[k] \in Arrows
    BY <1>1, <1>3, <1>4
  <2>2. /\ SubSeq(w, 1, i) \in Seq(Arrows)
        /\ Len(SubSeq(w, 1, i)) = IF 1 <= i THEN i - 1 + 1 ELSE 0
    BY <2>1, SubSeqProperties
  <2>3. (IF 1 <= i THEN i - 1 + 1 ELSE 0) = i
    BY <1>3
  <2> QED
    BY <2>2, <2>3
<1>9. /\ SubSeq(w, i + Len(f) + 1, Len(w)) \in Seq(Arrows)
      /\ Len(SubSeq(w, i + Len(f) + 1, Len(w))) = Len(w) - (i + Len(f))
  <2> SUFFICES ASSUME NEW b, b = i + Len(f) + 1
               PROVE  /\ SubSeq(w, b, Len(w)) \in Seq(Arrows)
                      /\ Len(SubSeq(w, b, Len(w))) = Len(w) - (i + Len(f))
    OBVIOUS
  <2>1. b \in Int /\ Len(w) \in Int /\ \A k \in b..Len(w) : w[k] \in Arrows
    <3>1. b \in Int /\ Len(w) \in Int /\ 1 <= b
      BY <1>1, <1>3
    <3>2. \A k \in b..Len(w) : k \in 1..Len(w)
      BY <3>1
    <3> QED
      BY <1>4, <3>1, <3>2
  <2>2. /\ SubSeq(w, b, Len(w)) \in Seq(Arrows)
        /\ Len(SubSeq(w, b, Len(w))) = IF b <= Len(w) THEN Len(w) - b + 1 ELSE 0
    BY <2>1, SubSeqProperties
  <2>3. (IF b <= Len(w) THEN Len(w) - b + 1 ELSE 0) = Len(w) - (i + Len(f))
    BY <1>1, <1>3
  <2> QED
    BY <2>2, <2>3
<1> QED
  BY <1>2, <1>5, <1>6, <1>7, <1>8, <1>9 DEF Words

IsSystem(rs) ==
    /\ IsFiniteSet(DOMAIN rs) /\ DOMAIN rs \subseteq Nat \ {0}
    /\ \A n \in DOMAIN rs : IsRule(rs[n])

\* Putting a rule's tail in the place of its lead gives smaller words.
LEMMA TailIsSmaller ==
  ASSUME NEW r, IsRule(r), NEW u \in Words, NEW v \in Words, NEW t \in DOMAIN r.tail
  PROVE  /\ u \o t \o v \in Words
         /\ Less(u \o t \o v, u \o r.lead \o v)
         /\ Len(u \o t \o v) \in Nat /\ Len(u \o t \o v) >= 2
         /\ Len(u \o t \o v) <= Len(u) + Len(r.lead) + Len(v)
<1>1. /\ r.lead \in Words /\ t \in Words /\ Less(t, r.lead) /\ Len(t) >= 2
  BY DEF IsRule, IsElement
<1>2. /\ r.lead \in Seq(Nat) /\ t \in Seq(Nat) /\ u \in Seq(Nat) /\ v \in Seq(Nat)
      /\ u \o t \o v \in Words
  BY <1>1, WordFacts
<1>3. Less(u \o t \o v, u \o r.lead \o v)
  BY <1>1, <1>2, OrderIsMultiplicative
<1>4. Len(u \o t \o v) = Len(u) + Len(t) + Len(v)
  BY <1>2, ConcatThree
<1>5. /\ Len(t) \in Nat /\ Len(r.lead) \in Nat /\ Len(u) \in Nat /\ Len(v) \in Nat
      /\ Len(t) <= Len(r.lead)
  <2>1. Len(t) \in Nat /\ Len(r.lead) \in Nat /\ Len(u) \in Nat /\ Len(v) \in Nat
    BY <1>2, NumberSeq
  <2>2. Len(t) < Len(r.lead) \/ Len(t) = Len(r.lead)
    BY <1>1, <1>2, LessMeans
  <2> QED
    BY <2>1, <2>2
<1>6. /\ Len(u) + Len(t) + Len(v) \in Nat /\ Len(u) + Len(t) + Len(v) >= 2
      /\ Len(u) + Len(t) + Len(v) <= Len(u) + Len(r.lead) + Len(v)
  BY <1>1, <1>5
<1> QED
  BY <1>2, <1>3, <1>4, <1>6

LEMMA MatchFound ==
  ASSUME NEW rs, IsSystem(rs), NEW w \in Words, ~Irreducible(w, rs)
  PROVE  FirstFactor(w, rs) \in Matches(w, rs)
<1>1. Matches(w, rs) # {}
  BY DEF Irreducible
<1>2. Len(w) \in Nat /\ DOMAIN rs \subseteq Nat
  BY DEF Words, IsSystem
<1>3. \A m \in Matches(w, rs) : m \in Seq(Nat)
  <2> SUFFICES ASSUME NEW m \in Matches(w, rs) PROVE m \in Seq(Nat)
    OBVIOUS
  <2>1. m \in (0..Len(w)) \X (DOMAIN rs)
    BY Zenon DEF Matches
  <2>2. PICK i \in 0..Len(w), n \in DOMAIN rs : m = <<i, n>>
    BY <2>1
  <2>3. i \in Nat /\ n \in Nat
    BY <1>2
  <2>4. <<i, n>> \in Seq(Nat)
    BY <2>3
  <2> QED
    BY <2>2, <2>4
<1> QED
  BY <1>1, <1>3, SmallestIsLeast DEF FirstFactor

\* What an application of rule r to w, behind its first i arrows, puts in.
Put(w, r, i) == InContext(SubSeq(w, 1, i), r.tail, SubSeq(w, i + Len(r.lead) + 1, Len(w)))

LEMMA PutIsSmaller ==
  ASSUME NEW w \in Words, NEW r, IsRule(r), NEW i \in Occurrences(r.lead, w)
  PROVE  IsElement(Put(w, r, i)) /\ \A x \in DOMAIN Put(w, r, i) : Less(x, w) /\ Len(x) >= 2
<1>1. r.lead \in Words /\ IsElement(r.tail)
  BY DEF IsRule
<1>2. PICK u, v : /\ u = SubSeq(w, 1, i) /\ v = SubSeq(w, i + Len(r.lead) + 1, Len(w))
                  /\ u \in Words /\ v \in Words /\ u \o r.lead \o v = w
  <2>1. /\ SubSeq(w, 1, i) \in Words
        /\ SubSeq(w, i + Len(r.lead) + 1, Len(w)) \in Words
        /\ SubSeq(w, 1, i) \o r.lead \o SubSeq(w, i + Len(r.lead) + 1, Len(w)) = w
    BY <1>1, Factored
  <2> QED
    BY <2>1, Zenon
<1>3. IsElement(InContext(u, r.tail, v)) /\ Wraps(InContext(u, r.tail, v), u, r.tail, v)
  <2>1. u \in Words /\ v \in Words
    BY <1>2
  <2> QED
    BY <1>1, <2>1, ContextElement
<1>4. Put(w, r, i) = InContext(u, r.tail, v)
  BY <1>2 DEF Put
<1>5. ASSUME NEW x \in DOMAIN InContext(u, r.tail, v) PROVE Less(x, w) /\ Len(x) >= 2
  <2>1. PICK t \in DOMAIN r.tail : x = u \o t \o v
    BY <1>3 DEF Wraps
  <2>2. u \in Words /\ v \in Words /\ u \o r.lead \o v = w
    BY <1>2
  <2>3. Less(u \o t \o v, u \o r.lead \o v) /\ Len(u \o t \o v) >= 2
    BY <2>2, TailIsSmaller
  <2> QED
    BY <2>1, <2>2, <2>3
<1> QED
  BY <1>3, <1>4, <1>5

LEMMA RewriteDescends ==
  ASSUME NEW rs, IsSystem(rs), NEW c, IsElement(c),
         NEW w \in DOMAIN c, NEW m \in Matches(w, rs)
  PROVE  /\ IsElement(Rewrite(c, w, rs, m))
         /\ \A x \in DOMAIN Rewrite(c, w, rs, m) :
               x \in DOMAIN c \ {w} \/ (Less(x, w) /\ Len(x) >= 2)
<1>1. w \in Words /\ c[w] \in 1..(P - 1)
  BY DEF IsElement
<1>2. m \in (0..Len(w)) \X (DOMAIN rs) /\ m[1] \in Occurrences(rs[m[2]].lead, w)
  BY Zenon DEF Matches
<1>3. IsRule(rs[m[2]])
  BY <1>2 DEF IsSystem
<1>4. PICK put : /\ put = Put(w, rs[m[2]], m[1])
                 /\ IsElement(put) /\ \A x \in DOMAIN put : Less(x, w) /\ Len(x) >= 2
  BY <1>1, <1>2, <1>3, PutIsSmaller
<1>5. Rewrite(c, w, rs, m) = LcAdd(Without(c, w), Scale(c[w], put))
  BY <1>4 DEF Rewrite, Put
<1>6. IsElement(Scale(c[w], put)) /\ DOMAIN Scale(c[w], put) \subseteq DOMAIN put
  <2>1. c[w] \in Int
    BY <1>1, GroebnerAssumption
  <2>2. IsElement(put)
    BY <1>4
  <2> QED
    BY <2>1, <2>2, ScaleElement
<1>7. IsElement(Without(c, w)) /\ DOMAIN Without(c, w) = DOMAIN c \ {w}
  BY WithoutElement
<1>8. /\ IsElement(LcAdd(Without(c, w), Scale(c[w], put)))
      /\ DOMAIN LcAdd(Without(c, w), Scale(c[w], put))
           \subseteq DOMAIN Without(c, w) \cup DOMAIN Scale(c[w], put)
  BY <1>6, <1>7, AddElement
<1>9. /\ IsElement(Rewrite(c, w, rs, m))
      /\ DOMAIN Rewrite(c, w, rs, m) \subseteq (DOMAIN c \ {w}) \cup DOMAIN put
  <2> SUFFICES ASSUME NEW new, new = Rewrite(c, w, rs, m)
               PROVE  IsElement(new) /\ DOMAIN new \subseteq (DOMAIN c \ {w}) \cup DOMAIN put
    OBVIOUS
  <2> QED
    BY <1>5, <1>6, <1>7, <1>8
<1>10. \A x \in DOMAIN put : Less(x, w) /\ Len(x) >= 2
  BY <1>4
<1> QED
  BY <1>9, <1>10

\* A step of reduce_comb: what can be rewritten afterwards is smaller than the
\* word that was.
LEMMA ReduceOnceDescends ==
  ASSUME NEW rs, IsSystem(rs), NEW c, IsElement(c), Reducible(c, rs) # {}
  PROVE  /\ IsElement(ReduceOnce(c, rs))
         /\ Largest(Reducible(c, rs)) \in DOMAIN c
         /\ \A x \in DOMAIN ReduceOnce(c, rs) :
               x \in DOMAIN c \/ (Less(x, Largest(Reducible(c, rs))) /\ Len(x) >= 2)
         /\ \A x \in Reducible(ReduceOnce(c, rs), rs) : Less(x, Largest(Reducible(c, rs)))
<1>1. DOMAIN c \subseteq Words /\ IsFiniteSet(DOMAIN c)
  BY DEF IsElement
<1>2. Reducible(c, rs) \in SUBSET DOMAIN c
  BY DEF Reducible
<1>3. IsFiniteSet(Reducible(c, rs)) /\ Reducible(c, rs) \in SUBSET Seq(Nat)
  <2>1. IsFiniteSet(Reducible(c, rs))
    BY <1>1, <1>2, FS_Subset
  <2> QED
    BY <1>1, <1>2, <2>1, WordFacts
<1> SUFFICES ASSUME NEW w, w = Largest(Reducible(c, rs))
             PROVE  /\ IsElement(ReduceOnce(c, rs)) /\ w \in DOMAIN c
                    /\ \A x \in DOMAIN ReduceOnce(c, rs) :
                          x \in DOMAIN c \/ (Less(x, w) /\ Len(x) >= 2)
                    /\ \A x \in Reducible(ReduceOnce(c, rs), rs) : Less(x, w)
  OBVIOUS
<1>4. w \in Reducible(c, rs) /\ \A v \in Reducible(c, rs) : v # w => Less(v, w)
  BY <1>3, LargestIsGreatest
<1>5. w \in DOMAIN c /\ w \in Words /\ ~Irreducible(w, rs)
  BY <1>1, <1>4 DEF Reducible
<1>6. FirstFactor(w, rs) \in Matches(w, rs)
  BY <1>5, MatchFound
<1>7. ReduceOnce(c, rs) = Rewrite(c, w, rs, FirstFactor(w, rs))
  BY DEF ReduceOnce
<1>8. /\ IsElement(ReduceOnce(c, rs))
      /\ \A x \in DOMAIN ReduceOnce(c, rs) :
            x \in DOMAIN c \ {w} \/ (Less(x, w) /\ Len(x) >= 2)
  BY <1>5, <1>6, <1>7, RewriteDescends
<1>9. ASSUME NEW x \in Reducible(ReduceOnce(c, rs), rs) PROVE Less(x, w)
  <2>1. x \in DOMAIN ReduceOnce(c, rs) /\ ~Irreducible(x, rs)
    BY DEF Reducible
  <2>2. CASE x \in DOMAIN c \ {w}
    <3>1. x \in Reducible(c, rs) /\ x # w
      BY <2>1, <2>2 DEF Reducible
    <3> QED
      BY <1>4, <3>1
  <2> QED
    BY <1>8, <2>1, <2>2
<1> QED
  BY <1>5, <1>8, <1>9

-----------------------------------------------------------------------------
(* The S-polynomial of an ambiguity, complete.py. *)

IsWithin(c, bound) == \A w \in DOMAIN c : Len(w) >= 2 /\ Len(w) <= bound

LEMMA AmbiguityFacts ==
  ASSUME NEW rs, IsSystem(rs), NEW bound \in Nat, NEW amb \in AllAmbiguities(rs, bound)
  PROVE  /\ amb \in Seq(Nat)
         /\ amb[1] \in DOMAIN rs /\ amb[2] \in DOMAIN rs
         /\ \/ amb[3] = Overlap /\ amb[4] \in Overlaps(rs[amb[1]].lead, rs[amb[2]].lead, bound)
            \/ amb[3] = Inclusion
                 /\ amb[4] \in Inclusions(rs[amb[1]].lead, rs[amb[2]].lead, bound)
<1>1. PICK n \in DOMAIN rs, m \in DOMAIN rs :
         \/ \E b \in Overlaps(rs[n].lead, rs[m].lead, bound) : amb = <<n, m, Overlap, b>>
         \/ \E i \in Inclusions(rs[n].lead, rs[m].lead, bound) : amb = <<n, m, Inclusion, i>>
  BY DEF AllAmbiguities
<1>2. n \in Nat /\ m \in Nat /\ Len(rs[n].lead) \in Nat /\ Len(rs[m].lead) \in Nat
  BY DEF IsSystem, IsRule, Words
<1>3. CASE \E b \in Overlaps(rs[n].lead, rs[m].lead, bound) : amb = <<n, m, Overlap, b>>
  <2>1. PICK b \in Overlaps(rs[n].lead, rs[m].lead, bound) : amb = <<n, m, Overlap, b>>
    BY <1>3
  <2>2. b \in Nat
    BY <1>2 DEF Overlaps
  <2>3. amb \in Seq(Nat)
    BY <1>2, <2>1, <2>2 DEF Overlap
  <2> QED
    BY <2>1, <2>3
<1>4. CASE \E i \in Inclusions(rs[n].lead, rs[m].lead, bound) : amb = <<n, m, Inclusion, i>>
  <2>1. PICK i \in Inclusions(rs[n].lead, rs[m].lead, bound) : amb = <<n, m, Inclusion, i>>
    BY <1>4
  <2>2. i \in Nat
    BY <1>2 DEF Inclusions, Occurrences
  <2>3. amb \in Seq(Nat)
    BY <1>2, <2>1, <2>2 DEF Inclusion
  <2> QED
    BY <2>1, <2>3
<1> QED
  BY <1>1, <1>3, <1>4

\* The tail of a rule inside a context that fits the bound.
LEMMA ContextFits ==
  ASSUME NEW r, IsRule(r), NEW u \in Words, NEW v \in Words, NEW bound \in Nat,
         Len(u) + Len(r.lead) + Len(v) <= bound
  PROVE  IsElement(InContext(u, r.tail, v)) /\ IsWithin(InContext(u, r.tail, v), bound)
<1>1. IsElement(r.tail)
  BY DEF IsRule
<1>2. IsElement(InContext(u, r.tail, v)) /\ Wraps(InContext(u, r.tail, v), u, r.tail, v)
  BY <1>1, ContextElement
<1>3. Len(u) \in Nat /\ Len(v) \in Nat /\ Len(r.lead) \in Nat
  BY DEF IsRule, Words
<1>4. ASSUME NEW t \in DOMAIN r.tail
      PROVE  Len(u \o t \o v) >= 2 /\ Len(u \o t \o v) <= bound
  <2>1. /\ Len(u \o t \o v) \in Nat /\ Len(u \o t \o v) >= 2
        /\ Len(u \o t \o v) <= Len(u) + Len(r.lead) + Len(v)
    BY TailIsSmaller
  <2> QED
    BY <1>3, <2>1
<1>5. \A w \in DOMAIN InContext(u, r.tail, v) : \E t \in DOMAIN r.tail : w = u \o t \o v
  BY <1>2 DEF Wraps
<1> QED
  BY <1>2, <1>4, <1>5 DEF IsWithin

LEMMA SubSeqWord ==
  ASSUME NEW w \in Words, NEW i \in Nat, NEW k \in Nat, k <= Len(w), i <= k
  PROVE  SubSeq(w, i + 1, k) \in Words /\ Len(SubSeq(w, i + 1, k)) = k - i
<1>1. Len(w) \in Nat /\ \A j \in 1..Len(w) : w[j] \in Arrows
  BY DEF Words
<1>2. i + 1 \in Int /\ k \in Int /\ \A j \in (i + 1)..k : j \in 1..Len(w)
  BY <1>1
<1>3. \A j \in (i + 1)..k : w[j] \in Arrows
  BY <1>1, <1>2
<1>4. /\ SubSeq(w, i + 1, k) \in Seq(Arrows)
      /\ Len(SubSeq(w, i + 1, k)) = IF i + 1 <= k THEN k - (i + 1) + 1 ELSE 0
  BY <1>2, <1>3, SubSeqProperties
<1>5. (IF i + 1 <= k THEN k - (i + 1) + 1 ELSE 0) = k - i
  OBVIOUS
<1> QED
  BY <1>4, <1>5 DEF Words

\* The lengths of the two words of an overlap, and of an inclusion.
LEMMA OverlapContexts ==
  ASSUME NEW w1 \in Words, NEW w2 \in Words, NEW bound \in Nat,
         NEW at \in Overlaps(w1, w2, bound)
  PROVE  /\ SubSeq(w1, 1, Len(w1) - at) \in Words
         /\ SubSeq(w2, at + 1, Len(w2)) \in Words
         /\ Len(<<>>) + Len(w1) + Len(SubSeq(w2, at + 1, Len(w2))) <= bound
         /\ Len(SubSeq(w1, 1, Len(w1) - at)) + Len(w2) + Len(<<>>) <= bound
<1>1. Len(w1) \in Nat /\ Len(w2) \in Nat
  BY DEF Words
<1>2. at \in 1..(Len(w1) - 1) /\ at < Len(w2) /\ Len(w1) + Len(w2) - at <= bound
  BY DEF Overlaps, Fits
<1>3. at \in Nat /\ at < Len(w1)
  BY <1>1, <1>2
<1>4. PICK k : k = Len(w1) - at
  OBVIOUS
<1>5. k \in Nat
  BY <1>1, <1>3, <1>4
<1>6. k <= Len(w1)
  BY <1>1, <1>3, <1>4
<1>7. PICK front : front = SubSeq(w1, 1, k)
  OBVIOUS
<1>8. front \in Words /\ Len(front) = k
  <2>1. 0 \in Nat /\ 0 <= k
    BY <1>5
  <2>2. SubSeq(w1, 0 + 1, k) \in Words /\ Len(SubSeq(w1, 0 + 1, k)) = k - 0
    BY <1>5, <1>6, <2>1, SubSeqWord
  <2>3. 0 + 1 = 1 /\ k - 0 = k
    BY <1>5
  <2> QED
    BY <1>7, <2>2, <2>3
<1>9. PICK back : back = SubSeq(w2, at + 1, Len(w2))
  OBVIOUS
<1>10. back \in Words /\ Len(back) = Len(w2) - at
  <2>1. at <= Len(w2) /\ Len(w2) <= Len(w2)
    BY <1>1, <1>2, <1>3
  <2>2. /\ SubSeq(w2, at + 1, Len(w2)) \in Words
        /\ Len(SubSeq(w2, at + 1, Len(w2))) = Len(w2) - at
    BY <1>1, <1>3, <2>1, SubSeqWord
  <2> QED
    BY <1>9, <2>2
<1>11. Len(<<>>) = 0
  BY WordFacts
<1>12. Len(<<>>) + Len(w1) + Len(back) <= bound
  BY <1>1, <1>2, <1>3, <1>10, <1>11
<1>13. Len(front) + Len(w2) + Len(<<>>) <= bound
  BY <1>1, <1>2, <1>3, <1>4, <1>8, <1>11
<1> QED
  BY <1>4, <1>7, <1>8, <1>9, <1>10, <1>12, <1>13

LEMMA InclusionContexts ==
  ASSUME NEW w1 \in Words, NEW w2 \in Words, NEW bound \in Nat,
         NEW at \in Inclusions(w1, w2, bound)
  PROVE  /\ SubSeq(w1, 1, at) \in Words
         /\ SubSeq(w1, at + Len(w2) + 1, Len(w1)) \in Words
         /\ Len(SubSeq(w1, 1, at)) + Len(w2) + Len(SubSeq(w1, at + Len(w2) + 1, Len(w1))) <= bound
         /\ Len(w1) <= bound
<1>1. Len(w1) \in Nat /\ Len(w2) \in Nat
  BY DEF Words
<1>2. at \in Occurrences(w2, w1) /\ Len(w1) <= bound
  BY DEF Inclusions, Fits
<1>3. at \in Nat
  BY <1>1, <1>2 DEF Occurrences
<1>4. PICK a : a = SubSeq(w1, 1, at)
  OBVIOUS
<1>5. PICK b : b = SubSeq(w1, at + Len(w2) + 1, Len(w1))
  OBVIOUS
<1>6. /\ SubSeq(w1, 1, at) \in Words /\ Len(SubSeq(w1, 1, at)) = at
      /\ SubSeq(w1, at + Len(w2) + 1, Len(w1)) \in Words
      /\ Len(SubSeq(w1, at + Len(w2) + 1, Len(w1))) = Len(w1) - (at + Len(w2))
  BY <1>2, Factored
<1>7. a \in Words /\ Len(a) = at /\ b \in Words /\ Len(b) = Len(w1) - (at + Len(w2))
  BY <1>4, <1>5, <1>6
<1>8. Len(a) + Len(w2) + Len(b) <= bound
  BY <1>1, <1>2, <1>3, <1>7
<1> QED
  BY <1>2, <1>4, <1>5, <1>7, <1>8

LEMMA SPolynomialFits ==
  ASSUME NEW rs, IsSystem(rs), NEW bound \in Nat, NEW amb \in AllAmbiguities(rs, bound)
  PROVE  IsElement(SPolynomial(amb, rs)) /\ IsWithin(SPolynomial(amb, rs), bound)
<1>1. PICK left, right, at : left = rs[amb[1]] /\ right = rs[amb[2]] /\ at = amb[4]
  OBVIOUS
<1>2. /\ IsRule(left) /\ IsRule(right)
      /\ \/ amb[3] = Overlap /\ at \in Overlaps(left.lead, right.lead, bound)
         \/ amb[3] = Inclusion /\ at \in Inclusions(left.lead, right.lead, bound)
  BY <1>1, AmbiguityFacts DEF IsSystem
<1>3. left.lead \in Words /\ right.lead \in Words
  BY <1>2 DEF IsRule
<1>4. ASSUME NEW a, IsElement(a), IsWithin(a, bound), NEW b, IsElement(b), IsWithin(b, bound)
      PROVE  IsElement(LcSub(a, b)) /\ IsWithin(LcSub(a, b), bound)
  BY <1>4, AddElement DEF IsWithin
<1>5. CASE amb[3] = Overlap
  <2>1. at \in Overlaps(left.lead, right.lead, bound)
    BY <1>2, <1>5 DEF Overlap, Inclusion
  <2>2. PICK front, back :
           /\ front = SubSeq(left.lead, 1, Len(left.lead) - at) /\ front \in Words
           /\ back = SubSeq(right.lead, at + 1, Len(right.lead)) /\ back \in Words
           /\ Len(<<>>) + Len(left.lead) + Len(back) <= bound
           /\ Len(front) + Len(right.lead) + Len(<<>>) <= bound
    BY <1>3, <2>1, OverlapContexts
  <2>3. /\ front \in Words /\ back \in Words /\ <<>> \in Words
        /\ Len(<<>>) + Len(left.lead) + Len(back) <= bound
        /\ Len(front) + Len(right.lead) + Len(<<>>) <= bound
    BY <2>2, WordFacts
  <2>4. /\ IsElement(InContext(<<>>, left.tail, back))
        /\ IsWithin(InContext(<<>>, left.tail, back), bound)
    BY <1>2, <2>3, ContextFits
  <2>5. /\ IsElement(InContext(front, right.tail, <<>>))
        /\ IsWithin(InContext(front, right.tail, <<>>), bound)
    BY <1>2, <2>3, ContextFits
  <2>6. SPolynomial(amb, rs)
          = LcSub(InContext(<<>>, left.tail, back), InContext(front, right.tail, <<>>))
    BY <1>1, <1>5, <2>2 DEF SPolynomial
  <2> QED
    BY <1>4, <2>4, <2>5, <2>6
<1>6. CASE amb[3] # Overlap
  <2>1. at \in Inclusions(left.lead, right.lead, bound)
    BY <1>2, <1>6
  <2>2. PICK a, b :
           /\ a = SubSeq(left.lead, 1, at) /\ a \in Words
           /\ b = SubSeq(left.lead, at + Len(right.lead) + 1, Len(left.lead)) /\ b \in Words
           /\ Len(a) + Len(right.lead) + Len(b) <= bound /\ Len(left.lead) <= bound
    BY <1>3, <2>1, InclusionContexts
  <2>3. /\ a \in Words /\ b \in Words
        /\ Len(a) + Len(right.lead) + Len(b) <= bound /\ Len(left.lead) <= bound
    BY <2>2
  <2>4. IsElement(InContext(a, right.tail, b)) /\ IsWithin(InContext(a, right.tail, b), bound)
    BY <1>2, <2>3, ContextFits
  <2>5. IsElement(left.tail) /\ IsWithin(left.tail, bound)
    <3>1. ASSUME NEW t \in DOMAIN left.tail PROVE Len(t) >= 2 /\ Len(t) <= bound
      <4>1. /\ t \in Seq(Nat) /\ left.lead \in Seq(Nat)
            /\ Less(t, left.lead) /\ Len(t) >= 2
        BY <1>2, WordFacts DEF IsRule, IsElement
      <4>2. Len(t) < Len(left.lead) \/ Len(t) = Len(left.lead)
        BY <4>1, LessMeans
      <4>3. Len(t) \in Nat /\ Len(left.lead) \in Nat
        BY <4>1, NumberSeq
      <4>4. Len(t) <= bound
        BY <2>3, <4>2, <4>3
      <4> QED
        BY <4>1, <4>4
    <3> QED
      BY <1>2, <3>1 DEF IsRule, IsWithin
  <2>6. SPolynomial(amb, rs) = LcSub(left.tail, InContext(a, right.tail, b))
    BY <1>1, <1>6, <2>2 DEF SPolynomial
  <2> QED
    BY <1>4, <2>4, <2>5, <2>6
<1> QED
  BY <1>5, <1>6

-----------------------------------------------------------------------------
(* The specification. *)

\* The ambiguities left are ambiguities of the rules as they are, and the
\* element at work is made of words within the bound.
TodoIsMade == pc \in {"completing", "reducing"} => todo \subseteq AllAmbiguities(rules, input.bound)
WorkFits   == pc = "reducing" => IsWithin(work, input.bound)

IInv == TypeOK /\ TodoIsMade /\ WorkFits

LEMMA InputFacts ==
  ASSUME NEW p \in Presentations
  PROVE  /\ p.bound \in Nat
         /\ IsList(p.rels)
         /\ \A k \in DOMAIN p.rels :
               /\ IsFiniteSet(DOMAIN p.rels[k]) /\ DOMAIN p.rels[k] \subseteq Words
               /\ \A w \in DOMAIN p.rels[k] : p.rels[k][w] \in Int
BY GroebnerAssumption

LEMMA FunctionIsSeq ==
  ASSUME NEW T, NEW n \in Nat, NEW f \in [1..n -> T]
  PROVE  f \in Seq(T)
BY Zenon, SeqDef

LEMMA ListOf ==
  ASSUME NEW f, NEW n \in Nat, f \in [1..n -> {f[k] : k \in DOMAIN f}]
  PROVE  IsList(f)
<1> DEFINE T == {f[k] : k \in DOMAIN f}
<1>1. f \in [1..n -> T]
  OBVIOUS
<1> HIDE DEF T
<1>2. f \in Seq(T)
  BY <1>1, FunctionIsSeq
<1> QED
  BY <1>2 DEF IsList, T

LEMMA ListDomain ==
  ASSUME NEW f, IsList(f)
  PROVE  /\ Len(f) \in Nat /\ DOMAIN f = 1..Len(f)
         /\ IsFiniteSet(DOMAIN f) /\ DOMAIN f \subseteq Nat \ {0}
<1>1. f \in Seq({f[k] : k \in DOMAIN f})
  BY DEF IsList
<1>2. Len(f) \in Nat /\ DOMAIN f = 1..Len(f)
  BY <1>1, LenProperties
<1>3. IsFiniteSet(1..Len(f))
  <2>1. 1 \in Int /\ Len(f) \in Int
    BY <1>2
  <2> QED
    BY <2>1, FS_Interval
<1>4. 1..Len(f) \subseteq Nat \ {0}
  BY <1>2
<1> QED
  BY <1>2, <1>3, <1>4

LEMMA CoercedElement ==
  ASSUME NEW rel, IsFiniteSet(DOMAIN rel), DOMAIN rel \subseteq Words,
         \A w \in DOMAIN rel : rel[w] \in Int
  PROVE  IsElement(Coerced(rel)) /\ DOMAIN Coerced(rel) \subseteq DOMAIN rel
<1>1. Coerced(rel) = [w \in {v \in DOMAIN rel : rel[v] % P # 0} |-> rel[w] % P]
  BY DEF Coerced, Element
<1> QED
  BY <1>1, NewElement

LEMMA InitInv == Init => IInv
<1> SUFFICES ASSUME Init PROVE IInv
  OBVIOUS
<1>1. DOMAIN rules = {} /\ rules = <<>>
  BY DEF Init
<1>2. IsFiniteSet(DOMAIN rules)
  BY <1>1, FS_EmptySet
<1>3. IsList(rules)
  BY <1>1 DEF IsList
<1>4. IsElement(work)
  BY ZeroElement DEF Init
<1>5. TypeOK
  BY <1>1, <1>2, <1>3, <1>4 DEF Init, TypeOK
<1> QED
  BY <1>5 DEF Init, IInv, TodoIsMade, WorkFits

LEMMA OrientStep == IInv /\ Orient => IInv'
<1> SUFFICES ASSUME IInv, Orient PROVE IInv'
  OBVIOUS
<1>1. input \in Presentations /\ IsElement(work)
  BY DEF IInv, TypeOK
<1>2. /\ Usable /\ pc' = "completing" /\ input' = input /\ work' = work
      /\ rules' = [k \in DOMAIN Rels |-> RuleFromComb(Rels[k])]
      /\ todo' = AllAmbiguities(rules', input.bound)
  BY DEF Orient
<1>3. DOMAIN Rels = DOMAIN input.rels /\ \A k \in DOMAIN Rels : Rels[k] = Coerced(input.rels[k])
  BY DEF Rels
<1>4. ASSUME NEW k \in DOMAIN Rels PROVE IsRule(RuleFromComb(Rels[k]))
  <2>1. IsElement(Rels[k]) /\ DOMAIN Rels[k] \subseteq DOMAIN input.rels[k]
    BY <1>1, <1>3, InputFacts, CoercedElement
  <2>2. Rels[k] # Zero /\ \A w \in DOMAIN input.rels[k] : Len(w) >= 2
    BY <1>2, <1>3 DEF Usable
  <2> QED
    BY <2>1, <2>2, CombRule
<1>5. DOMAIN rules' = DOMAIN Rels /\ \A k \in DOMAIN rules' : IsRule(rules'[k])
  BY <1>2, <1>4
<1>6. IsList(rules')
  <2>1. Len(input.rels) \in Nat /\ DOMAIN input.rels = 1..Len(input.rels)
    BY <1>1, InputFacts, ListDomain
  <2>2. DOMAIN rules' = 1..Len(input.rels)
    BY <1>3, <1>5, <2>1
  <2> SUFFICES ASSUME NEW f, f = rules' PROVE IsList(f)
    OBVIOUS
  <2>3. f = [k \in 1..Len(input.rels) |-> f[k]]
    BY <1>2, <2>2
  <2>4. f \in [1..Len(input.rels) -> {f[k] : k \in DOMAIN f}]
    BY <2>2, <2>3
  <2>5. f \in Seq({f[k] : k \in DOMAIN f})
    BY <2>1, <2>4
  <2> QED
    BY <2>5 DEF IsList
<1>7. IsFiniteSet(DOMAIN rules') /\ DOMAIN rules' \subseteq Nat \ {0}
  BY <1>6, ListDomain
<1>8. TypeOK'
  BY <1>1, <1>2, <1>5, <1>6, <1>7 DEF TypeOK
<1>9. TodoIsMade' /\ WorkFits'
  BY <1>2 DEF TodoIsMade, WorkFits
<1> QED
  BY <1>8, <1>9 DEF IInv

LEMMA SystemFacts ==
  ASSUME IInv
  PROVE  IsSystem(rules) /\ IsElement(work) /\ input \in Presentations /\ input.bound \in Nat
BY InputFacts DEF IInv, TypeOK, IsSystem

LEMMA CompareStep == IInv /\ Compare => IInv'
<1> SUFFICES ASSUME IInv, Compare PROVE IInv'
  OBVIOUS
<1>1. IsSystem(rules) /\ input.bound \in Nat
  BY SystemFacts
<1>2. /\ pc = "completing" /\ todo # {} /\ pc' = "reducing"
      /\ input' = input /\ rules' = rules
      /\ work' = SPolynomial(Smallest(todo), rules)
      /\ todo' = todo \ {Smallest(todo)}
  BY DEF Compare
<1>3. todo \subseteq AllAmbiguities(rules, input.bound)
  BY <1>2 DEF IInv, TodoIsMade
<1>4. \A amb \in todo : amb \in Seq(Nat)
  BY <1>1, <1>3, AmbiguityFacts
<1>5. Smallest(todo) \in AllAmbiguities(rules, input.bound)
  BY <1>2, <1>3, <1>4, SmallestIsLeast
<1>6. IsElement(work') /\ IsWithin(work', input.bound)
  BY <1>1, <1>2, <1>5, SPolynomialFits
<1>7. TypeOK'
  BY <1>2, <1>6 DEF IInv, TypeOK
<1>8. TodoIsMade'
  BY <1>2, <1>3 DEF TodoIsMade
<1>9. WorkFits'
  BY <1>2, <1>6 DEF WorkFits
<1> QED
  BY <1>7, <1>8, <1>9 DEF IInv

LEMMA ReduceStep == IInv /\ Reduce => IInv'
<1> SUFFICES ASSUME IInv, Reduce PROVE IInv'
  OBVIOUS
<1>1. IsSystem(rules) /\ IsElement(work) /\ input.bound \in Nat
  BY SystemFacts
<1>2. /\ pc = "reducing" /\ Reducible(work, rules) # {}
      /\ work' = ReduceOnce(work, rules)
      /\ input' = input /\ pc' = pc /\ rules' = rules /\ todo' = todo
  BY DEF Reduce
<1>3. PICK w : w = Largest(Reducible(work, rules))
  OBVIOUS
<1>4. /\ IsElement(work') /\ w \in DOMAIN work
      /\ \A x \in DOMAIN work' : x \in DOMAIN work \/ (Less(x, w) /\ Len(x) >= 2)
  BY <1>1, <1>2, <1>3, ReduceOnceDescends
<1>5. IsWithin(work, input.bound)
  BY <1>2 DEF IInv, WorkFits
<1>6. ASSUME NEW x \in DOMAIN work' PROVE Len(x) >= 2 /\ Len(x) <= input.bound
  <2>1. CASE x \in DOMAIN work
    BY <1>5, <2>1 DEF IsWithin
  <2>2. CASE Less(x, w) /\ Len(x) >= 2
    <3>1. x \in Seq(Nat) /\ w \in Seq(Nat)
      BY <1>1, <1>4, WordFacts DEF IsElement
    <3>2. Len(x) < Len(w) \/ Len(x) = Len(w)
      BY <2>2, <3>1, LessMeans
    <3>3. Len(x) \in Nat /\ Len(w) \in Nat
      BY <3>1, NumberSeq
    <3>4. Len(w) <= input.bound
      BY <1>4, <1>5 DEF IsWithin
    <3>5. Len(x) <= input.bound
      BY <1>1, <3>2, <3>3, <3>4
    <3> QED
      BY <2>2, <3>5
  <2> QED
    BY <1>4, <2>1, <2>2
<1>7. TypeOK'
  BY <1>2, <1>4 DEF IInv, TypeOK
<1>8. TodoIsMade' /\ WorkFits'
  BY <1>2, <1>6 DEF IInv, TodoIsMade, WorkFits, IsWithin
<1> QED
  BY <1>7, <1>8 DEF IInv

LEMMA ExtendFacts ==
  ASSUME IInv, Extend
  PROVE  /\ Len(rules) \in Nat /\ IsList(rules)
         /\ IsRule(RuleFromComb(work)) /\ RuleFromComb(work).lead \in DOMAIN work
         /\ rules' = Append(rules, RuleFromComb(work))
         /\ IsList(rules') /\ Len(rules') = Len(rules) + 1
         /\ \A n \in DOMAIN rules' :
               rules'[n] = IF n = Len(rules) + 1 THEN RuleFromComb(work) ELSE rules[n]
         /\ \A n \in DOMAIN rules' : n = Len(rules) + 1 \/ n \in DOMAIN rules
<1>1. pc = "reducing" /\ work # Zero /\ rules' = Append(rules, RuleFromComb(work))
  BY DEF Extend
<1>2. IsList(rules) /\ IsElement(work) /\ \A w \in DOMAIN work : Len(w) >= 2
  BY <1>1 DEF IInv, TypeOK, WorkFits, IsWithin
<1>3. IsRule(RuleFromComb(work)) /\ RuleFromComb(work).lead \in DOMAIN work
  BY <1>1, <1>2, CombRule
<1>4. Len(rules) \in Nat /\ DOMAIN rules = 1..Len(rules)
  BY <1>2, ListDomain
<1> SUFFICES ASSUME NEW f, f = Append(rules, RuleFromComb(work)), NEW r, r = RuleFromComb(work)
             PROVE  /\ IsList(f) /\ Len(f) = Len(rules) + 1
                    /\ \A n \in DOMAIN f : f[n] = IF n = Len(rules) + 1 THEN r ELSE rules[n]
                    /\ \A n \in DOMAIN f : n = Len(rules) + 1 \/ n \in DOMAIN rules
  BY <1>1, <1>2, <1>3, <1>4
<1> DEFINE S == {rules[n] : n \in DOMAIN rules} \cup {r}
<1>5. rules \in Seq(S) /\ r \in S
  <2>1. rules \in Seq({rules[n] : n \in DOMAIN rules})
    BY <1>2 DEF IsList
  <2>2. {rules[n] : n \in DOMAIN rules} \subseteq S /\ r \in S
    OBVIOUS
  <2> HIDE DEF S
  <2> QED
    BY <2>1, <2>2, SeqMonotonic
<1> HIDE DEF S
<1>6. /\ f \in Seq(S) /\ Len(f) = Len(rules) + 1
      /\ \A i \in 1..Len(rules) : f[i] = rules[i]
      /\ f[Len(rules) + 1] = r
  BY <1>5, AppendProperties
<1>7. DOMAIN f = 1..(Len(rules) + 1)
  BY <1>6, LenProperties
<1>8. ASSUME NEW n \in DOMAIN f
      PROVE  /\ f[n] = IF n = Len(rules) + 1 THEN r ELSE rules[n]
             /\ n = Len(rules) + 1 \/ n \in DOMAIN rules
  <2>1. n = Len(rules) + 1 \/ n \in 1..Len(rules)
    BY <1>4, <1>7
  <2>2. n \in 1..Len(rules) => n # Len(rules) + 1
    BY <1>4
  <2> QED
    BY <1>4, <1>6, <2>1, <2>2
<1>9. IsList(f)
  <2>1. Len(rules) + 1 \in Nat
    BY <1>4
  <2>2. f \in [1..(Len(rules) + 1) -> {f[k] : k \in DOMAIN f}]
    <3>1. f = [k \in 1..(Len(rules) + 1) |-> f[k]]
      <4>1. f \in [1..Len(f) -> S]
        BY <1>6, LenProperties
      <4> QED
        BY <1>6, <4>1
    <3> QED
      BY <1>7, <3>1
  <2> QED
    BY <2>1, <2>2, ListOf
<1> QED
  BY <1>6, <1>8, <1>9

LEMMA ExtendStep == IInv /\ Extend => IInv'
<1> SUFFICES ASSUME IInv, Extend PROVE IInv'
  OBVIOUS
<1>1. /\ pc' \in {"refused", "completing"} /\ input' = input
      /\ todo' = AllAmbiguities(rules', input.bound)
      /\ work' = Zero
  BY DEF Extend
<1>2. IsList(rules')
  BY ExtendFacts
<1>3. \A n \in DOMAIN rules' : IsRule(rules'[n])
  <2> SUFFICES ASSUME NEW n \in DOMAIN rules' PROVE IsRule(rules'[n])
    OBVIOUS
  <2>1. CASE n = Len(rules) + 1
    BY <2>1, ExtendFacts
  <2>2. CASE n # Len(rules) + 1
    <3>1. n \in DOMAIN rules /\ rules'[n] = rules[n]
      BY <2>2, ExtendFacts
    <3>2. IsRule(rules[n])
      BY <3>1 DEF IInv, TypeOK
    <3> QED
      BY <3>1, <3>2
  <2> QED
    BY <2>1, <2>2
<1>4. IsFiniteSet(DOMAIN rules') /\ DOMAIN rules' \subseteq Nat \ {0}
  BY <1>2, ListDomain
<1>5. IsElement(work')
  BY <1>1, ZeroElement
<1>6. TypeOK'
  BY <1>1, <1>2, <1>3, <1>4, <1>5 DEF IInv, TypeOK
<1>7. TodoIsMade' /\ WorkFits'
  BY <1>1 DEF TodoIsMade, WorkFits
<1> QED
  BY <1>6, <1>7 DEF IInv

LEMMA CleanUpStep == IInv /\ CleanUp => IInv'
<1> SUFFICES ASSUME IInv, CleanUp PROVE IInv'
  OBVIOUS
<1>1. /\ rules' = MinimizeLeads(rules) /\ pc' = "cleaned"
      /\ input' = input /\ todo' = todo /\ work' = work
  BY DEF CleanUp
<1>2. DOMAIN rules' \subseteq DOMAIN rules /\ \A n \in DOMAIN rules' : rules'[n] = rules[n]
  BY <1>1 DEF MinimizeLeads
<1>3. IsFiniteSet(DOMAIN rules') /\ DOMAIN rules' \subseteq Nat \ {0}
  <2>1. IsFiniteSet(DOMAIN rules) /\ DOMAIN rules \subseteq Nat \ {0}
    BY DEF IInv, TypeOK
  <2>2. ASSUME NEW T, T \subseteq DOMAIN rules
        PROVE  IsFiniteSet(T) /\ T \subseteq Nat \ {0}
    <3>1. IsFiniteSet(DOMAIN rules) /\ T \in SUBSET DOMAIN rules
      BY <2>1, <2>2
    <3>2. IsFiniteSet(T)
      BY <3>1, FS_Subset
    <3> QED
      BY <2>1, <2>2, <3>2
  <2> QED
    BY <1>2, <2>2
<1>4. TypeOK'
  BY <1>1, <1>2, <1>3 DEF IInv, TypeOK
<1> QED
  BY <1>1, <1>4 DEF IInv, TodoIsMade, WorkFits

LEMMA StepInv == IInv /\ [Next]_vars => IInv'
<1> SUFFICES ASSUME IInv, [Next]_vars PROVE IInv'
  OBVIOUS
<1>1. CASE RefuseRelation
  BY <1>1 DEF RefuseRelation, Stop, IInv, TypeOK, TodoIsMade, WorkFits
<1>2. CASE Orient
  BY <1>2, OrientStep
<1>3. CASE Compare
  BY <1>3, CompareStep
<1>4. CASE Reduce
  BY <1>4, ReduceStep
<1>5. CASE Resolve
  BY <1>5 DEF Resolve, IInv, TypeOK, TodoIsMade, WorkFits
<1>6. CASE Extend
  BY <1>6, ExtendStep
<1>7. CASE CleanUp
  BY <1>7, CleanUpStep
<1>8. CASE Certify
  BY <1>8 DEF Certify, Stop, IInv, TypeOK, TodoIsMade, WorkFits
<1>9. CASE UNCHANGED vars
  BY <1>9 DEF vars, IInv, TypeOK, TodoIsMade, WorkFits
<1> QED
  BY <1>1, <1>2, <1>3, <1>4, <1>5, <1>6, <1>7, <1>8, <1>9 DEF Next

LEMMA CompletionInvariant == Spec => []IInv
BY InitInv, StepInv, PTL DEF Spec

\* Every rule rewrites a path of at least two arrows into smaller ones
\* (reduction.py:38), on any presentation.
THEOREM TypeCorrect == Spec => []TypeOK
<1>1. IInv => TypeOK
  BY DEF IInv
<1> QED
  BY <1>1, CompletionInvariant, PTL

-----------------------------------------------------------------------------
(* Why completion ends. *)

\* A rule that completion adds has a leading word within the bound that no
\* other rule reduces (complete.py:9).
THEOREM RulesAreNew == Spec => EachRuleIsNew
<1> DEFINE New == Extend => LET lead == rules'[Len(rules')].lead IN
                            /\ Irreducible(lead, rules)
                            /\ Len(lead) <= input.bound
<1>1. IInv /\ [Next]_vars => [New]_vars
  <2> SUFFICES ASSUME IInv, Extend, NEW lead, lead = rules'[Len(rules')].lead
               PROVE  Irreducible(lead, rules) /\ Len(lead) <= input.bound
    OBVIOUS
  <2>1. lead = RuleFromComb(work).lead /\ lead \in DOMAIN work
    <3>1. IsList(rules') /\ Len(rules') = Len(rules) + 1 /\ Len(rules) \in Nat
      BY ExtendFacts
    <3>2. Len(rules') \in DOMAIN rules'
      <4> SUFFICES ASSUME NEW f, IsList(f), Len(f) = Len(rules) + 1 PROVE Len(f) \in DOMAIN f
        BY <3>1
      <4>1. DOMAIN f = 1..Len(f)
        BY ListDomain
      <4> QED
        BY <3>1, <4>1
    <3>3. rules'[Len(rules')] = RuleFromComb(work)
      BY <3>1, <3>2, ExtendFacts
    <3> QED
      BY <3>3, ExtendFacts
  <2>2. Reducible(work, rules) = {} /\ pc = "reducing"
    BY DEF Extend
  <2>3. Irreducible(lead, rules)
    BY <2>1, <2>2 DEF Reducible
  <2>4. Len(lead) <= input.bound
    BY <2>1, <2>2 DEF IInv, WorkFits, IsWithin
  <2> QED
    BY <2>3, <2>4
<1> HIDE DEF New
<1>2. Spec => [][New]_vars
  BY <1>1, CompletionInvariant, PTL DEF Spec
<1> QED
  BY <1>2 DEF New, EachRuleIsNew

\* Each rewriting of a reduction is at a smaller word than the one before
\* (reduction.py:76): by NoInfiniteDescent, every reduction ends.
THEOREM ReductionDescends == Spec => RewritingDescends
<1> DEFINE Down == Reduce => \A w \in Reducible(work', rules) :
                                Less(w, Largest(Reducible(work, rules)))
<1>1. IInv /\ [Next]_vars => [Down]_vars
  <2> SUFFICES ASSUME IInv, Reduce, NEW w \in Reducible(work', rules)
               PROVE  Less(w, Largest(Reducible(work, rules)))
    OBVIOUS
  <2>1. IsSystem(rules) /\ IsElement(work)
    BY SystemFacts
  <2>2. Reducible(work, rules) # {} /\ work' = ReduceOnce(work, rules)
    BY DEF Reduce
  <2>3. w \in Reducible(ReduceOnce(work, rules), rules)
    BY <2>2
  <2> QED
    BY <2>1, <2>2, <2>3, ReduceOnceDescends
<1> HIDE DEF Down
<1>2. Spec => [][Down]_vars
  BY <1>1, CompletionInvariant, PTL DEF Spec
<1> QED
  BY <1>2 DEF Down, RewritingDescends

LEMMA LongFactor ==
  ASSUME NEW f \in Words, NEW w \in Words, Occurrences(f, w) # {}
  PROVE  Len(f) <= Len(w)
<1>1. PICK i \in 0..(Len(w) - Len(f)) : TRUE
  BY DEF Occurrences
<1>2. Len(f) \in Nat /\ Len(w) \in Nat
  BY DEF Words
<1> QED
  BY <1>1, <1>2

\* No rule rewrites an arrow or a vertex (system.py:57, "the ideal is not inside
\* the square of the arrow ideal" otherwise).
THEOREM ArrowsSurvive == Spec => []ArrowsAreIrreducible
<1>1. IInv => ArrowsAreIrreducible
  <2> SUFFICES ASSUME IInv, NEW k \in 0..1, NEW w \in [1..k -> Arrows], NEW m \in Matches(w, rules)
               PROVE  FALSE
    BY DEF ArrowsAreIrreducible, Irreducible
  <2>1. k \in Nat /\ w \in Words /\ Len(w) = k
    BY DEF Words
  <2>2. m \in (0..Len(w)) \X (DOMAIN rules) /\ m[1] \in Occurrences(rules[m[2]].lead, w)
    BY Zenon DEF Matches
  <2>3. IsRule(rules[m[2]])
    <3>1. m[2] \in DOMAIN rules
      BY <2>2
    <3> QED
      BY <3>1 DEF IInv, TypeOK
  <2>4. rules[m[2]].lead \in Words /\ Len(rules[m[2]].lead) >= 2
    BY <2>3 DEF IsRule
  <2>5. Len(rules[m[2]].lead) <= Len(w)
    BY <2>1, <2>2, <2>4, LongFactor
  <2>6. Len(rules[m[2]].lead) \in Nat
    BY <2>4 DEF Words
  <2> QED
    BY <2>1, <2>4, <2>5, <2>6
<1> QED
  BY <1>1, CompletionInvariant, PTL

-----------------------------------------------------------------------------
(* What the cleanup keeps, complete.py:41. *)

LEMMA Kept ==
  ASSUME NEW rs, NEW n
  PROVE  /\ n \in DOMAIN MinimizeLeads(rs) <=>
               /\ n \in DOMAIN rs
               /\ \A m \in DOMAIN rs : ~(m < n /\ rs[m].lead = rs[n].lead)
               /\ \A m \in DOMAIN rs : Len(rs[m].lead) < Len(rs[n].lead)
                                       => Occurrences(rs[m].lead, rs[n].lead) = {}
         /\ n \in DOMAIN MinimizeLeads(rs) => MinimizeLeads(rs)[n] = rs[n]
BY DEF MinimizeLeads

\* A factor that is as long as the word is the word.
LEMMA WholeFactor ==
  ASSUME NEW f \in Words, NEW w \in Words, Len(f) = Len(w), Occurrences(f, w) # {}
  PROVE  f = w
<1>1. PICK i \in 0..(Len(w) - Len(f)) : SubSeq(w, i + 1, i + Len(f)) = f
  BY DEF Occurrences
<1>2. Len(w) \in Nat /\ w \in Seq(Arrows)
  BY DEF Words
<1>3. i = 0
  BY <1>1, <1>2
<1>4. i + 1 = 1 /\ i + Len(f) = Len(w)
  BY <1>2, <1>3
<1> QED
  BY <1>1, <1>2, <1>4, SubSeqFull

LEMMA MinimalLeads ==
  ASSUME NEW rs, IsSystem(rs), NEW n \in DOMAIN MinimizeLeads(rs),
         NEW m \in DOMAIN MinimizeLeads(rs), n # m
  PROVE  Occurrences(rs[n].lead, rs[m].lead) = {}
<1> SUFFICES ASSUME Occurrences(rs[n].lead, rs[m].lead) # {} PROVE FALSE
  OBVIOUS
<1>1. n \in DOMAIN rs /\ m \in DOMAIN rs
  BY Kept
<1>2. n \in Nat /\ m \in Nat /\ rs[n].lead \in Words /\ rs[m].lead \in Words
  BY <1>1 DEF IsSystem, IsRule
<1>3. Len(rs[n].lead) \in Nat /\ Len(rs[m].lead) \in Nat
  BY <1>2 DEF Words
<1>4. Len(rs[n].lead) <= Len(rs[m].lead)
  BY <1>2, LongFactor
<1>5. ~(Len(rs[n].lead) < Len(rs[m].lead))
  BY <1>1, Kept
<1>6. Len(rs[n].lead) = Len(rs[m].lead)
  BY <1>3, <1>4, <1>5
<1>7. rs[n].lead = rs[m].lead
  BY <1>2, <1>6, WholeFactor
<1>8. ~(n < m)
  BY <1>1, <1>7, Kept
<1>9. ~(m < n)
  BY <1>1, <1>7, Kept
<1> QED
  BY <1>2, <1>8, <1>9

\* The leading words that are left form an antichain (complete.py:44).
THEOREM CleanedIsAntichain == Spec => []LeadsAreAntichain
<1>1. Init => LeadsAreAntichain
  BY DEF Init, LeadsAreAntichain
<1>2. IInv /\ LeadsAreAntichain /\ [Next]_vars => LeadsAreAntichain'
  <2> SUFFICES ASSUME IInv, LeadsAreAntichain, [Next]_vars PROVE LeadsAreAntichain'
    OBVIOUS
  <2>1. CASE CleanUp
    <3>1. IsSystem(rules)
      BY SystemFacts
    <3>2. rules' = MinimizeLeads(rules)
      BY <2>1 DEF CleanUp
    <3>3. ASSUME NEW n \in DOMAIN MinimizeLeads(rules), NEW m \in DOMAIN MinimizeLeads(rules),
                 n # m
          PROVE  Occurrences(MinimizeLeads(rules)[n].lead, MinimizeLeads(rules)[m].lead) = {}
      <4>1. Occurrences(rules[n].lead, rules[m].lead) = {}
        BY <3>1, <3>3, MinimalLeads
      <4>2. MinimizeLeads(rules)[n] = rules[n] /\ MinimizeLeads(rules)[m] = rules[m]
        BY Kept
      <4> QED
        BY <4>1, <4>2
    <3> QED
      BY <3>2, <3>3 DEF LeadsAreAntichain
  <2>2. CASE RefuseRelation \/ Certify
    <3>1. rules' = rules /\ (pc' \in {"cleaned", "certified"} => pc = "cleaned")
      BY <2>2 DEF RefuseRelation, Certify, Stop
    <3> QED
      BY <3>1 DEF LeadsAreAntichain
  <2>3. CASE Orient \/ Compare \/ Reduce \/ Resolve \/ Extend
    <3>1. pc' \notin {"cleaned", "certified"}
      BY <2>3 DEF Orient, Compare, Reduce, Resolve, Extend
    <3> QED
      BY <3>1 DEF LeadsAreAntichain
  <2>4. CASE UNCHANGED vars
    BY <2>4 DEF vars, LeadsAreAntichain
  <2> QED
    BY <2>1, <2>2, <2>3, <2>4 DEF Next
<1> QED
  BY <1>1, <1>2, CompletionInvariant, PTL DEF Spec

LEMMA FactorPlace ==
  ASSUME NEW w \in Words, NEW i \in Nat, NEW n \in Nat, i + n <= Len(w), NEW k \in 1..n
  PROVE  SubSeq(w, i + 1, i + n)[k] = w[i + k]
<1>1. Len(w) \in Nat /\ \A p \in 1..Len(w) : w[p] \in Arrows
  BY DEF Words
<1>2. \A p \in (i + 1)..(i + n) : p \in 1..Len(w)
  BY <1>1
<1>3. \A p \in (i + 1)..(i + n) : w[p] \in Arrows
  BY <1>1, <1>2
<1>4. PICK m1, m2 : m1 = i + 1 /\ m2 = i + n
  OBVIOUS
<1>5. m1 \in Int /\ m2 \in Int /\ k \in 1..(m2 - m1 + 1) /\ m1 + k - 1 = i + k
  BY <1>4
<1>6. \A p \in m1..m2 : w[p] \in Arrows
  BY <1>3, <1>4
<1>7. \A p \in 1..(m2 - m1 + 1) : SubSeq(w, m1, m2)[p] = w[m1 + p - 1]
  BY <1>5, <1>6, SubSeqProperties
<1>8. SubSeq(w, m1, m2)[k] = w[i + k]
  BY <1>5, <1>7
<1> QED
  BY <1>4, <1>8

\* A factor of a factor is a factor.
LEMMA FactorOfFactor ==
  ASSUME NEW f \in Words, NEW g \in Words, NEW w \in Words,
         Occurrences(f, g) # {}, Occurrences(g, w) # {}
  PROVE  Occurrences(f, w) # {}
<1>1. PICK i \in 0..(Len(g) - Len(f)) : SubSeq(g, i + 1, i + Len(f)) = f
  BY DEF Occurrences
<1>2. PICK j \in 0..(Len(w) - Len(g)) : SubSeq(w, j + 1, j + Len(g)) = g
  BY DEF Occurrences
<1>3. Len(f) \in Nat /\ Len(g) \in Nat /\ Len(w) \in Nat /\ i \in Nat /\ j \in Nat
  BY DEF Words
<1>4. PICK at : at = j + i
  OBVIOUS
<1>5. at \in Nat /\ at \in 0..(Len(w) - Len(f)) /\ at + Len(f) <= Len(w)
  BY <1>3, <1>4
<1>6. i + Len(f) <= Len(g) /\ j + Len(g) <= Len(w)
  BY <1>3
<1>7. ASSUME NEW k \in 1..Len(f)
      PROVE  SubSeq(w, at + 1, at + Len(f))[k] = f[k]
  <2>1. SubSeq(w, at + 1, at + Len(f))[k] = w[at + k]
    BY <1>3, <1>5, FactorPlace
  <2>2. SubSeq(g, i + 1, i + Len(f))[k] = g[i + k]
    BY <1>3, <1>6, FactorPlace
  <2>3. i + k \in 1..Len(g) /\ j + (i + k) = at + k
    BY <1>3, <1>4, <1>6
  <2>4. SubSeq(w, j + 1, j + Len(g))[i + k] = w[j + (i + k)]
    BY <1>3, <1>6, <2>3, FactorPlace
  <2> QED
    BY <1>1, <1>2, <2>1, <2>2, <2>3, <2>4
<1>8. PICK part : part = SubSeq(w, at + 1, at + Len(f))
  OBVIOUS
<1>9. part \in Seq(Arrows) /\ Len(part) = Len(f)
  <2>1. at + Len(f) \in Nat /\ at <= at + Len(f) /\ (at + Len(f)) - at = Len(f)
    BY <1>3, <1>5
  <2>2. /\ SubSeq(w, at + 1, at + Len(f)) \in Words
        /\ Len(SubSeq(w, at + 1, at + Len(f))) = Len(f)
    BY <1>5, <2>1, SubSeqWord
  <2> QED
    BY <1>8, <2>2 DEF Words
<1>10. \A k \in 1..Len(part) : part[k] = f[k]
  BY <1>7, <1>8, <1>9
<1>11. f \in Seq(Arrows)
  BY DEF Words
<1>12. part = f
  BY <1>9, <1>10, <1>11, SeqEqual
<1> QED
  BY <1>5, <1>8, <1>12 DEF Occurrences

LEMMA IrreducibleMeans ==
  ASSUME NEW rs, IsSystem(rs), NEW w \in Words
  PROVE  Irreducible(w, rs) <=> \A n \in DOMAIN rs : Occurrences(rs[n].lead, w) = {}
<1>1. ASSUME NEW n \in DOMAIN rs, NEW i \in Occurrences(rs[n].lead, w)
      PROVE  Matches(w, rs) # {}
  <2>1. Len(rs[n].lead) \in Nat /\ Len(w) \in Nat
    BY DEF IsSystem, IsRule, Words
  <2>2. i \in 0..Len(w)
    BY <2>1 DEF Occurrences
  <2>3. <<i, n>> \in (0..Len(w)) \X (DOMAIN rs) /\ <<i, n>>[1] = i /\ <<i, n>>[2] = n
    BY <2>2
  <2>4. <<i, n>> \in Matches(w, rs)
    BY <1>1, <2>3, Zenon DEF Matches
  <2> QED
    BY <2>4
<1>2. ASSUME NEW m \in Matches(w, rs)
      PROVE  \E n \in DOMAIN rs : Occurrences(rs[n].lead, w) # {}
  <2>1. m \in (0..Len(w)) \X (DOMAIN rs) /\ m[1] \in Occurrences(rs[m[2]].lead, w)
    BY Zenon DEF Matches
  <2>2. m[2] \in DOMAIN rs
    BY <2>1
  <2> QED
    BY <2>1, <2>2
<1> QED
  BY <1>1, <1>2 DEF Irreducible

\* A word that some rule rewrites is rewritten by one that the cleanup keeps:
\* the first of those with the shortest lead.
LEMMA BasisKept ==
  ASSUME NEW rs, IsSystem(rs), NEW w \in Words
  PROVE  Irreducible(w, MinimizeLeads(rs)) <=> Irreducible(w, rs)
<1> DEFINE N == {n \in DOMAIN rs : Occurrences(rs[n].lead, w) # {}}
<1>1. IsSystem(MinimizeLeads(rs))
  <2>1. DOMAIN MinimizeLeads(rs) \in SUBSET DOMAIN rs
    BY Kept
  <2>2. IsFiniteSet(DOMAIN rs)
    BY DEF IsSystem
  <2>3. IsFiniteSet(DOMAIN MinimizeLeads(rs))
    BY <2>1, <2>2, FS_Subset
  <2>4. \A n \in DOMAIN MinimizeLeads(rs) : MinimizeLeads(rs)[n] = rs[n]
    BY Kept
  <2> QED
    BY <2>1, <2>3, <2>4 DEF IsSystem
<1>2. ASSUME Irreducible(w, rs) PROVE Irreducible(w, MinimizeLeads(rs))
  <2>1. \A n \in DOMAIN rs : Occurrences(rs[n].lead, w) = {}
    BY <1>2, IrreducibleMeans
  <2>2. \A n \in DOMAIN MinimizeLeads(rs) : n \in DOMAIN rs /\ MinimizeLeads(rs)[n] = rs[n]
    BY Kept
  <2>3. \A n \in DOMAIN MinimizeLeads(rs) : Occurrences(MinimizeLeads(rs)[n].lead, w) = {}
    BY <2>1, <2>2
  <2> QED
    BY <1>1, <2>3, IrreducibleMeans
<1>3. ASSUME ~Irreducible(w, rs) PROVE ~Irreducible(w, MinimizeLeads(rs))
  <2>1. N # {}
    BY <1>3, IrreducibleMeans
  <2>2. \A n \in DOMAIN rs : n \in Nat /\ rs[n].lead \in Words /\ Len(rs[n].lead) \in Nat
    BY DEF IsSystem, IsRule, Words
  <2>3. {Len(rs[n].lead) : n \in N} \in SUBSET Nat /\ {Len(rs[n].lead) : n \in N} # {}
    BY <2>1, <2>2
  <2>4. PICK l \in {Len(rs[n].lead) : n \in N} : \A k \in {Len(rs[n].lead) : n \in N} : l <= k
    BY <2>3, LeastNumber
  <2>5. {n \in N : Len(rs[n].lead) = l} \in SUBSET Nat /\ {n \in N : Len(rs[n].lead) = l} # {}
    BY <2>2, <2>4
  <2>6. PICK n \in {k \in N : Len(rs[k].lead) = l} :
               \A k \in {m \in N : Len(rs[m].lead) = l} : n <= k
    BY <2>5, LeastNumber
  <2>7. n \in DOMAIN rs /\ Occurrences(rs[n].lead, w) # {} /\ Len(rs[n].lead) = l
    BY <2>6
  <2>8. ASSUME NEW m \in DOMAIN rs, m < n, rs[m].lead = rs[n].lead PROVE FALSE
    <3>1. m \in {k \in N : Len(rs[k].lead) = l}
      BY <2>7, <2>8
    <3>2. n <= m
      BY <2>6, <3>1
    <3> QED
      BY <2>2, <2>7, <2>8, <3>2
  <2>9. ASSUME NEW m \in DOMAIN rs, Len(rs[m].lead) < Len(rs[n].lead),
               Occurrences(rs[m].lead, rs[n].lead) # {}
        PROVE  FALSE
    <3>1. Occurrences(rs[m].lead, w) # {}
      BY <2>2, <2>7, <2>9, FactorOfFactor
    <3>2. m \in N
      BY <3>1
    <3>3. l <= Len(rs[m].lead)
      BY <2>4, <3>2
    <3> QED
      BY <2>2, <2>7, <2>9, <3>3
  <2>10. n \in DOMAIN MinimizeLeads(rs) /\ MinimizeLeads(rs)[n] = rs[n]
    BY <2>7, <2>8, <2>9, Kept
  <2> QED
    BY <1>1, <2>7, <2>10, IrreducibleMeans
<1> QED
  BY <1>2, <1>3

\* What complete.py:46 says of the cleanup: it does not change "the set of
\* irreducible words", the paths that become the basis of the algebra.
CleanupKeepsBasis ==
    [][CleanUp => \A w \in Words : Irreducible(w, rules') <=> Irreducible(w, rules)]_vars

\* The cleanup keeps the basis of the algebra, whatever the rules.
THEOREM BasisIsKept == Spec => CleanupKeepsBasis
<1> DEFINE Same == CleanUp => \A w \in Words : Irreducible(w, rules') <=> Irreducible(w, rules)
<1>1. IInv /\ [Next]_vars => [Same]_vars
  <2> SUFFICES ASSUME IInv, CleanUp, NEW w \in Words
               PROVE  Irreducible(w, rules') <=> Irreducible(w, rules)
    OBVIOUS
  <2>1. IsSystem(rules)
    BY SystemFacts
  <2>2. rules' = MinimizeLeads(rules)
    BY DEF CleanUp
  <2>3. Irreducible(w, MinimizeLeads(rules)) <=> Irreducible(w, rules)
    BY <2>1, BasisKept
  <2> QED
    BY <2>2, <2>3
<1> HIDE DEF Same
<1>2. Spec => [][Same]_vars
  BY <1>1, CompletionInvariant, PTL DEF Spec
<1> QED
  BY <1>2 DEF Same, CleanupKeepsBasis

-----------------------------------------------------------------------------
(* What the certificate rests on: no ambiguity was left out. *)

\* n rewritings, one after the other, lead from c to e.
IsReduction(chain, n, c, e, rs) ==
    /\ chain[0] = c /\ chain[n] = e
    /\ \A k \in 0..(n - 1) : Reducible(chain[k], rs) # {} /\ chain[k + 1] = ReduceOnce(chain[k], rs)

Reduces(c, e, rs) == \E n \in Nat : \E chain : IsReduction(chain, n, c, e, rs)

LEMMA NoRewriting ==
  ASSUME NEW c, NEW rs
  PROVE  Reduces(c, c, rs)
<1> DEFINE chain == [k \in {0} |-> c]
<1>1. chain[0] = c /\ \A k \in 0..(0 - 1) : FALSE
  OBVIOUS
<1>2. IsReduction(chain, 0, c, c, rs)
  BY <1>1 DEF IsReduction
<1> HIDE DEF chain
<1> QED
  BY <1>2 DEF Reduces

LEMMA OneMoreRewriting ==
  ASSUME NEW c, NEW e, NEW rs, Reduces(c, e, rs), Reducible(e, rs) # {}
  PROVE  Reduces(c, ReduceOnce(e, rs), rs)
<1>1. PICK n \in Nat : \E chain : IsReduction(chain, n, c, e, rs)
  BY DEF Reduces
<1>2. PICK chain : IsReduction(chain, n, c, e, rs)
  BY <1>1
<1> DEFINE longer == [k \in 0..(n + 1) |-> IF k <= n THEN chain[k] ELSE ReduceOnce(e, rs)]
<1>3. longer[0] = c /\ longer[n] = e /\ longer[n + 1] = ReduceOnce(e, rs)
  <2>1. 0 \in 0..(n + 1) /\ n \in 0..(n + 1) /\ n + 1 \in 0..(n + 1)
        /\ 0 <= n /\ n <= n /\ ~(n + 1 <= n)
    OBVIOUS
  <2>2. chain[0] = c /\ chain[n] = e
    BY <1>2 DEF IsReduction
  <2> QED
    BY <2>1, <2>2
<1>4. ASSUME NEW k \in 0..((n + 1) - 1)
      PROVE  Reducible(longer[k], rs) # {} /\ longer[k + 1] = ReduceOnce(longer[k], rs)
  <2>1. CASE k = n
    BY <1>3, <2>1
  <2>2. CASE k # n
    <3>1. k \in 0..(n - 1) /\ k \in 0..(n + 1) /\ k + 1 \in 0..(n + 1) /\ k <= n /\ k + 1 <= n
      BY <2>2
    <3>2. longer[k] = chain[k] /\ longer[k + 1] = chain[k + 1]
      BY <3>1
    <3>3. Reducible(chain[k], rs) # {} /\ chain[k + 1] = ReduceOnce(chain[k], rs)
      BY <1>2, <3>1 DEF IsReduction
    <3> QED
      BY <3>2, <3>3
  <2> QED
    BY <2>1, <2>2
<1> HIDE DEF longer
<1>5. IsReduction(longer, n + 1, c, ReduceOnce(e, rs), rs)
  BY <1>3, <1>4 DEF IsReduction
<1>6. n + 1 \in Nat
  OBVIOUS
<1> QED
  BY <1>5, <1>6 DEF Reduces

Resolves(amb, rs) == Reduces(SPolynomial(amb, rs), Zero, rs)

\* Of the ambiguities that this pass is done with, each resolves: all of them
\* between two comparisons, all but the one at hand during a reduction.
DoneResolve ==
    /\ pc = "completing" =>
          \A amb \in AllAmbiguities(rules, input.bound) \ todo : Resolves(amb, rules)
    /\ pc = "reducing" =>
          \E one \in AllAmbiguities(rules, input.bound) :
              /\ Reduces(SPolynomial(one, rules), work, rules)
              /\ \A amb \in AllAmbiguities(rules, input.bound) \ todo :
                    amb # one => Resolves(amb, rules)

\* The rules that are certified are the cleanup of rules by which all their
\* ambiguities resolve.
CleanedResolve ==
    pc \in {"cleaned", "certified"} =>
        \E rs : /\ IsSystem(rs) /\ rules = MinimizeLeads(rs)
                /\ \A amb \in AllAmbiguities(rs, input.bound) : Resolves(amb, rs)

CertifiedFits == pc = "certified" => BoundSuffices(rules, input.bound)

CertInv == DoneResolve /\ CleanedResolve /\ CertifiedFits

LEMMA CertInit == Init => CertInv
BY DEF Init, CertInv, DoneResolve, CleanedResolve, CertifiedFits

LEMMA CertStep == IInv /\ CertInv /\ [Next]_vars => CertInv'
<1> SUFFICES ASSUME IInv, CertInv, [Next]_vars PROVE CertInv'
  OBVIOUS
<1>1. CASE RefuseRelation
  BY <1>1 DEF RefuseRelation, Stop, CertInv, DoneResolve, CleanedResolve, CertifiedFits
<1>2. CASE Orient
  <2>1. pc' = "completing" /\ todo' = AllAmbiguities(rules', input.bound) /\ input' = input
    BY <1>2 DEF Orient
  <2> QED
    BY <2>1 DEF CertInv, DoneResolve, CleanedResolve, CertifiedFits
<1>3. CASE Compare
  <2>1. IsSystem(rules) /\ input.bound \in Nat
    BY SystemFacts
  <2>2. /\ pc = "completing" /\ todo # {} /\ pc' = "reducing"
        /\ input' = input /\ rules' = rules
        /\ work' = SPolynomial(Smallest(todo), rules)
        /\ todo' = todo \ {Smallest(todo)}
    BY <1>3 DEF Compare
  <2>3. todo \subseteq AllAmbiguities(rules, input.bound)
    BY <2>2 DEF IInv, TodoIsMade
  <2>4. todo \in SUBSET Seq(Nat)
    <3>1. \A amb \in AllAmbiguities(rules, input.bound) : amb \in Seq(Nat)
      BY <2>1, AmbiguityFacts
    <3> QED
      BY <2>3, <3>1
  <2>5. Smallest(todo) \in todo
    BY <2>2, <2>4, SmallestIsLeast
  <2>6. Smallest(todo) \in AllAmbiguities(rules, input.bound)
    BY <2>3, <2>5
  <2>7. Reduces(SPolynomial(Smallest(todo), rules), work', rules)
    BY <2>2, NoRewriting
  <2>8. \A amb \in AllAmbiguities(rules, input.bound) \ todo : Resolves(amb, rules)
    BY <2>2 DEF CertInv, DoneResolve
  <2>9. \A amb \in AllAmbiguities(rules, input.bound) \ todo' :
           amb # Smallest(todo) => Resolves(amb, rules)
    BY <2>2, <2>8
  <2> QED
    BY <2>2, <2>6, <2>7, <2>9 DEF CertInv, DoneResolve, CleanedResolve, CertifiedFits
<1>4. CASE Reduce
  <2>1. /\ pc = "reducing" /\ Reducible(work, rules) # {} /\ work' = ReduceOnce(work, rules)
        /\ pc' = pc /\ input' = input /\ rules' = rules /\ todo' = todo
    BY <1>4 DEF Reduce
  <2>2. PICK one \in AllAmbiguities(rules, input.bound) :
              /\ Reduces(SPolynomial(one, rules), work, rules)
              /\ \A amb \in AllAmbiguities(rules, input.bound) \ todo :
                    amb # one => Resolves(amb, rules)
    BY <2>1 DEF CertInv, DoneResolve
  <2>3. Reduces(SPolynomial(one, rules), work', rules)
    BY <2>1, <2>2, OneMoreRewriting
  <2> QED
    BY <2>1, <2>2, <2>3 DEF CertInv, DoneResolve, CleanedResolve, CertifiedFits
<1>5. CASE Resolve
  <2>1. /\ pc = "reducing" /\ work = Zero /\ pc' = "completing"
        /\ input' = input /\ rules' = rules /\ todo' = todo
    BY <1>5 DEF Resolve
  <2>2. PICK one \in AllAmbiguities(rules, input.bound) :
              /\ Reduces(SPolynomial(one, rules), work, rules)
              /\ \A amb \in AllAmbiguities(rules, input.bound) \ todo :
                    amb # one => Resolves(amb, rules)
    BY <2>1 DEF CertInv, DoneResolve
  <2>3. Resolves(one, rules)
    BY <2>1, <2>2 DEF Resolves
  <2>4. \A amb \in AllAmbiguities(rules, input.bound) \ todo : Resolves(amb, rules)
    BY <2>2, <2>3
  <2> QED
    BY <2>1, <2>4 DEF CertInv, DoneResolve, CleanedResolve, CertifiedFits
<1>6. CASE Extend
  <2>1. /\ pc' \in {"completing", "refused"} /\ input' = input
        /\ todo' = AllAmbiguities(rules', input.bound)
    BY <1>6 DEF Extend
  <2> QED
    BY <2>1 DEF CertInv, DoneResolve, CleanedResolve, CertifiedFits
<1>7. CASE CleanUp
  <2>1. /\ pc = "completing" /\ todo = {} /\ pc' = "cleaned"
        /\ rules' = MinimizeLeads(rules) /\ input' = input
    BY <1>7 DEF CleanUp
  <2>2. IsSystem(rules)
    BY SystemFacts
  <2>3. \A amb \in AllAmbiguities(rules, input.bound) : Resolves(amb, rules)
    BY <2>1 DEF CertInv, DoneResolve
  <2>4. CleanedResolve'
    BY <2>1, <2>2, <2>3 DEF CleanedResolve
  <2> QED
    BY <2>1, <2>4 DEF CertInv, DoneResolve, CertifiedFits
<1>8. CASE Certify
  <2>1. /\ pc = "cleaned" /\ pc' \in {"certified", "refused"}
        /\ pc' = "certified" => BoundSuffices(rules, input.bound)
        /\ input' = input /\ rules' = rules
    BY <1>8 DEF Certify, Stop
  <2> QED
    BY <2>1 DEF CertInv, DoneResolve, CleanedResolve, CertifiedFits
<1>9. CASE UNCHANGED vars
  BY <1>9 DEF vars, CertInv, DoneResolve, CleanedResolve, CertifiedFits
<1> QED
  BY <1>1, <1>2, <1>3, <1>4, <1>5, <1>6, <1>7, <1>8, <1>9 DEF Next

LEMMA CertificateInvariant == Spec => [](IInv /\ CertInv)
BY InitInv, StepInv, CertInit, CertStep, PTL DEF Spec

\* No lead is longer than the longest: the largest of them.
LEMMA LongestLead ==
  ASSUME NEW rs, IsSystem(rs)
  PROVE  Longest(rs) \in Nat /\ \A k \in DOMAIN rs : Len(rs[k].lead) <= Longest(rs)
<1> DEFINE leads == {rs[k].lead : k \in DOMAIN rs}
           lens  == {0} \cup {Len(rs[k].lead) : k \in DOMAIN rs}
<1>1. \A k \in DOMAIN rs : rs[k].lead \in Words /\ Len(rs[k].lead) \in Nat
  BY DEF IsSystem, IsRule, Words
<1>2. \E n \in lens : \A k \in DOMAIN rs : Len(rs[k].lead) <= n
  <2>1. CASE DOMAIN rs = {}
    BY <2>1
  <2>2. CASE DOMAIN rs # {}
    <3>1. IsFiniteSet(leads)
      <4> DEFINE f == [k \in DOMAIN rs |-> rs[k].lead]
      <4>1. f \in Surjection(DOMAIN rs, leads)
        BY DEF Surjection
      <4>2. IsFiniteSet(DOMAIN rs)
        BY DEF IsSystem
      <4> HIDE DEF f, leads
      <4> QED
        BY <4>1, <4>2, FS_Surjection
    <3>2. leads \in SUBSET Seq(Nat) /\ leads # {}
      BY <1>1, <2>2, WordFacts
    <3>3. PICK w \in leads : \A v \in leads : ~Less(w, v)
      <4> HIDE DEF leads
      <4> QED
        BY <3>1, <3>2, FiniteHasLargest
    <3>4. ASSUME NEW k \in DOMAIN rs PROVE Len(rs[k].lead) <= Len(w)
      <4>1. ~Less(w, rs[k].lead)
        BY <3>3
      <4>2. ~(Len(w) < Len(rs[k].lead))
        BY <4>1 DEF Less
      <4>3. Len(w) \in Nat
        BY <1>1, <3>3
      <4> QED
        BY <1>1, <4>2, <4>3
    <3> QED
      BY <3>3, <3>4
  <2> QED
    BY <2>1, <2>2
<1>3. Longest(rs) \in lens /\ \A k \in DOMAIN rs : Len(rs[k].lead) <= Longest(rs)
  BY <1>2 DEF Longest
<1>4. lens \subseteq Nat
  BY <1>1
<1> HIDE DEF lens
<1> QED
  BY <1>3, <1>4

LEMMA IsAmbiguity ==
  ASSUME NEW rs, NEW bound, NEW n \in DOMAIN rs, NEW m \in DOMAIN rs, NEW amb,
         \/ \E b \in Overlaps(rs[n].lead, rs[m].lead, bound) : amb = <<n, m, Overlap, b>>
         \/ \E i \in Inclusions(rs[n].lead, rs[m].lead, bound) : amb = <<n, m, Inclusion, i>>
  PROVE  amb \in AllAmbiguities(rs, bound)
<1> DEFINE Of(k, l) == {<<k, l, Overlap, b>> : b \in Overlaps(rs[k].lead, rs[l].lead, bound)}
                         \cup {<<k, l, Inclusion, i>> :
                                  i \in Inclusions(rs[k].lead, rs[l].lead, bound)}
<1>1. amb \in Of(n, m)
  OBVIOUS
<1>2. AllAmbiguities(rs, bound) = UNION {Of(k, l) : k, l \in DOMAIN rs}
  BY DEF AllAmbiguities
<1> HIDE DEF Of
<1> QED
  BY <1>1, <1>2

\* An ambiguity of any length fits a bound that suffices (certificate.py:4).
LEMMA NoneIsLonger ==
  ASSUME NEW rs, IsSystem(rs), NEW bound \in Nat, BoundSuffices(rs, bound), NEW d \in Nat
  PROVE  AllAmbiguities(rs, d) \subseteq AllAmbiguities(rs, bound)
<1>1. PICK most : most = Longest(rs)
  OBVIOUS
<1>2. most \in Nat /\ 2 * most - 1 <= bound /\ \A k \in DOMAIN rs : Len(rs[k].lead) <= most
  BY <1>1, LongestLead DEF BoundSuffices
<1>3. ASSUME NEW n \in DOMAIN rs, NEW m \in DOMAIN rs
      PROVE  /\ Overlaps(rs[n].lead, rs[m].lead, d) \subseteq Overlaps(rs[n].lead, rs[m].lead, bound)
             /\ Inclusions(rs[n].lead, rs[m].lead, d) \subseteq Inclusions(rs[n].lead, rs[m].lead, bound)
  <2>1. PICK l1, l2 : l1 = Len(rs[n].lead) /\ l2 = Len(rs[m].lead)
    OBVIOUS
  <2>2. l1 \in Nat /\ l2 \in Nat /\ l1 >= 2 /\ l1 <= most /\ l2 <= most
    BY <1>2, <2>1 DEF IsSystem, IsRule, Words
  <2>3. l1 <= bound
    BY <1>2, <2>2
  <2>4. \A b \in 1..(l1 - 1) : l1 + l2 - b <= bound
    BY <1>2, <2>2
  <2>5. Overlaps(rs[n].lead, rs[m].lead, d) \subseteq Overlaps(rs[n].lead, rs[m].lead, bound)
    BY <2>1, <2>4 DEF Overlaps, Fits
  <2>6. Inclusions(rs[n].lead, rs[m].lead, d) \subseteq Inclusions(rs[n].lead, rs[m].lead, bound)
    BY <2>1, <2>3 DEF Inclusions, Fits
  <2> QED
    BY <2>5, <2>6
<1> SUFFICES ASSUME NEW amb \in AllAmbiguities(rs, d) PROVE amb \in AllAmbiguities(rs, bound)
  OBVIOUS
<1>4. PICK n \in DOMAIN rs, m \in DOMAIN rs :
         \/ \E b \in Overlaps(rs[n].lead, rs[m].lead, d) : amb = <<n, m, Overlap, b>>
         \/ \E i \in Inclusions(rs[n].lead, rs[m].lead, d) : amb = <<n, m, Inclusion, i>>
  BY DEF AllAmbiguities
<1>5. n \in DOMAIN rs /\ m \in DOMAIN rs
  BY <1>4
<1>6. \/ \E b \in Overlaps(rs[n].lead, rs[m].lead, bound) : amb = <<n, m, Overlap, b>>
      \/ \E i \in Inclusions(rs[n].lead, rs[m].lead, bound) : amb = <<n, m, Inclusion, i>>
  BY <1>3, <1>4
<1> QED
  BY <1>5, <1>6, IsAmbiguity

\* An ambiguity of the rules that the cleanup keeps is one of all the rules.
LEMMA KeptAmbiguities ==
  ASSUME NEW rs, IsSystem(rs), NEW bound \in Nat, NEW amb \in AllAmbiguities(MinimizeLeads(rs), bound)
  PROVE  amb \in AllAmbiguities(rs, bound)
<1>1. PICK n \in DOMAIN MinimizeLeads(rs), m \in DOMAIN MinimizeLeads(rs) :
         \/ \E b \in Overlaps(MinimizeLeads(rs)[n].lead, MinimizeLeads(rs)[m].lead, bound) :
               amb = <<n, m, Overlap, b>>
         \/ \E i \in Inclusions(MinimizeLeads(rs)[n].lead, MinimizeLeads(rs)[m].lead, bound) :
               amb = <<n, m, Inclusion, i>>
  BY DEF AllAmbiguities
<1>2. /\ n \in DOMAIN rs /\ MinimizeLeads(rs)[n] = rs[n]
      /\ m \in DOMAIN rs /\ MinimizeLeads(rs)[m] = rs[m]
  BY Kept
<1>3. \/ \E b \in Overlaps(rs[n].lead, rs[m].lead, bound) : amb = <<n, m, Overlap, b>>
      \/ \E i \in Inclusions(rs[n].lead, rs[m].lead, bound) : amb = <<n, m, Inclusion, i>>
  BY <1>1, <1>2
<1> QED
  BY <1>2, <1>3, IsAmbiguity

\* What certificate.py:4 says of a certified system: "EVERY ambiguity was formed
\* and reduced to 0".  An ambiguity of the certified rules, of any length, was
\* one of the rules that completion ended with, and resolved by them; the
\* certified rules are their cleanup.
EveryAmbiguityResolved ==
    pc = "certified" =>
        \E rs : /\ IsSystem(rs) /\ rules = MinimizeLeads(rs)
                /\ \A d \in Nat : \A amb \in AllAmbiguities(rules, d) :
                      amb \in AllAmbiguities(rs, input.bound) /\ Resolves(amb, rs)

\* A certificate leaves no ambiguity out, whatever the presentation and the
\* degree bound: the premise of Bergman's diamond lemma, on which the products
\* of the algebra rest.
THEOREM CertificateIsComplete == Spec => []EveryAmbiguityResolved
<1>1. IInv /\ CertInv => EveryAmbiguityResolved
  <2> SUFFICES ASSUME IInv, CertInv, pc = "certified"
               PROVE  \E rs : /\ IsSystem(rs) /\ rules = MinimizeLeads(rs)
                              /\ \A d \in Nat : \A amb \in AllAmbiguities(rules, d) :
                                    amb \in AllAmbiguities(rs, input.bound) /\ Resolves(amb, rs)
    BY DEF EveryAmbiguityResolved
  <2>1. IsSystem(rules) /\ input.bound \in Nat
    BY SystemFacts
  <2>2. BoundSuffices(rules, input.bound)
    BY DEF CertInv, CertifiedFits
  <2>3. PICK rs : /\ IsSystem(rs) /\ rules = MinimizeLeads(rs)
                  /\ \A amb \in AllAmbiguities(rs, input.bound) : Resolves(amb, rs)
    BY DEF CertInv, CleanedResolve
  <2>4. ASSUME NEW d \in Nat, NEW amb \in AllAmbiguities(rules, d)
        PROVE  amb \in AllAmbiguities(rs, input.bound) /\ Resolves(amb, rs)
    <3>1. amb \in AllAmbiguities(rules, input.bound)
      BY <2>1, <2>2, NoneIsLonger
    <3>2. amb \in AllAmbiguities(rs, input.bound)
      BY <2>1, <2>3, <3>1, KeptAmbiguities
    <3> QED
      BY <2>3, <3>2
  <2> QED
    BY <2>3, <2>4
<1> QED
  BY <1>1, CertificateInvariant, PTL

-----------------------------------------------------------------------------
(* How many rules completion can add. *)

\* The rules that completion has added: no earlier lead occurs in theirs, which
\* fit the bound.
Added == {n \in DOMAIN rules : n > Len(input.rels)}

AddedAreNew ==
    pc \in {"completing", "reducing"} =>
        /\ Len(input.rels) <= Len(rules)
        /\ \A n \in Added :
              /\ Len(rules[n].lead) <= input.bound
              /\ \A m \in DOMAIN rules : m < n => Occurrences(rules[m].lead, rules[n].lead) = {}

LEMMA AddedInit == Init => AddedAreNew
BY DEF Init, AddedAreNew

LEMMA AddedStep == IInv /\ AddedAreNew /\ [Next]_vars => AddedAreNew'
<1> SUFFICES ASSUME IInv, AddedAreNew, [Next]_vars PROVE AddedAreNew'
  OBVIOUS
<1>1. CASE Orient
  <2>1. input' = input /\ rules' = [k \in DOMAIN Rels |-> RuleFromComb(Rels[k])]
    BY <1>1 DEF Orient
  <2>2. IsList(input.rels)
    BY InputFacts DEF IInv, TypeOK
  <2>3. DOMAIN rules' = DOMAIN input.rels
    BY <2>1 DEF Rels
  <2>4. Len(input.rels) \in Nat /\ DOMAIN input.rels = 1..Len(input.rels)
    BY <2>2, ListDomain
  <2>5. Len(rules') = Len(input.rels)
    <3>1. rules' = [k \in 1..Len(input.rels) |-> rules'[k]]
      BY <2>1, <2>3, <2>4
    <3> HIDE <2>1
    <3> SUFFICES ASSUME NEW f, f = [k \in 1..Len(input.rels) |-> f[k]]
                 PROVE  Len(f) = Len(input.rels)
      BY <3>1
    <3> QED
      BY <2>4
  <2>6. Added' = {}
    BY <2>1, <2>3, <2>4 DEF Added
  <2> QED
    BY <2>1, <2>4, <2>5, <2>6 DEF AddedAreNew
<1>2. CASE Extend
  <2>1. pc = "reducing" /\ Reducible(work, rules) = {} /\ input' = input
    BY <1>2 DEF Extend
  <2>2. /\ Len(rules) \in Nat /\ IsList(rules)
        /\ RuleFromComb(work).lead \in DOMAIN work
        /\ IsRule(RuleFromComb(work))
        /\ Len(rules') = Len(rules) + 1
        /\ \A n \in DOMAIN rules' :
               rules'[n] = IF n = Len(rules) + 1 THEN RuleFromComb(work) ELSE rules[n]
        /\ \A n \in DOMAIN rules' : n = Len(rules) + 1 \/ n \in DOMAIN rules
    BY <1>2, ExtendFacts
  <2>3. DOMAIN rules = 1..Len(rules)
    BY <2>2, ListDomain
  <2>4. Len(input.rels) \in Nat
    <3>1. IsList(input.rels)
      BY InputFacts DEF IInv, TypeOK
    <3> QED
      BY <3>1, ListDomain
  <2>5. Len(input.rels) <= Len(rules)
    BY <2>1 DEF AddedAreNew
  <2>6. ASSUME NEW n \in DOMAIN rules', n > Len(input.rels), NEW m \in DOMAIN rules', m < n
        PROVE  Occurrences(rules'[m].lead, rules'[n].lead) = {}
    <3>1. m \in DOMAIN rules /\ rules'[m] = rules[m]
      <4>1. m # Len(rules) + 1
        BY <2>2, <2>3, <2>6
      <4> QED
        BY <2>2, <4>1
    <3>2. CASE n = Len(rules) + 1
      <4>1. rules'[n].lead = RuleFromComb(work).lead
        BY <2>2, <3>2
      <4>2. Irreducible(RuleFromComb(work).lead, rules)
        BY <2>1, <2>2 DEF Reducible
      <4>3. RuleFromComb(work).lead \in Words
        BY <2>2 DEF IsRule
      <4>4. IsSystem(rules)
        BY SystemFacts
      <4>5. Occurrences(rules[m].lead, RuleFromComb(work).lead) = {}
        BY <3>1, <4>2, <4>3, <4>4, IrreducibleMeans
      <4> QED
        BY <3>1, <4>1, <4>5
    <3>3. CASE n # Len(rules) + 1
      <4>1. n \in Added /\ rules'[n] = rules[n]
        BY <2>2, <2>6, <3>3 DEF Added
      <4>2. Occurrences(rules[m].lead, rules[n].lead) = {}
        BY <2>1, <2>6, <3>1, <4>1 DEF AddedAreNew
      <4> QED
        BY <3>1, <4>1, <4>2
    <3> QED
      BY <3>2, <3>3
  <2>7. ASSUME NEW n \in DOMAIN rules', n > Len(input.rels)
        PROVE  Len(rules'[n].lead) <= input.bound
    <3>1. CASE n = Len(rules) + 1
      <4>1. rules'[n].lead = RuleFromComb(work).lead
        BY <2>2, <3>1
      <4>2. Len(RuleFromComb(work).lead) <= input.bound
        BY <2>1, <2>2 DEF IInv, WorkFits, IsWithin
      <4> QED
        BY <4>1, <4>2
    <3>2. CASE n # Len(rules) + 1
      <4>1. n \in Added /\ rules'[n] = rules[n]
        BY <2>2, <2>7, <3>2 DEF Added
      <4> QED
        BY <2>1, <4>1 DEF AddedAreNew
    <3> QED
      BY <3>1, <3>2
  <2>8. Len(input.rels) <= Len(rules')
    BY <2>2, <2>4, <2>5
  <2> QED
    BY <2>1, <2>6, <2>7, <2>8 DEF AddedAreNew, Added
<1>3. CASE Compare \/ Reduce \/ Resolve
  <2>1. /\ pc \in {"completing", "reducing"} /\ input' = input /\ rules' = rules
    BY <1>3 DEF Compare, Reduce, Resolve
  <2>2. Added' = Added
    BY <2>1 DEF Added
  <2> QED
    BY <2>1, <2>2 DEF AddedAreNew
<1>4. CASE RefuseRelation \/ CleanUp \/ Certify
  <2>1. pc' \notin {"completing", "reducing"}
    BY <1>4 DEF RefuseRelation, CleanUp, Certify, Stop
  <2> QED
    BY <2>1 DEF AddedAreNew
<1>5. CASE UNCHANGED vars
  BY <1>5 DEF vars, AddedAreNew, Added
<1> QED
  BY <1>1, <1>2, <1>3, <1>4, <1>5 DEF Next

LEMMA FiniteFunctions ==
  ASSUME NEW S, NEW T, IsFiniteSet(S), IsFiniteSet(T)
  PROVE  IsFiniteSet([S -> T])
<1> DEFINE graph == [f \in [S -> T] |-> {<<i, f[i]>> : i \in S}]
<1>1. IsFiniteSet(SUBSET (S \X T))
  <2>1. IsFiniteSet(S \X T)
    BY FS_Product
  <2> QED
    BY <2>1, FS_SUBSET
<1>2. graph \in [[S -> T] -> SUBSET (S \X T)]
  OBVIOUS
<1>3. ASSUME NEW f \in [S -> T], NEW g \in [S -> T], graph[f] = graph[g]
      PROVE  f = g
  <2>1. ASSUME NEW i \in S PROVE f[i] = g[i]
    <3>1. <<i, f[i]>> \in {<<k, g[k]>> : k \in S}
      BY <1>3
    <3>2. PICK k \in S : <<i, f[i]>> = <<k, g[k]>>
      BY <3>1
    <3> QED
      BY <3>2
  <2> QED
    BY <2>1
<1> HIDE DEF graph
<1>4. graph \in Injection([S -> T], SUBSET (S \X T))
  BY <1>2, <1>3, Fun_IsInj
<1> QED
  BY <1>1, <1>4, FS_Injection

LEMMA UpToIsFinite ==
  ASSUME NEW bound \in Nat
  PROVE  IsFiniteSet(UpTo(bound))
<1> DEFINE sets == {[1..k -> Arrows] : k \in 0..bound}
<1>1. IsFiniteSet(Arrows)
  <2>1. Len(Source) \in Nat /\ Arrows = 1..Len(Source)
    BY GroebnerAssumption DEF Arrows
  <2>2. 1 \in Int /\ Len(Source) \in Int
    BY <2>1
  <2> QED
    BY <2>1, <2>2, FS_Interval
<1>2. \A T \in sets : IsFiniteSet(T)
  <2> SUFFICES ASSUME NEW k \in 0..bound PROVE IsFiniteSet([1..k -> Arrows])
    OBVIOUS
  <2>1. 1 \in Int /\ k \in Int
    OBVIOUS
  <2>2. IsFiniteSet(1..k)
    BY <2>1, FS_Interval
  <2> QED
    BY <1>1, <2>2, FiniteFunctions
<1>3. IsFiniteSet(sets)
  <2> DEFINE f == [k \in 0..bound |-> [1..k -> Arrows]]
  <2>1. f \in Surjection(0..bound, sets)
    BY DEF Surjection
  <2>2. IsFiniteSet(0..bound)
    <3>1. 0 \in Int /\ bound \in Int
      OBVIOUS
    <3> QED
      BY <3>1, FS_Interval
  <2> HIDE DEF f, sets
  <2> QED
    BY <2>1, <2>2, FS_Surjection
<1> HIDE DEF sets
<1>4. IsFiniteSet(UNION sets)
  BY <1>2, <1>3, FS_UNION
<1> QED
  BY <1>4 DEF UpTo, sets

LEMMA ShortWord ==
  ASSUME NEW w \in Words, NEW bound \in Nat, Len(w) <= bound
  PROVE  w \in UpTo(bound) /\ Occurrences(w, w) # {}
<1>1. Len(w) \in Nat /\ w \in [1..Len(w) -> Arrows]
  BY DEF Words
<1>2. w \in UpTo(bound)
  <2>1. PICK k : k = Len(w)
    OBVIOUS
  <2>2. k \in 0..bound /\ w \in [1..k -> Arrows]
    BY <1>1, <2>1
  <2> QED
    BY <2>2 DEF UpTo
<1>3. SubSeq(w, 1, Len(w)) = w
  BY SubSeqFull DEF Words
<1>4. 0 \in 0..(Len(w) - Len(w)) /\ 0 + 1 = 1 /\ 0 + Len(w) = Len(w)
  BY <1>1
<1>5. 0 \in Occurrences(w, w)
  BY <1>3, <1>4 DEF Occurrences
<1> QED
  BY <1>2, <1>5

\* What complete.py:11 says: "completion ALWAYS TERMINATES under a fixed bound".
\* There are at most as many rules as relations and words within the bound.
RulesAreBounded ==
    pc \in {"completing", "reducing"} =>
        Len(rules) <= Len(input.rels) + Cardinality(UpTo(input.bound))

\* Completion adds no more rules than there are words within the bound.
THEOREM CompletionIsBounded == Spec => []RulesAreBounded
<1>1. IInv /\ AddedAreNew => RulesAreBounded
  <2> SUFFICES ASSUME IInv, AddedAreNew, pc \in {"completing", "reducing"}
               PROVE  Len(rules) <= Len(input.rels) + Cardinality(UpTo(input.bound))
    BY DEF RulesAreBounded
  <2>1. input.bound \in Nat /\ IsSystem(rules) /\ IsList(input.rels) /\ IsList(rules)
    BY SystemFacts, InputFacts DEF IInv, TypeOK
  <2>2. /\ Len(input.rels) \in Nat /\ Len(rules) \in Nat /\ DOMAIN rules = 1..Len(rules)
        /\ Len(input.rels) <= Len(rules)
    BY <2>1, ListDomain DEF AddedAreNew
  <2>3. PICK first, last : first = Len(input.rels) + 1 /\ last = Len(rules)
    OBVIOUS
  <2>4. first \in Int /\ last \in Int /\ first..last = Added
    BY <2>2, <2>3 DEF Added
  <2> DEFINE lead == [n \in first..last |-> rules[n].lead]
  <2>5. \A n \in first..last : rules[n].lead \in UpTo(input.bound)
    <3> SUFFICES ASSUME NEW n \in Added PROVE rules[n].lead \in UpTo(input.bound)
      BY <2>4
    <3>1. rules[n].lead \in Words
      BY <2>1 DEF IsSystem, IsRule, Added
    <3>2. Len(rules[n].lead) <= input.bound
      BY DEF AddedAreNew
    <3> QED
      BY <2>1, <3>1, <3>2, ShortWord
  <2>6. ASSUME NEW n \in Added, NEW m \in Added, m < n
        PROVE  rules[m].lead # rules[n].lead
    <3>1. rules[n].lead \in Words /\ m \in DOMAIN rules
      BY <2>1 DEF IsSystem, IsRule, Added
    <3>2. Len(rules[n].lead) <= input.bound /\ Occurrences(rules[m].lead, rules[n].lead) = {}
      BY <2>6, <3>1 DEF AddedAreNew
    <3>3. Occurrences(rules[n].lead, rules[n].lead) # {}
      BY <2>1, <3>1, <3>2, ShortWord
    <3> QED
      BY <3>2, <3>3
  <2>7. ASSUME NEW n \in first..last, NEW m \in first..last, lead[n] = lead[m]
        PROVE  n = m
    <3>1. n \in Added /\ m \in Added /\ rules[n].lead = rules[m].lead
      BY <2>4, <2>7
    <3>2. ~(n < m) /\ ~(m < n)
      BY <2>6, <3>1
    <3> QED
      BY <2>4, <3>2
  <2>8. lead \in Injection(first..last, UpTo(input.bound))
    <3>1. lead \in [first..last -> UpTo(input.bound)]
      BY <2>5
    <3> HIDE DEF lead
    <3> QED
      BY <2>7, <3>1, Fun_IsInj
  <2>9. Cardinality(first..last) <= Cardinality(UpTo(input.bound))
    <3>1. IsFiniteSet(UpTo(input.bound))
      BY <2>1, UpToIsFinite
    <3> HIDE DEF lead
    <3> QED
      BY <2>8, <3>1, FS_Injection
  <2>10. Cardinality(first..last) = IF first > last THEN 0 ELSE last - first + 1
    BY <2>4, FS_Interval
  <2>11. Cardinality(first..last) = Len(rules) - Len(input.rels)
    BY <2>2, <2>3, <2>10
  <2>12. Cardinality(UpTo(input.bound)) \in Nat
    BY <2>1, UpToIsFinite, FS_CardinalityType
  <2> QED
    BY <2>2, <2>9, <2>11, <2>12
<1> QED
  BY <1>1, InitInv, StepInv, AddedInit, AddedStep, PTL DEF Spec
=============================================================================
