-------------------------- MODULE ConfluenceProofs --------------------------
(***************************************************************************)
(* The diamond lemma for certified reduction systems, for every quiver,    *)
(* prime, presentation and bound: when each ambiguity resolves, no nonzero *)
(* element of the ideal is irreducible, hence a normal form does not       *)
(* depend on the order of the rewritings, and the relations vanish.  The   *)
(* ideal of the rules is the ideal of the relations that were put in, so   *)
(* normal forms decide equality in the algebra presented.  Last, the       *)
(* automaton of windows: it has a walk as long as it has states just when  *)
(* the irreducible paths are infinitely many, so a certified basis is      *)
(* finite.                                                                 *)
(*                                                                         *)
(* The ideal is not listed but characterised: the least space of vectors   *)
(* that holds each rule in each context.  To show something of its members *)
(* is to exhibit a space.                                                  *)
(***************************************************************************)
EXTENDS GroebnerProofs

-----------------------------------------------------------------------------
(* Vectors: integers at each word, equal when they are so modulo P. *)

Vectors == [Words -> Int]

Plus(f, k, g) == [w \in Words |-> f[w] + k * g[w]]

Null    == [w \in Words |-> 0]
Unit(w) == [x \in Words |-> IF x = w THEN 1 ELSE 0]
Vect(c) == [w \in Words |-> Coeff(c, w)]

Equal(f, g) == \E h \in Vectors : f = Plus(g, P, h)

IsSpace(S) ==
    /\ S \subseteq Vectors /\ Null \in S
    /\ \A f, g \in S, k \in Int : Plus(f, k, g) \in S
    /\ \A f \in S, h \in Vectors : Plus(f, P, h) \in S

Span(G) == {f \in Vectors : \A S \in SUBSET Vectors : IsSpace(S) /\ G \subseteq S => f \in S}

LEMMA PrimeInt == P \in Int /\ P > 1
BY GroebnerAssumption

LEMMA PlusVector ==
  ASSUME NEW f \in Vectors, NEW g \in Vectors, NEW k \in Int
  PROVE  /\ Plus(f, k, g) \in Vectors
         /\ \A w \in Words : Plus(f, k, g)[w] = f[w] + k * g[w]
BY DEF Vectors, Plus

LEMMA UnitVectors ==
  /\ Null \in Vectors
  /\ \A w : Unit(w) \in Vectors
BY DEF Vectors, Null, Unit

LEMMA ElementVector ==
  ASSUME NEW c, IsElement(c)
  PROVE  Vect(c) \in Vectors
BY ElementCoeff DEF Vectors, Vect

LEMMA VectorsAgree ==
  ASSUME NEW f \in Vectors, NEW g \in Vectors, \A w \in Words : f[w] = g[w]
  PROVE  f = g
BY DEF Vectors

LEMMA SpanHolds ==
  ASSUME NEW G, G \subseteq Vectors
  PROVE  G \subseteq Span(G)
BY DEF Span

LEMMA SpanIsLeast ==
  ASSUME NEW G, NEW S, IsSpace(S), G \subseteq S
  PROVE  Span(G) \subseteq S
<1>1. S \in SUBSET Vectors
  BY DEF IsSpace
<1> QED
  BY <1>1 DEF Span

LEMMA SpanIsSpace ==
  ASSUME NEW G
  PROVE  IsSpace(Span(G))
<1>1. Span(G) \subseteq Vectors /\ Null \in Span(G)
  BY UnitVectors DEF Span, IsSpace
<1>2. ASSUME NEW f \in Span(G), NEW g \in Span(G), NEW k \in Int
      PROVE  Plus(f, k, g) \in Span(G)
  <2>1. Plus(f, k, g) \in Vectors
    BY <1>1, PlusVector
  <2>2. ASSUME NEW S \in SUBSET Vectors, IsSpace(S), G \subseteq S
        PROVE  Plus(f, k, g) \in S
    <3>1. f \in S /\ g \in S
      BY <2>2 DEF Span
    <3> QED
      BY <2>2, <3>1 DEF IsSpace
  <2> QED
    BY <2>1, <2>2 DEF Span
<1>3. ASSUME NEW f \in Span(G), NEW h \in Vectors
      PROVE  Plus(f, P, h) \in Span(G)
  <2>1. Plus(f, P, h) \in Vectors
    BY <1>1, PlusVector, PrimeInt
  <2>2. ASSUME NEW S \in SUBSET Vectors, IsSpace(S), G \subseteq S
        PROVE  Plus(f, P, h) \in S
    <3>1. f \in S
      BY <2>2 DEF Span
    <3> QED
      BY <2>2, <3>1 DEF IsSpace
  <2> QED
    BY <2>1, <2>2 DEF Span
<1> QED
  BY <1>1, <1>2, <1>3 DEF IsSpace

LEMMA SpaceIsClosed ==
  ASSUME NEW S, IsSpace(S), NEW f \in S, NEW g \in Vectors, Equal(g, f)
  PROVE  g \in S
BY DEF IsSpace, Equal

LEMMA PlusAt ==
  ASSUME NEW f, NEW k, NEW g, NEW w \in Words
  PROVE  Plus(f, k, g)[w] = f[w] + k * g[w]
BY DEF Plus

LEMMA ValueInt ==
  ASSUME NEW f \in Vectors, NEW w \in Words
  PROVE  f[w] \in Int
BY DEF Vectors

\* Two vectors are the same modulo a space when their difference is in it.
Same(f, g, S) == Plus(f, -1, g) \in S

LEMMA Identities ==
  ASSUME NEW f \in Vectors, NEW g \in Vectors, NEW h \in Vectors, NEW e \in Vectors,
         NEW k \in Int
  PROVE  /\ Plus(f, -1, f) = Null
         /\ Plus(Null, 1, f) = f /\ Plus(f, k, Null) = f /\ Plus(f, -1, Null) = f
         /\ Plus(Null, -1, Plus(f, -1, g)) = Plus(g, -1, f)
         /\ Plus(Plus(f, -1, g), 1, Plus(g, -1, h)) = Plus(f, -1, h)
         /\ Plus(Plus(f, -1, g), 1, g) = f
         /\ Plus(Plus(f, k, g), -1, f) = Plus(Null, k, g)
         /\ Plus(Plus(f, k, g), -1, Plus(h, k, e)) = Plus(Plus(f, -1, h), k, Plus(g, -1, e))
         /\ Plus(f, k, g) \in Vectors /\ Plus(Null, k, g) \in Vectors
<1>1. \A x, y \in Vectors, l \in Int : Plus(x, l, y) \in Vectors
  BY PlusVector
<1>2. Null \in Vectors /\ -1 \in Int /\ 1 \in Int
  BY UnitVectors
<1>3. ASSUME NEW w \in Words
      PROVE  /\ Plus(f, -1, f)[w] = Null[w]
             /\ Plus(Null, 1, f)[w] = f[w] /\ Plus(f, k, Null)[w] = f[w]
             /\ Plus(f, -1, Null)[w] = f[w]
             /\ Plus(Null, -1, Plus(f, -1, g))[w] = Plus(g, -1, f)[w]
             /\ Plus(Plus(f, -1, g), 1, Plus(g, -1, h))[w] = Plus(f, -1, h)[w]
             /\ Plus(Plus(f, -1, g), 1, g)[w] = f[w]
             /\ Plus(Plus(f, k, g), -1, f)[w] = Plus(Null, k, g)[w]
             /\ Plus(Plus(f, k, g), -1, Plus(h, k, e))[w]
                  = Plus(Plus(f, -1, h), k, Plus(g, -1, e))[w]
  <2>1. f[w] \in Int /\ g[w] \in Int /\ h[w] \in Int /\ e[w] \in Int /\ Null[w] = 0
    BY ValueInt DEF Null
  <2>2. /\ Plus(f, -1, f)[w] = Null[w]
        /\ Plus(Null, 1, f)[w] = f[w] /\ Plus(f, k, Null)[w] = f[w]
        /\ Plus(f, -1, Null)[w] = f[w]
    BY <2>1, PlusAt
  <2>3. Plus(Null, -1, Plus(f, -1, g))[w] = Plus(g, -1, f)[w]
    BY <2>1, PlusAt
  <2>4. Plus(Plus(f, -1, g), 1, Plus(g, -1, h))[w] = Plus(f, -1, h)[w]
    BY <2>1, PlusAt
  <2>5. Plus(Plus(f, -1, g), 1, g)[w] = f[w]
    BY <2>1, PlusAt
  <2>6. Plus(Plus(f, k, g), -1, f)[w] = Plus(Null, k, g)[w]
    BY <2>1, PlusAt
  <2>7. Plus(Plus(f, k, g), -1, Plus(h, k, e))[w]
          = Plus(Plus(f, -1, h), k, Plus(g, -1, e))[w]
    <3>1. /\ Plus(Plus(f, k, g), -1, Plus(h, k, e))[w] = (f[w] + k * g[w]) + (-1) * (h[w] + k * e[w])
          /\ Plus(Plus(f, -1, h), k, Plus(g, -1, e))[w]
               = (f[w] + (-1) * h[w]) + k * (g[w] + (-1) * e[w])
      BY PlusAt
    <3>2. \A a, b, c, d \in Int :
             (a + k * b) + (-1) * (c + k * d) = (a + (-1) * c) + k * (b + (-1) * d)
      OBVIOUS
    <3> QED
      BY <2>1, <3>1, <3>2
  <2> QED
    BY <2>2, <2>3, <2>4, <2>5, <2>6, <2>7
<1>4. \A x, y \in Vectors : (\A w \in Words : x[w] = y[w]) => x = y
  BY VectorsAgree
<1>5. /\ Plus(f, -1, f) \in Vectors /\ Plus(Null, 1, f) \in Vectors
      /\ Plus(f, k, Null) \in Vectors /\ Plus(f, -1, Null) \in Vectors
      /\ Plus(f, -1, g) \in Vectors /\ Plus(g, -1, f) \in Vectors
      /\ Plus(g, -1, h) \in Vectors /\ Plus(f, -1, h) \in Vectors
      /\ Plus(f, k, g) \in Vectors /\ Plus(h, k, e) \in Vectors
      /\ Plus(g, -1, e) \in Vectors /\ Plus(Null, k, g) \in Vectors
  BY <1>1, <1>2
<1>6. /\ Plus(Null, -1, Plus(f, -1, g)) \in Vectors
      /\ Plus(Plus(f, -1, g), 1, Plus(g, -1, h)) \in Vectors
      /\ Plus(Plus(f, -1, g), 1, g) \in Vectors
      /\ Plus(Plus(f, k, g), -1, f) \in Vectors
      /\ Plus(Plus(f, k, g), -1, Plus(h, k, e)) \in Vectors
      /\ Plus(Plus(f, -1, h), k, Plus(g, -1, e)) \in Vectors
  BY <1>1, <1>2, <1>5
<1>7. Plus(f, -1, f) = Null /\ Plus(Null, 1, f) = f
  BY <1>2, <1>3, <1>4, <1>5
<1>8. Plus(f, k, Null) = f /\ Plus(f, -1, Null) = f
  BY <1>3, <1>4, <1>5
<1>9. Plus(Null, -1, Plus(f, -1, g)) = Plus(g, -1, f)
  BY <1>3, <1>4, <1>5, <1>6
<1>10. Plus(Plus(f, -1, g), 1, Plus(g, -1, h)) = Plus(f, -1, h)
  BY <1>3, <1>4, <1>5, <1>6
<1>11. Plus(Plus(f, -1, g), 1, g) = f
  BY <1>3, <1>4, <1>5, <1>6
<1>12. Plus(Plus(f, k, g), -1, f) = Plus(Null, k, g)
  BY <1>3, <1>4, <1>5, <1>6
<1>13. Plus(Plus(f, k, g), -1, Plus(h, k, e)) = Plus(Plus(f, -1, h), k, Plus(g, -1, e))
  BY <1>3, <1>4, <1>6
<1> QED
  BY <1>5, <1>7, <1>8, <1>9, <1>10, <1>11, <1>12, <1>13

LEMMA SameIsEquality ==
  ASSUME NEW S, IsSpace(S), NEW f \in Vectors, NEW g \in Vectors, NEW h \in Vectors
  PROVE  /\ Same(f, f, S)
         /\ Same(f, g, S) => Same(g, f, S)
         /\ Same(f, g, S) /\ Same(g, h, S) => Same(f, h, S)
         /\ Same(f, g, S) /\ g \in S => f \in S
         /\ f \in S => Same(f, Null, S)
         /\ Same(f, Null, S) => f \in S
<1>1. /\ Null \in S /\ Null \in Vectors
      /\ \A x, y \in S, k \in Int : Plus(x, k, y) \in S
  BY UnitVectors DEF IsSpace
<1>2. Same(f, f, S) /\ (f \in S => Same(f, Null, S)) /\ (Same(f, Null, S) => f \in S)
  BY <1>1, Identities DEF Same
<1>3. Same(f, g, S) => Same(g, f, S)
  <2>1. Plus(Null, -1, Plus(f, -1, g)) = Plus(g, -1, f)
    BY Identities
  <2> QED
    BY <1>1, <2>1 DEF Same
<1>4. Same(f, g, S) /\ Same(g, h, S) => Same(f, h, S)
  <2>1. Plus(Plus(f, -1, g), 1, Plus(g, -1, h)) = Plus(f, -1, h)
    BY Identities
  <2> QED
    BY <1>1, <2>1 DEF Same
<1>5. Same(f, g, S) /\ g \in S => f \in S
  <2>1. Plus(Plus(f, -1, g), 1, g) = f
    BY Identities
  <2> QED
    BY <1>1, <2>1 DEF Same
<1> QED
  BY <1>2, <1>3, <1>4, <1>5

LEMMA SamePlus ==
  ASSUME NEW S, IsSpace(S), NEW k \in Int,
         NEW f \in Vectors, NEW g \in Vectors, NEW h \in Vectors, NEW e \in Vectors,
         Same(f, h, S), Same(g, e, S)
  PROVE  Same(Plus(f, k, g), Plus(h, k, e), S)
<1>1. Plus(Plus(f, k, g), -1, Plus(h, k, e)) = Plus(Plus(f, -1, h), k, Plus(g, -1, e))
  BY Identities
<1> QED
  BY <1>1 DEF Same, IsSpace

LEMMA EqualIsSame ==
  ASSUME NEW S, IsSpace(S), NEW f \in Vectors, NEW g \in Vectors, Equal(f, g)
  PROVE  Same(f, g, S)
<1>1. PICK h \in Vectors : f = Plus(g, P, h)
  BY DEF Equal
<1>2. Plus(f, -1, g) = Plus(Null, P, h)
  BY <1>1, PrimeInt, Identities
<1> QED
  BY <1>1, <1>2 DEF Same, IsSpace

\* The multiples of P are zero, and vectors are compared word by word.
Multiple(x) == \E q \in Int : x = P * q

LEMMA EqualByWord ==
  ASSUME NEW f \in Vectors, NEW g \in Vectors,
         \A w \in Words : \E q \in Int : f[w] = g[w] + P * q
  PROVE  Equal(f, g)
<1> DEFINE h == [w \in Words |-> CHOOSE q \in Int : f[w] = g[w] + P * q]
<1>1. h \in Vectors /\ \A w \in Words : f[w] = g[w] + P * h[w]
  BY DEF Vectors
<1>2. Plus(g, P, h) \in Vectors
  BY <1>1, PrimeInt, PlusVector
<1>3. \A w \in Words : f[w] = Plus(g, P, h)[w]
  BY <1>1, PlusAt
<1>4. f = Plus(g, P, h)
  BY <1>2, <1>3, VectorsAgree
<1> QED
  BY <1>1, <1>4 DEF Equal

-----------------------------------------------------------------------------
(* The arithmetic of elements, as vectors. *)

LEMMA RemainderIsEqual ==
  ASSUME NEW x \in Int
  PROVE  \E q \in Int : x % P = x + P * q
<1>1. x = P * (x \div P) + (x % P) /\ x \div P \in Int
  BY PrimeInt
<1>2. x % P = x + P * (-(x \div P)) /\ -(x \div P) \in Int
  BY <1>1, PrimeInt
<1> QED
  BY <1>2

LEMMA SmallMultiple ==
  ASSUME NEW x \in Int, NEW q \in Int, -P < x, x < P, x = P * q
  PROVE  x = 0
<1>1. CASE q >= 1
  BY <1>1, PrimeInt
<1>2. CASE q <= -1
  BY <1>2, PrimeInt
<1>3. CASE q = 0
  BY <1>3, PrimeInt
<1> QED
  BY <1>1, <1>2, <1>3

\* What a definition by Element amounts to, modulo P.
LEMMA NewVector ==
  ASSUME NEW S, IsFiniteSet(S), S \subseteq Words,
         NEW f \in Vectors, \A w \in Words \ S : f[w] = 0,
         NEW e, IsElement(e), \A w : w \in DOMAIN e <=> w \in S /\ f[w] % P # 0,
         \A w \in DOMAIN e : e[w] = f[w] % P
  PROVE  Equal(Vect(e), f)
<1>1. \A w \in S : f[w] \in Int
  BY ValueInt
<1>2. Vect(e) \in Vectors
  BY ElementVector
<1>3. ASSUME NEW w \in Words PROVE \E q \in Int : Vect(e)[w] = f[w] + P * q
  <2>1. Vect(e)[w] = Coeff(e, w)
    BY DEF Vect
  <2>2. CASE w \in S
    <3>1. Coeff(e, w) = f[w] % P
      BY <2>2 DEF Coeff
    <3> QED
      BY <1>1, <2>1, <2>2, <3>1, RemainderIsEqual
  <2>3. CASE w \notin S
    <3>1. Coeff(e, w) = 0 /\ f[w] = 0
      BY <2>3 DEF Coeff
    <3>2. 0 = 0 + P * 0
      BY PrimeInt
    <3> QED
      BY <2>1, <3>1, <3>2
  <2> QED
    BY <2>2, <2>3
<1> QED
  BY <1>2, <1>3, EqualByWord

LEMMA VectAt ==
  ASSUME NEW c, IsElement(c), NEW w \in Words
  PROVE  /\ Vect(c)[w] = Coeff(c, w) /\ Vect(c)[w] \in Int
         /\ w \in DOMAIN c => Vect(c)[w] = c[w]
         /\ w \notin DOMAIN c => Vect(c)[w] = 0
BY ElementCoeff DEF Vect, Coeff

LEMMA SumVector ==
  ASSUME NEW a, NEW b, IsElement(a), IsElement(b)
  PROVE  /\ Equal(Vect(LcAdd(a, b)), Plus(Vect(a), 1, Vect(b)))
         /\ Equal(Vect(LcSub(a, b)), Plus(Vect(a), -1, Vect(b)))
<1> DEFINE S == DOMAIN a \cup DOMAIN b
<1>1. IsFiniteSet(S) /\ S \subseteq Words
  BY FS_Union DEF IsElement
<1>2. Vect(a) \in Vectors /\ Vect(b) \in Vectors
  BY ElementVector
<1>3. \A w \in Words : /\ Vect(a)[w] = Coeff(a, w) /\ Vect(b)[w] = Coeff(b, w)
                       /\ Coeff(a, w) \in Int /\ Coeff(b, w) \in Int
                       /\ w \notin S => Vect(a)[w] = 0 /\ Vect(b)[w] = 0
  BY VectAt, ElementCoeff
<1>4. Equal(Vect(LcAdd(a, b)), Plus(Vect(a), 1, Vect(b)))
  <2> DEFINE f == Plus(Vect(a), 1, Vect(b))
  <2>1. f \in Vectors
    BY <1>2, PlusVector
  <2>2. \A w \in Words : f[w] = Coeff(a, w) + Coeff(b, w) /\ (w \notin S => f[w] = 0)
    BY <1>3, PlusAt
  <2>3. /\ \A w : w \in DOMAIN LcAdd(a, b) <=> w \in S /\ f[w] % P # 0
        /\ \A w \in DOMAIN LcAdd(a, b) : LcAdd(a, b)[w] = f[w] % P
    <3>1. \A w \in S : f[w] = Coeff(a, w) + Coeff(b, w)
      BY <1>1, <2>2
    <3> HIDE DEF f
    <3> QED
      BY <3>1 DEF LcAdd, Element
  <2>4. \A w \in Words \ S : f[w] = 0
    BY <2>2
  <2>5. Equal(Vect(LcAdd(a, b)), f)
    <3> HIDE DEF S, f
    <3> QED
      BY <1>1, <2>1, <2>3, <2>4, AddElement, NewVector
  <2> QED
    BY <2>5
<1>5. Equal(Vect(LcSub(a, b)), Plus(Vect(a), -1, Vect(b)))
  <2> DEFINE f == Plus(Vect(a), -1, Vect(b))
  <2>1. f \in Vectors
    BY <1>2, PlusVector
  <2>2. \A w \in Words : f[w] = Coeff(a, w) - Coeff(b, w) /\ (w \notin S => f[w] = 0)
    BY <1>3, PlusAt
  <2>3. /\ \A w : w \in DOMAIN LcSub(a, b) <=> w \in S /\ f[w] % P # 0
        /\ \A w \in DOMAIN LcSub(a, b) : LcSub(a, b)[w] = f[w] % P
    <3>1. \A w \in S : f[w] = Coeff(a, w) - Coeff(b, w)
      BY <1>1, <2>2
    <3> HIDE DEF f
    <3> QED
      BY <3>1 DEF LcSub, Element
  <2>4. \A w \in Words \ S : f[w] = 0
    BY <2>2
  <2>5. Equal(Vect(LcSub(a, b)), f)
    <3> HIDE DEF S, f
    <3> QED
      BY <1>1, <2>1, <2>3, <2>4, AddElement, NewVector
  <2> QED
    BY <2>5
<1> QED
  BY <1>4, <1>5

LEMMA ScaleVector ==
  ASSUME NEW k \in Int, NEW a, IsElement(a)
  PROVE  Equal(Vect(Scale(k, a)), Plus(Null, k, Vect(a)))
<1> DEFINE f == Plus(Null, k, Vect(a))
<1>1. IsFiniteSet(DOMAIN a) /\ DOMAIN a \subseteq Words
  BY DEF IsElement
<1>2. Vect(a) \in Vectors /\ f \in Vectors
  BY ElementVector, UnitVectors, PlusVector
<1>3. \A w \in Words : /\ w \in DOMAIN a => f[w] = k * a[w]
                       /\ w \notin DOMAIN a => f[w] = 0
  <2> SUFFICES ASSUME NEW w \in Words
               PROVE  /\ w \in DOMAIN a => f[w] = k * a[w]
                      /\ w \notin DOMAIN a => f[w] = 0
    OBVIOUS
  <2>1. f[w] = 0 + k * Vect(a)[w]
    BY PlusAt DEF Null
  <2>2. /\ Vect(a)[w] \in Int /\ w \in DOMAIN a => Vect(a)[w] = a[w]
        /\ w \notin DOMAIN a => Vect(a)[w] = 0
    BY VectAt
  <2> HIDE DEF f
  <2>3. \A x \in Int : 0 + k * x = k * x /\ k * 0 = 0
    OBVIOUS
  <2> QED
    BY <2>1, <2>2, <2>3, VectAt
<1>4. /\ \A w : w \in DOMAIN Scale(k, a) <=> w \in DOMAIN a /\ f[w] % P # 0
      /\ \A w \in DOMAIN Scale(k, a) : Scale(k, a)[w] = f[w] % P
  <2>1. \A w \in DOMAIN a : f[w] = k * a[w]
    BY <1>1, <1>3
  <2> HIDE DEF f
  <2> QED
    BY <2>1 DEF Scale, Element
<1>5. \A w \in Words \ DOMAIN a : f[w] = 0
  BY <1>3
<1>6. Equal(Vect(Scale(k, a)), f)
  <2> HIDE DEF f
  <2> QED
    BY <1>1, <1>2, <1>4, <1>5, ScaleElement, NewVector
<1> QED
  BY <1>6

LEMMA WithoutVector ==
  ASSUME NEW c, IsElement(c), NEW w \in Words
  PROVE  Vect(Without(c, w)) = Plus(Vect(c), -Coeff(c, w), Unit(w))
<1>1. IsElement(Without(c, w)) /\ DOMAIN Without(c, w) = DOMAIN c \ {w}
  BY WithoutElement
<1>2. Coeff(c, w) \in Int /\ -Coeff(c, w) \in Int
  BY ElementCoeff
<1>3. /\ Vect(Without(c, w)) \in Vectors
      /\ Plus(Vect(c), -Coeff(c, w), Unit(w)) \in Vectors
  BY <1>1, <1>2, ElementVector, UnitVectors, PlusVector
<1>4. ASSUME NEW x \in Words
      PROVE  Vect(Without(c, w))[x] = Plus(Vect(c), -Coeff(c, w), Unit(w))[x]
  <2>1. Plus(Vect(c), -Coeff(c, w), Unit(w))[x] = Vect(c)[x] + (-Coeff(c, w)) * Unit(w)[x]
    BY PlusAt
  <2>2. Vect(Without(c, w))[x] = Coeff(Without(c, w), x) /\ Vect(c)[x] = Coeff(c, x)
    BY DEF Vect
  <2>3. Coeff(c, x) \in Int
    BY ElementCoeff
  <2>4. CASE x = w
    <3>1. Coeff(Without(c, w), x) = 0
      BY <1>1, <2>4 DEF Coeff
    <3>2. Unit(w)[x] = 1
      BY <2>4 DEF Unit
    <3>3. \A k \in Int : k + (-k) * 1 = 0
      OBVIOUS
    <3> QED
      BY <1>2, <2>1, <2>2, <2>4, <3>1, <3>2, <3>3
  <2>5. CASE x # w
    <3>1. Coeff(Without(c, w), x) = Coeff(c, x)
      BY <2>5 DEF Coeff, Without
    <3>2. Unit(w)[x] = 0
      BY <2>5 DEF Unit
    <3>3. \A k, l \in Int : k + l * 0 = k
      OBVIOUS
    <3> QED
      BY <1>2, <2>1, <2>2, <2>3, <3>1, <3>2, <3>3
  <2> QED
    BY <2>4, <2>5
<1> QED
  BY <1>3, <1>4, VectorsAgree

LEMMA ZeroVector == Vect(Zero) = Null
BY DEF Vect, Coeff, Zero, Null

-----------------------------------------------------------------------------
(* Vectors in context. *)

Extends(w, u, v) == \E t \in Words : w = u \o t \o v

Shift(u, f, v) ==
    [w \in Words |-> IF Extends(w, u, v)
                       THEN f[SubSeq(w, Len(u) + 1, Len(w) - Len(v))] ELSE 0]

LEMMA WordConcat ==
  /\ <<>> \in Words /\ Len(<<>>) = 0
  /\ \A a, b \in Words : a \o b \in Words /\ Len(a \o b) = Len(a) + Len(b)
  /\ \A a \in Words : <<>> \o a = a /\ a \o <<>> = a /\ Len(a) \in Nat
  /\ \A a, b, c \in Words : (a \o b) \o c = a \o (b \o c)
<1>1. <<>> \in Words /\ Len(<<>>) = 0
  BY WordFacts
<1>2. \A a, b \in Words : a \o b \in Words /\ Len(a \o b) = Len(a) + Len(b)
  BY ConcatProperties DEF Words
<1>3. \A a \in Words : <<>> \o a = a /\ a \o <<>> = a /\ Len(a) \in Nat
  BY ConcatEmptySeq, LenProperties DEF Words
<1>4. \A a, b, c \in Words : (a \o b) \o c = a \o (b \o c)
  BY ConcatAssociative DEF Words
<1> QED
  BY <1>1, <1>2, <1>3, <1>4

\* Concatenation, for the proofs that only need its laws.
Cat(u, v) == u \o v

LEMMA CatFacts ==
  ASSUME NEW u \in Words, NEW v \in Words, NEW w \in Words
  PROVE  /\ Cat(u, v) \in Words /\ Len(Cat(u, v)) = Len(u) + Len(v)
         /\ Len(u) \in Nat
         /\ Cat(Cat(u, v), w) = Cat(u, Cat(v, w))
<1>1. u \o v \in Words /\ Len(u \o v) = Len(u) + Len(v) /\ Len(u) \in Nat
  BY WordConcat
<1>2. (u \o v) \o w = u \o (v \o w)
  BY WordConcat
<1> QED
  BY <1>1, <1>2 DEF Cat

LEMMA CatNothing ==
  ASSUME NEW u \in Words
  PROVE  <<>> \in Words /\ Cat(<<>>, u) = u /\ Cat(u, <<>>) = u
BY WordConcat DEF Cat

LEMMA CatRegroup ==
  ASSUME NEW a \in Words, NEW u \in Words, NEW t \in Words, NEW v \in Words, NEW b \in Words
  PROVE  /\ Cat(Cat(Cat(a, u), t), Cat(v, b)) = Cat(Cat(a, Cat(Cat(u, t), v)), b)
         /\ Cat(Cat(a, u), Cat(Cat(t, v), b)) = Cat(Cat(Cat(Cat(a, u), t), v), b)
         /\ Cat(Cat(u, t), v) \in Words
<1>1. Cat(a, u) \in Words /\ Cat(u, t) \in Words
  BY CatFacts
<1>2. Cat(a, Cat(u, t)) \in Words /\ Cat(Cat(u, t), v) \in Words
  BY <1>1, CatFacts
<1>3. Cat(Cat(a, u), t) = Cat(a, Cat(u, t))
  BY CatFacts
<1>4. Cat(Cat(Cat(a, Cat(u, t)), v), b) = Cat(Cat(a, Cat(u, t)), Cat(v, b))
  BY <1>2, CatFacts
<1>5. Cat(Cat(a, Cat(u, t)), v) = Cat(a, Cat(Cat(u, t), v))
  BY <1>1, CatFacts
<1>6. Cat(Cat(t, v), b) = Cat(t, Cat(v, b))
  BY CatFacts
<1>7. Cat(v, b) \in Words
  BY CatFacts
<1>8. Cat(Cat(Cat(a, u), t), Cat(v, b)) = Cat(Cat(a, u), Cat(t, Cat(v, b)))
  BY <1>1, <1>7, CatFacts
<1> QED
  BY <1>2, <1>3, <1>4, <1>5, <1>6, <1>8

Inside(u, t, v) == u \o t \o v

LEMMA InsideMoves ==
  ASSUME NEW a \in Words, NEW b \in Words, NEW c \in Words, NEW d \in Words, NEW e \in Words
  PROVE  Inside(a, b, Inside(c, d, e)) = Inside(Inside(a, b, c), d, e)
<1>1. Cat(Cat(a, b), Cat(Cat(c, d), e)) = Cat(Cat(Cat(Cat(a, b), c), d), e)
  BY CatRegroup
<1> QED
  BY <1>1 DEF Inside, Cat

LEMMA ShiftAt ==
  ASSUME NEW u \in Words, NEW f \in Vectors, NEW v \in Words
  PROVE  /\ Shift(u, f, v) \in Vectors
         /\ \A t \in Words : Shift(u, f, v)[u \o t \o v] = f[t]
         /\ \A w \in Words : ~Extends(w, u, v) => Shift(u, f, v)[w] = 0
<1>1. ASSUME NEW t \in Words
      PROVE  Shift(u, f, v)[u \o t \o v] = f[t] /\ f[t] \in Int
  <2>1. u \o t \o v \in Words
    BY WordConcat
  <2>2. SubSeq(u \o t \o v, Len(u) + 1, Len(u \o t \o v) - Len(v)) = t
    BY MiddleOfThree
  <2>3. Extends(u \o t \o v, u, v)
    BY DEF Extends
  <2> QED
    BY <2>1, <2>2, <2>3, ValueInt DEF Shift
<1>2. ASSUME NEW w \in Words, ~Extends(w, u, v)
      PROVE  Shift(u, f, v)[w] = 0
  BY <1>2 DEF Shift
<1>3. Shift(u, f, v) \in Vectors
  <2>1. ASSUME NEW w \in Words PROVE Shift(u, f, v)[w] \in Int
    <3>1. CASE Extends(w, u, v)
      BY <1>1, <3>1 DEF Extends
    <3>2. CASE ~Extends(w, u, v)
      BY <1>2, <3>2
    <3> QED
      BY <3>1, <3>2
  <2>2. Shift(u, f, v) = [w \in Words |-> Shift(u, f, v)[w]]
    BY DEF Shift
  <2> QED
    BY <2>1, <2>2 DEF Vectors
<1> QED
  BY <1>1, <1>2, <1>3

\* How a vector is recognised as another one in context.
LEMMA ShiftIs ==
  ASSUME NEW u \in Words, NEW f \in Vectors, NEW v \in Words, NEW g \in Vectors,
         \A t \in Words : g[u \o t \o v] = f[t],
         \A w \in Words : ~Extends(w, u, v) => g[w] = 0
  PROVE  g = Shift(u, f, v)
<1>1. Shift(u, f, v) \in Vectors
  BY ShiftAt
<1>2. ASSUME NEW w \in Words PROVE g[w] = Shift(u, f, v)[w]
  <2>1. CASE Extends(w, u, v)
    <3>1. PICK t \in Words : w = u \o t \o v
      BY <2>1 DEF Extends
    <3>2. Shift(u, f, v)[u \o t \o v] = f[t]
      BY ShiftAt
    <3>3. g[u \o t \o v] = f[t]
      OBVIOUS
    <3> QED
      BY <3>1, <3>2, <3>3
  <2>2. CASE ~Extends(w, u, v)
    <3>1. Shift(u, f, v)[w] = 0
      BY <2>2, ShiftAt
    <3> QED
      BY <2>2, <3>1
  <2> QED
    BY <2>1, <2>2
<1> QED
  BY <1>1, <1>2, VectorsAgree

LEMMA ShiftPlus ==
  ASSUME NEW u \in Words, NEW v \in Words,
         NEW f \in Vectors, NEW k \in Int, NEW g \in Vectors
  PROVE  Shift(u, Plus(f, k, g), v) = Plus(Shift(u, f, v), k, Shift(u, g, v))
<1> DEFINE h == Plus(Shift(u, f, v), k, Shift(u, g, v))
<1>1. Plus(f, k, g) \in Vectors /\ h \in Vectors
  BY PlusVector, ShiftAt
<1>2. \A t \in Words : h[u \o t \o v] = Plus(f, k, g)[t]
  <2> SUFFICES ASSUME NEW t \in Words PROVE h[u \o t \o v] = Plus(f, k, g)[t]
    OBVIOUS
  <2>1. u \o t \o v \in Words
    BY WordConcat
  <2>2. h[u \o t \o v] = Shift(u, f, v)[u \o t \o v] + k * Shift(u, g, v)[u \o t \o v]
    BY <2>1, PlusAt
  <2>3. Shift(u, f, v)[u \o t \o v] = f[t] /\ Shift(u, g, v)[u \o t \o v] = g[t]
    BY ShiftAt
  <2> QED
    BY <2>2, <2>3, PlusAt
<1>3. ASSUME NEW w \in Words, ~Extends(w, u, v) PROVE h[w] = 0
  <2>1. h[w] = Shift(u, f, v)[w] + k * Shift(u, g, v)[w]
    BY PlusAt
  <2>2. Shift(u, f, v)[w] = 0 /\ Shift(u, g, v)[w] = 0
    BY <1>3, ShiftAt
  <2>3. 0 + k * 0 = 0
    OBVIOUS
  <2> QED
    BY <2>1, <2>2, <2>3
<1> HIDE DEF h
<1>4. h = Shift(u, Plus(f, k, g), v)
  BY <1>1, <1>2, <1>3, ShiftIs
<1> QED
  BY <1>4 DEF h

LEMMA ShiftNull ==
  ASSUME NEW u \in Words, NEW v \in Words
  PROVE  Shift(u, Null, v) = Null
<1>1. Null \in Vectors /\ \A w \in Words : Null[w] = 0
  BY UnitVectors DEF Null
<1>2. \A t \in Words : u \o t \o v \in Words
  BY WordConcat
<1> QED
  BY <1>1, <1>2, ShiftIs

LEMMA ShiftUnit ==
  ASSUME NEW u \in Words, NEW x \in Words, NEW v \in Words
  PROVE  Shift(u, Unit(x), v) = Unit(u \o x \o v)
<1>1. Unit(x) \in Vectors /\ Unit(u \o x \o v) \in Vectors
  BY UnitVectors
<1>2. \A t \in Words : u \o t \o v \in Words
  BY WordConcat
<1>3. ASSUME NEW t \in Words PROVE Unit(u \o x \o v)[u \o t \o v] = Unit(x)[t]
  <2>1. SubSeq(u \o t \o v, Len(u) + 1, Len(u \o t \o v) - Len(v)) = t
    BY MiddleOfThree
  <2>2. SubSeq(u \o x \o v, Len(u) + 1, Len(u \o x \o v) - Len(v)) = x
    BY MiddleOfThree
  <2>3. (u \o t \o v = u \o x \o v) <=> (t = x)
    BY <2>1, <2>2
  <2> QED
    BY <1>2, <2>3 DEF Unit
<1>4. ASSUME NEW w \in Words, ~Extends(w, u, v)
      PROVE  Unit(u \o x \o v)[w] = 0
  BY <1>4 DEF Unit, Extends
<1> QED
  BY <1>1, <1>3, <1>4, ShiftIs

LEMMA ShiftNothing ==
  ASSUME NEW f \in Vectors
  PROVE  Shift(<<>>, f, <<>>) = f
<1>1. \A t \in Words : <<>> \o t \o <<>> = t
  BY WordConcat
<1>2. <<>> \in Words
  BY WordConcat
<1>3. \A t \in Words : f[<<>> \o t \o <<>>] = f[t]
  BY <1>1
<1>4. \A w \in Words : Extends(w, <<>>, <<>>)
  BY <1>1 DEF Extends
<1> QED
  BY <1>2, <1>3, <1>4, ShiftIs

LEMMA ShiftTwice ==
  ASSUME NEW a \in Words, NEW u \in Words, NEW f \in Vectors, NEW v \in Words, NEW b \in Words
  PROVE  Shift(a, Shift(u, f, v), b) = Shift(a \o u, f, v \o b)
<1> DEFINE g == Shift(a, Shift(u, f, v), b)
<1>1. /\ Shift(u, f, v) \in Vectors /\ g \in Vectors
      /\ a \o u \in Words /\ v \o b \in Words
  BY ShiftAt, WordConcat
<1>2. \A t \in Words : u \o t \o v \in Words /\ (a \o u) \o t \o (v \o b) = a \o (u \o t \o v) \o b
  <2> SUFFICES ASSUME NEW t \in Words
               PROVE  /\ u \o t \o v \in Words
                      /\ (a \o u) \o t \o (v \o b) = a \o (u \o t \o v) \o b
    OBVIOUS
  <2>1. /\ Cat(Cat(u, t), v) \in Words
        /\ Cat(Cat(Cat(a, u), t), Cat(v, b)) = Cat(Cat(a, Cat(Cat(u, t), v)), b)
    BY CatRegroup
  <2> QED
    BY <2>1 DEF Cat
<1>3. \A t \in Words : g[(a \o u) \o t \o (v \o b)] = f[t]
  <2> SUFFICES ASSUME NEW t \in Words PROVE g[a \o (u \o t \o v) \o b] = f[t]
    BY <1>2
  <2>1. g[a \o (u \o t \o v) \o b] = Shift(u, f, v)[u \o t \o v]
    BY <1>1, <1>2, ShiftAt
  <2> QED
    BY <2>1, ShiftAt
<1>4. ASSUME NEW w \in Words, ~Extends(w, a \o u, v \o b)
      PROVE  g[w] = 0
  <2>1. CASE ~Extends(w, a, b)
    BY <1>1, <2>1, ShiftAt
  <2>2. CASE Extends(w, a, b)
    <3>1. PICK s \in Words : w = a \o s \o b
      BY <2>2 DEF Extends
    <3>2. g[w] = Shift(u, f, v)[s]
      BY <1>1, <3>1, ShiftAt
    <3>3. ~Extends(s, u, v)
      <4> SUFFICES ASSUME NEW t \in Words, s = u \o t \o v PROVE FALSE
        BY DEF Extends
      <4>1. w = (a \o u) \o t \o (v \o b)
        BY <1>2, <3>1
      <4> QED
        BY <1>4, <4>1 DEF Extends
    <3> QED
      BY <3>2, <3>3, ShiftAt
  <2> QED
    BY <2>1, <2>2
<1> HIDE DEF g
<1>5. g = Shift(a \o u, f, v \o b)
  BY <1>1, <1>3, <1>4, ShiftIs, SMTT(30)
<1> QED
  BY <1>5 DEF g

LEMMA ShiftVect ==
  ASSUME NEW u \in Words, NEW c, IsElement(c), NEW v \in Words
  PROVE  Vect(InContext(u, c, v)) = Shift(u, Vect(c), v)
<1> DEFINE e == InContext(u, c, v)
<1>1. IsElement(e) /\ DOMAIN c \subseteq Words
  BY ContextElement DEF IsElement
<1>2. Vect(c) \in Vectors /\ Vect(e) \in Vectors
  BY <1>1, ElementVector
<1>3. DOMAIN e = {u \o t \o v : t \in DOMAIN c}
  BY DEF InContext
<1>4. ASSUME NEW t \in Words PROVE Vect(e)[u \o t \o v] = Vect(c)[t]
  <2>1. u \o t \o v \in Words
    BY WordConcat
  <2>2. SubSeq(u \o t \o v, Len(u) + 1, Len(u \o t \o v) - Len(v)) = t
    BY MiddleOfThree
  <2>3. Vect(e)[u \o t \o v] = Coeff(e, u \o t \o v) /\ Vect(c)[t] = Coeff(c, t)
    BY <2>1 DEF Vect
  <2>4. CASE t \in DOMAIN c
    <3>1. u \o t \o v \in DOMAIN e
      BY <1>3, <2>4
    <3>2. e[u \o t \o v] = c[t]
      BY <1>3, <2>2, <3>1 DEF InContext
    <3> HIDE DEF e
    <3> QED
      BY <2>3, <2>4, <3>1, <3>2 DEF Coeff
  <2>5. CASE t \notin DOMAIN c
    <3>1. ASSUME NEW s \in DOMAIN c PROVE u \o t \o v # u \o s \o v
      <4>1. SubSeq(u \o s \o v, Len(u) + 1, Len(u \o s \o v) - Len(v)) = s
        BY <1>1, MiddleOfThree
      <4> QED
        BY <2>2, <2>5, <4>1
    <3>2. u \o t \o v \notin DOMAIN e
      BY <1>3, <3>1
    <3> HIDE DEF e
    <3> QED
      BY <2>3, <2>5, <3>2 DEF Coeff
  <2> QED
    BY <2>4, <2>5
<1>5. ASSUME NEW w \in Words, ~Extends(w, u, v) PROVE Vect(e)[w] = 0
  <2>1. w \notin DOMAIN e
    BY <1>1, <1>3, <1>5 DEF Extends
  <2> HIDE DEF e
  <2> QED
    BY <1>1, <2>1, VectAt
<1> HIDE DEF e
<1>6. Vect(e) = Shift(u, Vect(c), v)
  BY <1>2, <1>4, <1>5, ShiftIs
<1> QED
  BY <1>6 DEF e

-----------------------------------------------------------------------------
(* The ideal that a system generates below given words. *)

Relator(r) == Plus(Unit(r.lead), -1, Vect(r.tail))

Gens(rs, W) ==
    {f \in Vectors : \E n \in DOMAIN rs : \E u, v \in Words :
        u \o rs[n].lead \o v \in W /\ f = Shift(u, Relator(rs[n]), v)}

Ideal(rs, W) == Span(Gens(rs, W))

Under(w)  == {x \in Words : Less(x, w)}
DownTo(w) == {x \in Words : x = w \/ Less(x, w)}

IsLower(W) == W \subseteq Words /\ \A x \in W : \A y \in Words : Less(y, x) => y \in W

LEMMA RelatorVector ==
  ASSUME NEW r, IsRule(r), NEW u \in Words, NEW v \in Words
  PROVE  /\ r.lead \in Words /\ u \o r.lead \o v \in Words
         /\ Vect(r.tail) \in Vectors /\ Relator(r) \in Vectors
         /\ Shift(u, Relator(r), v) \in Vectors
         /\ Shift(u, Relator(r), v)
              = Plus(Unit(u \o r.lead \o v), -1, Shift(u, Vect(r.tail), v))
<1>1. r.lead \in Words /\ IsElement(r.tail)
  BY DEF IsRule
<1>2. Vect(r.tail) \in Vectors /\ Unit(r.lead) \in Vectors
  BY <1>1, ElementVector, UnitVectors
<1>3. Relator(r) \in Vectors
  BY <1>2, PlusVector DEF Relator
<1>4. Shift(u, Relator(r), v) \in Vectors
  BY <1>3, ShiftAt
<1>5. Shift(u, Relator(r), v) = Plus(Shift(u, Unit(r.lead), v), -1, Shift(u, Vect(r.tail), v))
  BY <1>2, ShiftPlus DEF Relator
<1>6. Shift(u, Unit(r.lead), v) = Unit(u \o r.lead \o v)
  BY <1>1, ShiftUnit
<1> QED
  BY <1>1, <1>2, <1>3, <1>4, <1>5, <1>6, WordConcat

LEMMA IdealIsSpace ==
  ASSUME NEW rs, NEW W
  PROVE  /\ IsSpace(Ideal(rs, W)) /\ Ideal(rs, W) \subseteq Vectors
         /\ Null \in Ideal(rs, W)
         /\ \A f, g \in Ideal(rs, W), k \in Int : Plus(f, k, g) \in Ideal(rs, W)
<1>1. IsSpace(Ideal(rs, W))
  BY SpanIsSpace DEF Ideal
<1> QED
  BY <1>1 DEF IsSpace

LEMMA IdealGenerator ==
  ASSUME NEW rs, IsSystem(rs), NEW n \in DOMAIN rs, NEW u \in Words, NEW v \in Words,
         NEW W, u \o rs[n].lead \o v \in W
  PROVE  Shift(u, Relator(rs[n]), v) \in Ideal(rs, W)
<1>1. Shift(u, Relator(rs[n]), v) \in Vectors
  BY RelatorVector DEF IsSystem
<1>2. Shift(u, Relator(rs[n]), v) \in Gens(rs, W)
  BY <1>1 DEF Gens
<1>3. Gens(rs, W) \subseteq Vectors
  BY DEF Gens
<1> QED
  BY <1>2, <1>3, SpanHolds DEF Ideal

LEMMA IdealIsLeast ==
  ASSUME NEW rs, NEW W, NEW S, IsSpace(S),
         \A n \in DOMAIN rs : \A u, v \in Words :
            u \o rs[n].lead \o v \in W => Shift(u, Relator(rs[n]), v) \in S
  PROVE  Ideal(rs, W) \subseteq S
<1>1. Gens(rs, W) \subseteq S
  BY DEF Gens
<1> QED
  BY <1>1, SpanIsLeast DEF Ideal

LEMMA IdealGrows ==
  ASSUME NEW rs, IsSystem(rs), NEW W, NEW X, W \subseteq X
  PROVE  Ideal(rs, W) \subseteq Ideal(rs, X)
<1>1. IsSpace(Ideal(rs, X))
  BY IdealIsSpace
<1>2. ASSUME NEW n \in DOMAIN rs, NEW u \in Words, NEW v \in Words, u \o rs[n].lead \o v \in W
      PROVE  Shift(u, Relator(rs[n]), v) \in Ideal(rs, X)
  BY <1>2, IdealGenerator
<1> QED
  BY <1>1, <1>2, IdealIsLeast

\* An element of the ideal stays one in every context.
LEMMA IdealShift ==
  ASSUME NEW rs, IsSystem(rs), NEW a \in Words, NEW b \in Words,
         NEW W, NEW X, \A x \in Words : x \in W => a \o x \o b \in X,
         NEW f \in Ideal(rs, W)
  PROVE  Shift(a, f, b) \in Ideal(rs, X)
<1> DEFINE S == {g \in Vectors : Shift(a, g, b) \in Ideal(rs, X)}
<1>1. /\ IsSpace(Ideal(rs, X)) /\ Null \in Ideal(rs, X)
      /\ \A g, h \in Ideal(rs, X), k \in Int : Plus(g, k, h) \in Ideal(rs, X)
  BY IdealIsSpace
<1>2. S \subseteq Vectors /\ Null \in S
  BY <1>1, UnitVectors, ShiftNull
<1>3. ASSUME NEW g \in S, NEW h \in S, NEW k \in Int PROVE Plus(g, k, h) \in S
  <2>1. Shift(a, Plus(g, k, h), b) = Plus(Shift(a, g, b), k, Shift(a, h, b))
    BY ShiftPlus
  <2> QED
    BY <1>1, <2>1, PlusVector
<1>4. ASSUME NEW g \in S, NEW h \in Vectors PROVE Plus(g, P, h) \in S
  <2>1. Shift(a, Plus(g, P, h), b) = Plus(Shift(a, g, b), P, Shift(a, h, b))
    BY ShiftPlus, PrimeInt
  <2>2. Shift(a, h, b) \in Vectors
    BY ShiftAt
  <2>3. Plus(Shift(a, g, b), P, Shift(a, h, b)) \in Ideal(rs, X)
    BY <1>1, <2>2 DEF IsSpace
  <2> QED
    BY <2>1, <2>3, PlusVector, PrimeInt
<1>5. IsSpace(S)
  <2> HIDE DEF S
  <2> QED
    BY <1>2, <1>3, <1>4 DEF IsSpace
<1>6. ASSUME NEW n \in DOMAIN rs, NEW u \in Words, NEW v \in Words, u \o rs[n].lead \o v \in W
      PROVE  Shift(u, Relator(rs[n]), v) \in S
  <2>1. /\ rs[n].lead \in Words /\ u \o rs[n].lead \o v \in Words
        /\ Relator(rs[n]) \in Vectors /\ Shift(u, Relator(rs[n]), v) \in Vectors
    BY RelatorVector DEF IsSystem
  <2>2. Shift(a, Shift(u, Relator(rs[n]), v), b) = Shift(a \o u, Relator(rs[n]), v \o b)
    BY <2>1, ShiftTwice
  <2>3. (a \o u) \o rs[n].lead \o (v \o b) = a \o (u \o rs[n].lead \o v) \o b
    <3> DEFINE t == rs[n].lead
    <3>1. t \in Words
      BY <2>1
    <3> HIDE DEF t
    <3>2. Cat(Cat(Cat(a, u), t), Cat(v, b)) = Cat(Cat(a, Cat(Cat(u, t), v)), b)
      BY <3>1, CatRegroup
    <3>3. (a \o u) \o t \o (v \o b) = a \o (u \o t \o v) \o b
      BY <3>2 DEF Cat
    <3> QED
      BY <3>3 DEF t
  <2>4. (a \o u) \o rs[n].lead \o (v \o b) \in X
    BY <1>6, <2>1, <2>3
  <2>5. Shift(a \o u, Relator(rs[n]), v \o b) \in Ideal(rs, X)
    BY <2>4, WordConcat, IdealGenerator
  <2> QED
    BY <2>1, <2>2, <2>5
<1>7. Ideal(rs, W) \subseteq S
  <2> HIDE DEF S
  <2> QED
    BY <1>5, <1>6, IdealIsLeast
<1> QED
  BY <1>7

LEMMA MultiplesAtAWord ==
  ASSUME NEW x \in Words
  PROVE  IsSpace({f \in Vectors : Multiple(f[x])})
<1> DEFINE S == {f \in Vectors : Multiple(f[x])}
<1>1. Null \in S
  <2>1. Null[x] = P * 0
    BY PrimeInt DEF Null
  <2> QED
    BY <2>1, UnitVectors DEF Multiple
<1>2. ASSUME NEW f \in S, NEW g \in S, NEW k \in Int PROVE Plus(f, k, g) \in S
  <2>1. PICK q \in Int : f[x] = P * q
    BY DEF Multiple
  <2>2. PICK r \in Int : g[x] = P * r
    BY DEF Multiple
  <2>3. Plus(f, k, g)[x] = P * q + k * (P * r)
    BY <2>1, <2>2, PlusAt
  <2>4. \A p \in Int : p * q + k * (p * r) = p * (q + k * r) /\ q + k * r \in Int
    OBVIOUS
  <2>5. Plus(f, k, g)[x] = P * (q + k * r) /\ q + k * r \in Int
    BY <2>3, <2>4, PrimeInt
  <2>6. Multiple(Plus(f, k, g)[x])
    BY <2>5 DEF Multiple
  <2> QED
    BY <2>6, PlusVector
<1>3. ASSUME NEW f \in S, NEW h \in Vectors PROVE Plus(f, P, h) \in S
  <2>1. PICK q \in Int : f[x] = P * q
    BY DEF Multiple
  <2>2. Plus(f, P, h)[x] = P * q + P * h[x] /\ h[x] \in Int
    BY <2>1, PlusAt, ValueInt
  <2>3. \A p, r \in Int : p * q + p * r = p * (q + r) /\ q + r \in Int
    OBVIOUS
  <2>4. Plus(f, P, h)[x] = P * (q + h[x]) /\ q + h[x] \in Int
    BY <2>2, <2>3, PrimeInt
  <2>5. Multiple(Plus(f, P, h)[x])
    BY <2>4 DEF Multiple
  <2> QED
    BY <2>5, PlusVector, PrimeInt
<1> HIDE DEF S
<1>4. IsSpace(S)
  <2>1. S \subseteq Vectors
    BY DEF S
  <2> QED
    BY <1>1, <1>2, <1>3, <2>1 DEF IsSpace
<1> QED
  BY <1>4 DEF S

LEMMA RuleSupport ==
  ASSUME NEW r, IsRule(r), NEW u \in Words, NEW v \in Words, NEW x \in Words
  PROVE  /\ x = u \o r.lead \o v => Shift(u, Relator(r), v)[x] = 1
         /\ x # u \o r.lead \o v /\ ~Less(x, u \o r.lead \o v)
              => Shift(u, Relator(r), v)[x] = 0
<1> DEFINE y == u \o r.lead \o v
           g == Shift(u, Vect(r.tail), v)
<1>1. IsElement(r.tail) /\ r.lead \in Words /\ Vect(r.tail) \in Vectors /\ y \in Seq(Nat)
  BY RelatorVector, WordFacts DEF IsRule
<1>2. Shift(u, Relator(r), v)[x] = Unit(y)[x] + (-1) * g[x]
  <2>1. Shift(u, Relator(r), v) = Plus(Unit(y), -1, g)
    BY RelatorVector
  <2> HIDE DEF y, g
  <2> QED
    BY <2>1, PlusAt
<1>3. ~Less(x, y) => g[x] = 0
  <2> SUFFICES ASSUME ~Less(x, y) PROVE g[x] = 0
    OBVIOUS
  <2>1. CASE ~Extends(x, u, v)
    BY <1>1, <2>1, ShiftAt
  <2>2. CASE Extends(x, u, v)
    <3>1. PICK t \in Words : x = u \o t \o v
      BY <2>2 DEF Extends
    <3>2. t \notin DOMAIN r.tail
      BY <3>1, TailIsSmaller
    <3>3. g[x] = Vect(r.tail)[t]
      BY <1>1, <3>1, ShiftAt
    <3> QED
      BY <1>1, <3>2, <3>3, VectAt
  <2> QED
    BY <2>1, <2>2
<1>4. ~Less(y, y)
  BY <1>1, LessIsStrict
<1>5. Unit(y)[x] = IF x = y THEN 1 ELSE 0
  BY DEF Unit
<1>6. x = y => Shift(u, Relator(r), v)[x] = 1
  <2> HIDE DEF y, g
  <2> QED
    BY <1>2, <1>3, <1>4, <1>5
<1>7. x # y /\ ~Less(x, y) => Shift(u, Relator(r), v)[x] = 0
  <2> HIDE DEF y, g
  <2> QED
    BY <1>2, <1>3, <1>5
<1> QED
  BY <1>6, <1>7

LEMMA RuleAtLead ==
  ASSUME NEW r, IsRule(r), NEW u \in Words, NEW v \in Words
  PROVE  Shift(u, Relator(r), v)[u \o r.lead \o v] = 1
<1>1. u \o r.lead \o v \in Words
  BY WordConcat DEF IsRule
<1> QED
  BY <1>1, RuleSupport

LEMMA IdealSupport ==
  ASSUME NEW rs, IsSystem(rs), NEW W, IsLower(W), NEW f \in Ideal(rs, W),
         NEW x \in Words, x \notin W
  PROVE  Multiple(f[x])
<1> DEFINE S == {g \in Vectors : Multiple(g[x])}
<1>1. IsSpace(S)
  BY MultiplesAtAWord
<1>2. ASSUME NEW n \in DOMAIN rs, NEW u \in Words, NEW v \in Words, u \o rs[n].lead \o v \in W
      PROVE  Shift(u, Relator(rs[n]), v) \in S
  <2>1. IsRule(rs[n])
    BY DEF IsSystem
  <2>2. x # u \o rs[n].lead \o v /\ ~Less(x, u \o rs[n].lead \o v)
    BY <1>2 DEF IsLower
  <2>3. Shift(u, Relator(rs[n]), v)[x] = 0 /\ 0 = P * 0
    BY <2>1, <2>2, RuleSupport, PrimeInt
  <2>4. Multiple(Shift(u, Relator(rs[n]), v)[x])
    BY <2>3 DEF Multiple
  <2> QED
    BY <2>1, <2>4, RelatorVector
<1>3. Ideal(rs, W) \subseteq S
  <2> HIDE DEF S
  <2> QED
    BY <1>1, <1>2, IdealIsLeast
<1> QED
  BY <1>3

-----------------------------------------------------------------------------
(* Rewriting changes an element by a member of the ideal. *)

\* The rule of a match, at the place of the match.
Place(w, rs, m) ==
    Shift(SubSeq(w, 1, m[1]), Relator(rs[m[2]]),
          SubSeq(w, m[1] + Len(rs[m[2]].lead) + 1, Len(w)))

LEMMA MatchFacts ==
  ASSUME NEW rs, IsSystem(rs), NEW w \in Words, NEW m \in Matches(w, rs)
  PROVE  /\ m[2] \in DOMAIN rs /\ IsRule(rs[m[2]])
         /\ m[1] \in Occurrences(rs[m[2]].lead, w) /\ m[1] \in Nat
         /\ SubSeq(w, 1, m[1]) \in Words
         /\ SubSeq(w, m[1] + Len(rs[m[2]].lead) + 1, Len(w)) \in Words
         /\ SubSeq(w, 1, m[1]) \o rs[m[2]].lead
              \o SubSeq(w, m[1] + Len(rs[m[2]].lead) + 1, Len(w)) = w
<1>1. m \in (0..Len(w)) \X (DOMAIN rs) /\ m[1] \in Occurrences(rs[m[2]].lead, w)
  BY Zenon DEF Matches
<1>2. m[1] \in 0..Len(w) /\ m[2] \in DOMAIN rs
  BY <1>1
<1>3. IsRule(rs[m[2]])
  BY <1>2 DEF IsSystem
<1>4. rs[m[2]].lead \in Words
  BY <1>3 DEF IsRule
<1>5. m[1] \in Nat
  BY <1>2, WordConcat
<1> QED
  BY <1>1, <1>2, <1>3, <1>4, <1>5, Factored

LEMMA RewriteSame ==
  ASSUME NEW rs, IsSystem(rs), NEW c, IsElement(c), NEW w \in DOMAIN c, NEW m \in Matches(w, rs),
         NEW S, IsSpace(S), Place(w, rs, m) \in S
  PROVE  Same(Vect(Rewrite(c, w, rs, m)), Vect(c), S)
<1> DEFINE r == rs[m[2]]
           u == SubSeq(w, 1, m[1])
           v == SubSeq(w, m[1] + Len(r.lead) + 1, Len(w))
           A == Without(c, w)
           B == InContext(u, r.tail, v)
           k == c[w]
           T == Shift(u, Vect(r.tail), v)
<1>1. w \in Words /\ k \in Int /\ -k \in Int /\ Coeff(c, w) = k
  <2>1. w \in Words /\ k \in 1..(P - 1)
    BY DEF IsElement
  <2>2. Coeff(c, w) = k
    BY DEF Coeff
  <2> QED
    BY <2>1, <2>2, PrimeInt
<1>2. IsRule(r) /\ u \in Words /\ v \in Words /\ u \o r.lead \o v = w
  BY <1>1, MatchFacts
<1>3. Place(w, rs, m) = Plus(Unit(w), -1, T)
  <2>1. Shift(u, Relator(r), v) = Plus(Unit(u \o r.lead \o v), -1, T)
    BY <1>2, RelatorVector
  <2> QED
    BY <1>2, <2>1 DEF Place
<1>4. IsElement(A) /\ IsElement(B) /\ IsElement(Scale(k, B))
  <2>1. IsElement(A)
    BY WithoutElement
  <2>2. IsElement(B)
    BY <1>2, ContextElement DEF IsRule
  <2> QED
    BY <1>1, <2>1, <2>2, ScaleElement
<1>5. Rewrite(c, w, rs, m) = LcAdd(A, Scale(k, B))
  BY DEF Rewrite
<1>6. Vect(A) = Plus(Vect(c), -k, Unit(w)) /\ Vect(B) = T
  <2>1. IsElement(r.tail)
    BY <1>2 DEF IsRule
  <2> QED
    BY <1>1, <1>2, <2>1, WithoutVector, ShiftVect
<1> DEFINE x == Vect(c)
           y == Unit(w)
<1>7. /\ x \in Vectors /\ y \in Vectors /\ T \in Vectors /\ Null \in Vectors
      /\ Vect(Scale(k, B)) \in Vectors /\ Vect(LcAdd(A, Scale(k, B))) \in Vectors
  BY <1>2, <1>4, AddElement, ElementVector, UnitVectors, ShiftAt DEF IsRule
<1>8. Equal(Vect(Scale(k, B)), Plus(Null, k, T))
  BY <1>1, <1>4, <1>6, ScaleVector
<1>9. Equal(Vect(LcAdd(A, Scale(k, B))), Plus(Plus(x, -k, y), 1, Vect(Scale(k, B))))
  BY <1>4, <1>6, SumVector
<1> HIDE DEF r, u, v, A, B, k, T, x, y
<1>10. /\ Plus(x, -k, y) \in Vectors /\ Plus(Null, k, T) \in Vectors /\ Plus(Null, k, y) \in Vectors
  BY <1>1, <1>7, PlusVector
<1>11. Same(T, y, S)
  <2>1. Same(y, T, S)
    BY <1>3 DEF Same, y
  <2> QED
    BY <1>7, <2>1, SameIsEquality
<1>12. Same(Vect(Scale(k, B)), Plus(Null, k, y), S)
  <2>1. Same(Vect(Scale(k, B)), Plus(Null, k, T), S)
    BY <1>7, <1>8, <1>10, EqualIsSame
  <2>2. Same(Plus(Null, k, T), Plus(Null, k, y), S)
    BY <1>1, <1>7, <1>11, SameIsEquality, SamePlus
  <2> QED
    BY <1>7, <1>10, <2>1, <2>2, SameIsEquality
<1>13. Same(Plus(Plus(x, -k, y), 1, Vect(Scale(k, B))), Plus(Plus(x, -k, y), 1, Plus(Null, k, y)), S)
  BY <1>7, <1>10, <1>12, SameIsEquality, SamePlus
<1>14. Plus(Plus(x, -k, y), 1, Plus(Null, k, y)) = x
  <2>1. Plus(Plus(x, -k, y), 1, Plus(Null, k, y)) \in Vectors
    BY <1>10, PlusVector
  <2>2. ASSUME NEW z \in Words PROVE Plus(Plus(x, -k, y), 1, Plus(Null, k, y))[z] = x[z]
    <3>1. Plus(Plus(x, -k, y), 1, Plus(Null, k, y))[z] = (x[z] + (-k) * y[z]) + 1 * (0 + k * y[z])
      BY PlusAt DEF Null
    <3>2. \A a, b \in Int : (a + (-k) * b) + 1 * (0 + k * b) = a
      BY <1>1
    <3> QED
      BY <1>7, <3>1, <3>2, ValueInt
  <2> QED
    BY <1>7, <2>1, <2>2, VectorsAgree
<1>15. Plus(Plus(x, -k, y), 1, Vect(Scale(k, B))) \in Vectors
  BY <1>7, <1>10, PlusVector
<1>16. Same(Vect(LcAdd(A, Scale(k, B))), x, S)
  <2>1. Same(Vect(LcAdd(A, Scale(k, B))), Plus(Plus(x, -k, y), 1, Vect(Scale(k, B))), S)
    BY <1>7, <1>9, <1>15, EqualIsSame
  <2>2. Same(Plus(Plus(x, -k, y), 1, Vect(Scale(k, B))), x, S)
    BY <1>13, <1>14
  <2> QED
    BY <1>7, <1>15, <2>1, <2>2, SameIsEquality
<1> QED
  BY <1>5, <1>16 DEF x

\* The rules that reduce_comb would pick at the words of W are in S.
FirstIn(rs, W, S) ==
    \A w \in W : ~Irreducible(w, rs) => Place(w, rs, FirstFactor(w, rs)) \in S

IsOver(c, W) == IsElement(c) /\ DOMAIN c \subseteq W

LEMMA RewriteStaysOver ==
  ASSUME NEW rs, IsSystem(rs), NEW W, IsLower(W), NEW c, IsOver(c, W),
         NEW w \in DOMAIN c, NEW m \in Matches(w, rs)
  PROVE  IsOver(Rewrite(c, w, rs, m), W)
<1>1. /\ IsElement(Rewrite(c, w, rs, m))
      /\ \A x \in DOMAIN Rewrite(c, w, rs, m) : x \in DOMAIN c \/ Less(x, w)
  BY RewriteDescends DEF IsOver
<1>2. DOMAIN Rewrite(c, w, rs, m) \subseteq Words
  BY <1>1 DEF IsElement
<1> QED
  BY <1>1, <1>2 DEF IsOver, IsLower

LEMMA ReduceOnceSame ==
  ASSUME NEW rs, IsSystem(rs), NEW W, IsLower(W), NEW S, IsSpace(S), FirstIn(rs, W, S),
         NEW c, IsOver(c, W), Reducible(c, rs) # {}
  PROVE  IsOver(ReduceOnce(c, rs), W) /\ Same(Vect(ReduceOnce(c, rs)), Vect(c), S)
<1> DEFINE w == Largest(Reducible(c, rs))
           m == FirstFactor(w, rs)
<1>1. /\ Reducible(c, rs) \in SUBSET Seq(Nat) /\ IsFiniteSet(Reducible(c, rs))
      /\ IsElement(c) /\ DOMAIN c \subseteq Words
  <2>1. IsElement(c) /\ DOMAIN c \subseteq Words /\ IsFiniteSet(DOMAIN c)
    BY DEF IsOver, IsElement
  <2>2. Reducible(c, rs) \subseteq DOMAIN c
    BY DEF Reducible
  <2> QED
    BY <2>1, <2>2, WordFacts, FS_Subset
<1>2. w \in DOMAIN c /\ ~Irreducible(w, rs)
  <2>1. w \in Reducible(c, rs)
    BY <1>1, LargestIsGreatest
  <2> QED
    BY <2>1 DEF Reducible
<1>3. w \in Words /\ w \in W /\ m \in Matches(w, rs)
  BY <1>1, <1>2, MatchFound DEF IsOver
<1>4. Place(w, rs, m) \in S
  BY <1>2, <1>3 DEF FirstIn
<1>5. ReduceOnce(c, rs) = Rewrite(c, w, rs, m)
  BY DEF ReduceOnce
<1> HIDE DEF w, m
<1> QED
  BY <1>1, <1>2, <1>3, <1>4, <1>5, RewriteStaysOver, RewriteSame

LEMMA ReducesSame ==
  ASSUME NEW rs, IsSystem(rs), NEW W, IsLower(W), NEW S, IsSpace(S), FirstIn(rs, W, S),
         NEW c, IsOver(c, W), NEW e, Reduces(c, e, rs)
  PROVE  IsOver(e, W) /\ Same(Vect(e), Vect(c), S)
<1>1. PICK n \in Nat : \E chain : IsReduction(chain, n, c, e, rs)
  BY DEF Reduces
<1>2. PICK chain : IsReduction(chain, n, c, e, rs)
  BY <1>1
<1> DEFINE Good(k) == IsOver(chain[k], W) /\ Same(Vect(chain[k]), Vect(c), S)
           Bad == {k \in 0..n : ~Good(k)}
<1>3. Vect(c) \in Vectors
  BY ElementVector DEF IsOver
<1>4. Good(0)
  BY <1>2, <1>3, SameIsEquality DEF IsReduction
<1>5. ASSUME NEW k \in 0..(n - 1), Good(k) PROVE Good(k + 1)
  <2>1. Reducible(chain[k], rs) # {} /\ chain[k + 1] = ReduceOnce(chain[k], rs)
    BY <1>2 DEF IsReduction
  <2>2. IsOver(chain[k + 1], W) /\ Same(Vect(chain[k + 1]), Vect(chain[k]), S)
    BY <1>5, <2>1, ReduceOnceSame
  <2>3. Vect(chain[k]) \in Vectors /\ Vect(chain[k + 1]) \in Vectors
    BY <1>5, <2>2, ElementVector DEF IsOver
  <2> QED
    BY <1>3, <1>5, <2>2, <2>3, SameIsEquality
<1>6. Bad = {}
  <2> SUFFICES ASSUME Bad # {} PROVE FALSE
    OBVIOUS
  <2>1. Bad \in SUBSET Nat
    OBVIOUS
  <2>2. PICK k \in Bad : \A l \in Bad : k <= l
    <3> HIDE DEF Bad
    <3> QED
      BY <2>1, LeastNumber
  <2>3. k \in 0..n /\ k # 0 /\ ~Good(k)
    BY <1>4
  <2>4. k - 1 \in 0..(n - 1) /\ k - 1 \in 0..n /\ (k - 1) + 1 = k /\ ~(k <= k - 1)
    BY <2>3
  <2>5. Good(k - 1)
    <3>1. k - 1 \notin Bad
      BY <2>2, <2>4
    <3> QED
      BY <2>4, <3>1
  <2> HIDE DEF Good
  <2> QED
    BY <1>5, <2>3, <2>4, <2>5
<1>7. Good(n)
  BY <1>6
<1>8. chain[n] = e
  BY <1>2 DEF IsReduction
<1> QED
  BY <1>7, <1>8

-----------------------------------------------------------------------------
(* The cleanup keeps the ideal: what a dropped rule says follows from the    *)
(* rules that are kept, below its own lead.                                  *)

\* The rules that reduce_comb picks: the first with its lead, within the bound.
IsFirst(n, rs, bound) ==
    /\ n \in DOMAIN rs /\ Len(rs[n].lead) <= bound
    /\ \A m \in DOMAIN rs : m < n => rs[m].lead # rs[n].lead

LEMMA LessMeansShorter ==
  ASSUME NEW v \in Words, NEW w \in Words, Less(v, w)
  PROVE  Len(v) <= Len(w)
<1>1. Len(v) \in Nat /\ Len(w) \in Nat
  BY WordConcat
<1> QED
  BY <1>1 DEF Less

LEMMA WordOrder ==
  ASSUME NEW u \in Words, NEW v \in Words, NEW w \in Words
  PROVE  /\ ~Less(u, u)
         /\ Less(u, v) => ~Less(v, u)
         /\ Less(u, v) /\ Less(v, w) => Less(u, w)
         /\ u # v => Less(u, v) \/ Less(v, u)
<1>1. u \in Seq(Nat) /\ v \in Seq(Nat) /\ w \in Seq(Nat)
  BY WordFacts
<1> QED
  BY <1>1, LessIsStrict, LessIsTransitive, OrderIsTotal

LEMMA LowerSets ==
  ASSUME NEW w \in Words
  PROVE  /\ IsLower(Under(w)) /\ IsLower(DownTo(w)) /\ IsLower(Words)
         /\ Under(w) \subseteq DownTo(w) /\ DownTo(w) \subseteq Words
         /\ w \in DownTo(w) /\ w \notin Under(w)
<1>1. IsLower(Under(w)) /\ IsLower(DownTo(w))
  BY WordOrder DEF IsLower, Under, DownTo
<1>2. IsLower(Words) /\ Under(w) \subseteq DownTo(w) /\ DownTo(w) \subseteq Words
  BY DEF IsLower, Under, DownTo
<1> QED
  BY <1>1, <1>2, WordOrder DEF Under, DownTo

LEMMA FactorIsNotAbove ==
  ASSUME NEW f \in Words, NEW w \in Words, Occurrences(f, w) # {}
  PROVE  f = w \/ Less(f, w)
<1>1. Len(f) <= Len(w) /\ Len(f) \in Nat /\ Len(w) \in Nat
  BY LongFactor, WordConcat
<1>2. CASE Len(f) = Len(w)
  BY <1>2, WholeFactor
<1>3. CASE Len(f) # Len(w)
  BY <1>1, <1>3 DEF Less
<1> QED
  BY <1>2, <1>3

LEMMA FirstFactorIsFirst ==
  ASSUME NEW rs, IsSystem(rs), NEW bound \in Nat,
         NEW w \in Words, ~Irreducible(w, rs), Len(w) <= bound
  PROVE  IsFirst(FirstFactor(w, rs)[2], rs, bound)
<1> DEFINE f == FirstFactor(w, rs)
<1>1. f \in Matches(w, rs)
  BY MatchFound
<1>2. /\ f[2] \in DOMAIN rs /\ IsRule(rs[f[2]]) /\ f[1] \in Nat
      /\ f[1] \in Occurrences(rs[f[2]].lead, w)
  BY <1>1, MatchFacts
<1>3. rs[f[2]].lead \in Words
  BY <1>2 DEF IsRule
<1>4. Len(rs[f[2]].lead) <= bound
  <2>1. Len(rs[f[2]].lead) <= Len(w)
    BY <1>2, <1>3, LongFactor
  <2> QED
    BY <1>3, <2>1, WordConcat
<1>5. ASSUME NEW m \in DOMAIN rs, m < f[2], rs[m].lead = rs[f[2]].lead
      PROVE  FALSE
  <2>1. f \in (0..Len(w)) \X (DOMAIN rs)
    BY <1>1, Zenon DEF Matches
  <2>2. f = <<f[1], f[2]>> /\ f[1] \in 0..Len(w)
    BY <2>1
  <2>3. <<f[1], m>> \in Matches(w, rs)
    <3>1. <<f[1], m>> \in (0..Len(w)) \X (DOMAIN rs)
      BY <2>2
    <3>2. <<f[1], m>>[1] = f[1] /\ <<f[1], m>>[2] = m
      OBVIOUS
    <3> QED
      BY <1>2, <1>5, <3>1, <3>2 DEF Matches
  <2>4. m \in Nat /\ f[2] \in Nat
    BY <1>2 DEF IsSystem
  <2>5. Less(<<f[1], m>>, <<f[1], f[2]>>)
    <3>1. /\ Len(<<f[1], m>>) = 2 /\ Len(<<f[1], f[2]>>) = 2
          /\ 2 \in DOMAIN <<f[1], m>> /\ <<f[1], m>>[2] < <<f[1], f[2]>>[2]
          /\ \A j \in 1..(2 - 1) : <<f[1], m>>[j] = <<f[1], f[2]>>[j]
      BY <1>5, <2>4
    <3> QED
      BY <3>1 DEF Less
  <2>6. \A x \in Matches(w, rs) : ~Less(x, f)
    <3>1. \A x \in Matches(w, rs) : x \in Seq(Nat)
      <4> SUFFICES ASSUME NEW x \in Matches(w, rs) PROVE x \in Seq(Nat)
        OBVIOUS
      <4>1. x \in (0..Len(w)) \X (DOMAIN rs)
        BY Zenon DEF Matches
      <4>2. PICK i \in 0..Len(w), n \in DOMAIN rs : x = <<i, n>>
        BY <4>1
      <4>3. i \in Nat /\ n \in Nat
        BY WordConcat DEF IsSystem
      <4>4. <<i, n>> \in Seq(Nat)
        BY <4>3
      <4> QED
        BY <4>2, <4>4
    <3>2. Matches(w, rs) \in SUBSET Seq(Nat) /\ Matches(w, rs) # {}
      BY <1>1, <3>1
    <3> QED
      BY <3>2, SmallestIsLeast DEF FirstFactor
  <2> HIDE DEF f
  <2> QED
    BY <2>2, <2>3, <2>5, <2>6
<1> HIDE DEF f
<1>6. IsFirst(f[2], rs, bound)
  BY <1>2, <1>4, <1>5 DEF IsFirst
<1> QED
  BY <1>6 DEF f

LEMMA MinimalSystem ==
  ASSUME NEW rs, IsSystem(rs)
  PROVE  /\ IsSystem(MinimizeLeads(rs)) /\ DOMAIN MinimizeLeads(rs) \subseteq DOMAIN rs
         /\ \A n \in DOMAIN MinimizeLeads(rs) : MinimizeLeads(rs)[n] = rs[n]
<1>1. DOMAIN MinimizeLeads(rs) \subseteq DOMAIN rs
  BY Kept
<1>2. \A n \in DOMAIN MinimizeLeads(rs) : MinimizeLeads(rs)[n] = rs[n]
  BY Kept
<1>3. IsFiniteSet(DOMAIN MinimizeLeads(rs))
  BY <1>1, FS_Subset DEF IsSystem
<1> QED
  BY <1>1, <1>2, <1>3 DEF IsSystem

LEMMA FirstInIdeal ==
  ASSUME NEW rs, IsSystem(rs), NEW ns, IsSystem(ns), NEW bound \in Nat,
         NEW W, IsLower(W), \A w \in W : Len(w) <= bound,
         \A k \in DOMAIN rs : IsFirst(k, rs, bound) /\ rs[k].lead \in W
                                => Relator(rs[k]) \in Ideal(ns, DownTo(rs[k].lead))
  PROVE  FirstIn(rs, W, Ideal(ns, W))
<1> SUFFICES ASSUME NEW w \in W, ~Irreducible(w, rs)
             PROVE  Place(w, rs, FirstFactor(w, rs)) \in Ideal(ns, W)
  BY DEF FirstIn
<1> DEFINE m == FirstFactor(w, rs)
           r == rs[m[2]]
           a == SubSeq(w, 1, m[1])
           b == SubSeq(w, m[1] + Len(r.lead) + 1, Len(w))
<1>1. w \in Words
  BY DEF IsLower
<1>2. m \in Matches(w, rs) /\ IsFirst(m[2], rs, bound)
  BY <1>1, MatchFound, FirstFactorIsFirst
<1>3. /\ m[2] \in DOMAIN rs /\ IsRule(r) /\ m[1] \in Occurrences(r.lead, w)
      /\ a \in Words /\ b \in Words /\ a \o r.lead \o b = w
  BY <1>1, <1>2, MatchFacts
<1>4. r.lead \in Words
  BY <1>3 DEF IsRule
<1>5. r.lead \in W
  <2>1. r.lead = w \/ Less(r.lead, w)
    BY <1>1, <1>3, <1>4, FactorIsNotAbove
  <2> QED
    BY <1>4, <2>1 DEF IsLower
<1>6. Relator(r) \in Ideal(ns, DownTo(r.lead))
  BY <1>2, <1>3, <1>5
<1>7. ASSUME NEW x \in Words, x \in DownTo(r.lead) PROVE a \o x \o b \in W
  <2>1. CASE x = r.lead
    BY <1>3, <2>1
  <2>2. CASE Less(x, r.lead)
    <3>1. a \in Seq(Nat) /\ b \in Seq(Nat) /\ x \in Seq(Nat) /\ r.lead \in Seq(Nat)
      BY <1>3, <1>4, WordFacts
    <3>2. Less(a \o x \o b, a \o r.lead \o b)
      BY <2>2, <3>1, OrderIsMultiplicative
    <3>3. a \o x \o b \in Words
      BY <1>3, WordFacts
    <3> QED
      BY <1>3, <3>2, <3>3 DEF IsLower
  <2> QED
    BY <1>7, <2>1, <2>2 DEF DownTo
<1>8. Place(w, rs, m) = Shift(a, Relator(r), b)
  BY DEF Place
<1> HIDE DEF m, r, a, b
<1>9. Shift(a, Relator(r), b) \in Ideal(ns, W)
  BY <1>3, <1>6, <1>7, IdealShift
<1> QED
  BY <1>8, <1>9 DEF m

\* An ambiguity that resolves: its two ways agree, modulo the ideal below it.
LEMMA ResolvedIn ==
  ASSUME NEW rs, IsSystem(rs), NEW W, IsLower(W), NEW S, IsSpace(S), FirstIn(rs, W, S),
         NEW amb, Resolves(amb, rs), IsOver(SPolynomial(amb, rs), W)
  PROVE  Vect(SPolynomial(amb, rs)) \in S
<1>1. Same(Vect(Zero), Vect(SPolynomial(amb, rs)), S)
  BY ReducesSame DEF Resolves
<1>2. Vect(Zero) = Null /\ Null \in S /\ Null \in Vectors
  BY ZeroVector, UnitVectors DEF IsSpace
<1>3. Vect(SPolynomial(amb, rs)) \in Vectors
  BY ElementVector DEF IsOver
<1> QED
  BY <1>1, <1>2, <1>3, SameIsEquality

\* The words of a tail in context are below the word that it replaces.
LEMMA ContextBelow ==
  ASSUME NEW r, IsRule(r), NEW u \in Words, NEW v \in Words
  PROVE  IsOver(InContext(u, r.tail, v), Under(u \o r.lead \o v))
<1>1. IsElement(r.tail)
  BY DEF IsRule
<1>2. /\ IsElement(InContext(u, r.tail, v))
      /\ \A w \in DOMAIN InContext(u, r.tail, v) : \E t \in DOMAIN r.tail : w = u \o t \o v
  <2>1. IsElement(InContext(u, r.tail, v)) /\ Wraps(InContext(u, r.tail, v), u, r.tail, v)
    BY <1>1, ContextElement
  <2> QED
    BY <2>1 DEF Wraps
<1>3. ASSUME NEW w \in DOMAIN InContext(u, r.tail, v) PROVE w \in Under(u \o r.lead \o v)
  <2>1. PICK t \in DOMAIN r.tail : w = u \o t \o v
    BY <1>2
  <2> QED
    BY <2>1, TailIsSmaller DEF Under
<1> QED
  BY <1>2, <1>3 DEF IsOver

LEMMA TailBelow ==
  ASSUME NEW r, IsRule(r)
  PROVE  IsOver(r.tail, Under(r.lead))
BY DEF IsRule, IsOver, IsElement, Under

LEMMA SubOver ==
  ASSUME NEW W, NEW a, NEW b, IsOver(a, W), IsOver(b, W)
  PROVE  IsOver(LcSub(a, b), W) /\ IsOver(LcAdd(a, b), W)
BY AddElement DEF IsOver

LEMMA InclusionSame ==
  ASSUME NEW rs, IsSystem(rs), NEW bound \in Nat, NEW n \in DOMAIN rs, NEW m \in DOMAIN rs,
         NEW at \in Inclusions(rs[n].lead, rs[m].lead, bound),
         NEW S, IsSpace(S), FirstIn(rs, Under(rs[n].lead), S),
         \A amb \in AllAmbiguities(rs, bound) : Resolves(amb, rs),
         NEW u, u = SubSeq(rs[n].lead, 1, at),
         NEW v, v = SubSeq(rs[n].lead, at + Len(rs[m].lead) + 1, Len(rs[n].lead))
  PROVE  /\ u \in Words /\ v \in Words /\ u \o rs[m].lead \o v = rs[n].lead
         /\ Same(Vect(rs[n].tail), Shift(u, Vect(rs[m].tail), v), S)
<1> DEFINE amb == <<n, m, Inclusion, at>>
           l == rs[n].lead
           W == Under(l)
<1>1. IsRule(rs[n]) /\ IsRule(rs[m]) /\ l \in Words /\ rs[m].lead \in Words
  BY DEF IsSystem, IsRule
<1>2. at \in Occurrences(rs[m].lead, l)
  BY DEF Inclusions
<1>3. u \in Words /\ v \in Words /\ u \o rs[m].lead \o v = l
  BY <1>1, <1>2, Factored
<1>4. amb \in AllAmbiguities(rs, bound)
  BY IsAmbiguity
<1>5. SPolynomial(amb, rs) = LcSub(rs[n].tail, InContext(u, rs[m].tail, v))
  <2>1. amb[1] = n /\ amb[2] = m /\ amb[3] = Inclusion /\ amb[4] = at /\ Inclusion # Overlap
    BY DEF Inclusion, Overlap
  <2> HIDE DEF amb
  <2> QED
    BY <2>1 DEF SPolynomial
<1>6. IsOver(rs[n].tail, W) /\ IsOver(InContext(u, rs[m].tail, v), W)
  BY <1>1, <1>3, TailBelow, ContextBelow
<1>7. Vect(SPolynomial(amb, rs)) \in S
  <2>1. IsOver(SPolynomial(amb, rs), W)
    BY <1>5, <1>6, SubOver
  <2>2. IsLower(W)
    BY <1>1, LowerSets
  <2>3. Resolves(amb, rs)
    BY <1>4
  <2> HIDE DEF amb, W
  <2> QED
    BY <2>1, <2>2, <2>3, ResolvedIn DEF W
<1> DEFINE x == Vect(rs[n].tail)
           y == Shift(u, Vect(rs[m].tail), v)
<1>8. /\ x \in Vectors /\ y \in Vectors /\ Vect(InContext(u, rs[m].tail, v)) = y
      /\ Vect(SPolynomial(amb, rs)) \in Vectors
  <2>1. x \in Vectors /\ IsElement(rs[m].tail) /\ Vect(rs[m].tail) \in Vectors
    BY <1>1, ElementVector DEF IsRule
  <2>2. y \in Vectors /\ Vect(InContext(u, rs[m].tail, v)) = y
    BY <1>3, <2>1, ShiftAt, ShiftVect
  <2>3. Vect(SPolynomial(amb, rs)) \in Vectors
    BY <1>7 DEF IsSpace
  <2> QED
    BY <2>1, <2>2, <2>3
<1>9. Equal(Vect(SPolynomial(amb, rs)), Plus(x, -1, y))
  BY <1>5, <1>6, <1>8, SumVector DEF IsOver
<1>10. Same(x, y, S)
  <2>1. Plus(x, -1, y) \in Vectors
    BY <1>8, PlusVector
  <2>2. Same(Vect(SPolynomial(amb, rs)), Plus(x, -1, y), S)
    BY <1>8, <1>9, <2>1, EqualIsSame
  <2>3. Plus(x, -1, y) \in S
    <3> HIDE DEF x, y, amb
    <3> QED
      BY <1>7, <1>8, <2>1, <2>2, SameIsEquality
  <2> QED
    BY <2>3 DEF Same
<1> QED
  BY <1>3, <1>10

LEMMA KeptRelators ==
  ASSUME NEW rs, IsSystem(rs), NEW bound \in Nat,
         \A amb \in AllAmbiguities(rs, bound) : Resolves(amb, rs)
  PROVE  \A n \in DOMAIN rs : IsFirst(n, rs, bound)
            => Relator(rs[n]) \in Ideal(MinimizeLeads(rs), DownTo(rs[n].lead))
<1> DEFINE ns == MinimizeLeads(rs)
           Good(n) == IsFirst(n, rs, bound) => Relator(rs[n]) \in Ideal(ns, DownTo(rs[n].lead))
           Bad == {l \in Words : \E n \in DOMAIN rs : rs[n].lead = l /\ ~Good(n)}
<1>1. \A n \in DOMAIN rs : IsRule(rs[n]) /\ rs[n].lead \in Words
  BY DEF IsSystem, IsRule
<1>2. IsSystem(ns) /\ \A n \in DOMAIN ns : n \in DOMAIN rs /\ ns[n] = rs[n]
  BY MinimalSystem
<1> SUFFICES ASSUME Bad # {} PROVE FALSE
  BY <1>1
<1>3. Bad \in SUBSET Seq(Nat)
  BY WordFacts
<1>4. PICK l \in Bad : \A k \in Bad : ~Less(k, l)
  <2> HIDE DEF Bad
  <2> QED
    BY <1>3, OrderIsWellFounded
<1>5. PICK n \in DOMAIN rs : rs[n].lead = l /\ ~Good(n)
  BY <1>4
<1>6. l \in Words /\ IsFirst(n, rs, bound) /\ IsRule(rs[n])
  BY <1>1, <1>5
<1> DEFINE D == Ideal(ns, DownTo(l))
           S == Ideal(ns, Under(l))
<1>7. ASSUME n \in DOMAIN ns PROVE FALSE
  <2>1. <<>> \o l \o <<>> = l /\ <<>> \in Words
    BY <1>6, WordConcat
  <2>2. <<>> \o ns[n].lead \o <<>> \in DownTo(l) /\ Relator(ns[n]) = Relator(rs[n])
    BY <1>2, <1>5, <1>6, <1>7, <2>1, LowerSets
  <2>3. Shift(<<>>, Relator(ns[n]), <<>>) \in D
    BY <1>2, <1>7, <2>1, <2>2, IdealGenerator
  <2>4. Shift(<<>>, Relator(rs[n]), <<>>) = Relator(rs[n])
    BY <1>6, <2>1, RelatorVector, ShiftNothing
  <2> QED
    BY <1>5, <2>2, <2>3, <2>4
<1>8. PICK m \in DOMAIN ns : Occurrences(rs[m].lead, l) # {}
  <2>1. ~Irreducible(l, rs)
    <3>1. Occurrences(l, l) # {}
      BY <1>6, WordConcat, ShortWord
    <3> QED
      BY <1>5, <1>6, <3>1, IrreducibleMeans
  <2>2. ~Irreducible(l, ns)
    BY <1>6, <2>1, BasisKept
  <2> HIDE DEF ns
  <2>3. \E m \in DOMAIN ns : Occurrences(ns[m].lead, l) # {}
    BY <1>2, <1>6, <2>2, IrreducibleMeans
  <2> QED
    BY <1>2, <2>3
<1>9. m \in DOMAIN rs /\ ns[m] = rs[m] /\ rs[m].lead \in Words /\ m # n
  BY <1>1, <1>2, <1>7, <1>8
<1>10. rs[m].lead # l
  <2> SUFFICES ASSUME rs[m].lead = l PROVE FALSE
    OBVIOUS
  <2>1. \A k \in DOMAIN rs : ~(k < m /\ rs[k].lead = rs[m].lead)
    BY <1>8, Kept
  <2>2. \A k \in DOMAIN rs : ~(k < n /\ rs[k].lead = rs[n].lead)
    BY <1>6 DEF IsFirst
  <2>3. m \in Nat /\ n \in Nat
    BY <1>9 DEF IsSystem
  <2> QED
    BY <1>5, <1>9, <2>1, <2>2, <2>3
<1>11. PICK at : at \in Inclusions(rs[n].lead, rs[m].lead, bound)
  <2>1. Len(rs[m].lead) < Len(l)
    <3>1. Len(rs[m].lead) <= Len(l)
      BY <1>6, <1>8, <1>9, LongFactor
    <3>2. Len(rs[m].lead) # Len(l)
      BY <1>6, <1>8, <1>9, <1>10, WholeFactor
    <3>3. Len(rs[m].lead) \in Nat /\ Len(l) \in Nat
      BY <1>6, <1>9, WordConcat
    <3> QED
      BY <3>1, <3>2, <3>3
  <2>2. Len(l) <= bound
    BY <1>5, <1>6 DEF IsFirst
  <2> QED
    BY <1>5, <1>8, <2>1, <2>2 DEF Inclusions, Fits
<1> DEFINE u == SubSeq(rs[n].lead, 1, at)
           v == SubSeq(rs[n].lead, at + Len(rs[m].lead) + 1, Len(rs[n].lead))
           x == Vect(rs[n].tail)
           y == Shift(u, Vect(rs[m].tail), v)
<1>12. FirstIn(rs, Under(l), S)
  <2>1. \A w \in Under(l) : Len(w) <= bound
    <3>1. Len(l) <= bound
      BY <1>5, <1>6 DEF IsFirst
    <3> SUFFICES ASSUME NEW w \in Under(l) PROVE Len(w) <= bound
      OBVIOUS
    <3>2. w \in Words /\ Len(w) <= Len(l)
      BY <1>6, LessMeansShorter DEF Under
    <3> QED
      BY <1>6, <3>1, <3>2, WordConcat
  <2>2. \A k \in DOMAIN rs : IsFirst(k, rs, bound) /\ rs[k].lead \in Under(l)
                                => Relator(rs[k]) \in Ideal(ns, DownTo(rs[k].lead))
    BY <1>1, <1>4 DEF Under
  <2>3. IsLower(Under(l))
    BY <1>6, LowerSets
  <2> HIDE DEF ns
  <2> QED
    BY <1>2, <2>1, <2>2, <2>3, FirstInIdeal
<1>13. IsSpace(S) /\ IsSpace(D) /\ S \subseteq D
  <2>1. Under(l) \subseteq DownTo(l)
    BY <1>6, LowerSets
  <2> HIDE DEF ns
  <2> QED
    BY <1>2, <2>1, IdealIsSpace, IdealGrows
<1>14. u \in Words /\ v \in Words /\ u \o rs[m].lead \o v = l /\ Same(x, y, S)
  <2>1. FirstIn(rs, Under(rs[n].lead), S)
    BY <1>5, <1>12
  <2> HIDE DEF S
  <2>2. /\ u \in Words /\ v \in Words /\ u \o rs[m].lead \o v = rs[n].lead
        /\ Same(Vect(rs[n].tail), Shift(u, Vect(rs[m].tail), v), S)
    BY <1>9, <1>11, <1>13, <2>1, InclusionSame
  <2> QED
    BY <1>5, <2>2
<1>15. /\ Shift(u, Relator(rs[m]), v) = Plus(Unit(l), -1, y)
       /\ x \in Vectors /\ y \in Vectors /\ Unit(l) \in Vectors
  <2>1. IsRule(rs[m])
    BY <1>1, <1>9
  <2>2. Vect(rs[m].tail) \in Vectors /\ x \in Vectors
    BY <1>6, <2>1, ElementVector DEF IsRule
  <2>3. Shift(u, Relator(rs[m]), v) = Plus(Unit(u \o rs[m].lead \o v), -1, y)
    BY <1>14, <2>1, RelatorVector
  <2>4. y \in Vectors /\ Unit(l) \in Vectors
    BY <1>14, <2>2, ShiftAt, UnitVectors
  <2> HIDE DEF u, v, y
  <2> QED
    BY <1>14, <2>2, <2>3, <2>4
<1>16. Same(Unit(l), y, D)
  <2>1. Shift(u, Relator(rs[m]), v) \in D
    <3>1. u \o ns[m].lead \o v \in DownTo(l)
      BY <1>6, <1>9, <1>14, LowerSets
    <3> HIDE DEF ns, u, v
    <3> QED
      BY <1>2, <1>8, <1>9, <1>14, <3>1, IdealGenerator
  <2> QED
    BY <1>15, <2>1 DEF Same
<1>17. Same(x, y, D)
  BY <1>13, <1>14 DEF Same
<1>18. Same(Unit(l), x, D)
  <2> HIDE DEF x, y, D
  <2> QED
    BY <1>13, <1>15, <1>16, <1>17, SameIsEquality
<1>19. Relator(rs[n]) \in D
  BY <1>5, <1>18 DEF Same, Relator
<1> QED
  BY <1>5, <1>19

-----------------------------------------------------------------------------
(* Two rules at disjoint places of a word.  The two rewritings commute, so   *)
(* that both lead to the word with both tails in it.  That product is not    *)
(* defined word by word, but as the value at one tail of a linear relation:  *)
(* the least one with given values at the words.                             *)

LEMMA UnitsGenerate ==
  ASSUME NEW c, IsElement(c), NEW S, Null \in S,
         \A f \in S, w \in DOMAIN c, k \in Int : Plus(f, k, Unit(w)) \in S
  PROVE  Vect(c) \in S
<1> DEFINE Part(X) == [w \in Words |-> IF w \in X THEN Coeff(c, w) ELSE 0]
           Bad == {n \in Nat : \E X \in SUBSET DOMAIN c : Cardinality(X) = n /\ Part(X) \notin S}
<1>1. IsFiniteSet(DOMAIN c) /\ DOMAIN c \subseteq Words /\ \A w : Coeff(c, w) \in Int
  BY ElementCoeff DEF IsElement
<1>2. Bad = {}
  <2> SUFFICES ASSUME Bad # {} PROVE FALSE
    OBVIOUS
  <2>1. PICK n \in Bad : \A k \in Bad : n <= k
    <3>1. Bad \in SUBSET Nat
      OBVIOUS
    <3> HIDE DEF Bad
    <3> QED
      BY <3>1, LeastNumber
  <2>2. PICK X \in SUBSET DOMAIN c : Cardinality(X) = n /\ Part(X) \notin S
    BY <2>1
  <2>3. PICK x \in X : TRUE
    <3>1. Part({}) = Null
      BY DEF Null
    <3> HIDE DEF Part
    <3> QED
      BY <2>2, <3>1
  <2>4. IsFiniteSet(X) /\ x \in DOMAIN c
    BY <1>1, <2>2, <2>3, FS_Subset
  <2>5. Cardinality(X \ {x}) = n - 1 /\ n - 1 \in Nat
    <3>1. Cardinality(X \ {x}) = Cardinality(X) - 1 /\ IsFiniteSet(X \ {x})
      BY <2>3, <2>4, FS_RemoveElement
    <3>2. Cardinality(X \ {x}) \in Nat
      BY <3>1, FS_CardinalityType
    <3> QED
      BY <2>2, <3>1, <3>2
  <2>6. Part(X \ {x}) \in S
    <3>1. n - 1 \notin Bad
      <4> HIDE DEF Bad
      <4>1. n \in Nat
        BY <2>1 DEF Bad
      <4> QED
        BY <2>1, <4>1, <2>5
    <3>2. X \ {x} \in SUBSET DOMAIN c
      BY <2>2
    <3> HIDE DEF Part
    <3> QED
      BY <2>5, <3>1, <3>2
  <2>7. Plus(Part(X \ {x}), Coeff(c, x), Unit(x)) = Part(X)
    <3>1. ASSUME NEW w \in Words
          PROVE  Plus(Part(X \ {x}), Coeff(c, x), Unit(x))[w] = Part(X)[w]
      <4>1. Plus(Part(X \ {x}), Coeff(c, x), Unit(x))[w]
              = Part(X \ {x})[w] + Coeff(c, x) * Unit(x)[w]
        BY PlusAt
      <4>2. CASE w = x
        <5>1. Part(X \ {x})[w] = 0 /\ Unit(x)[w] = 1 /\ Part(X)[w] = Coeff(c, x)
          BY <2>3, <4>2 DEF Unit
        <5>2. \A k \in Int : 0 + k * 1 = k
          OBVIOUS
        <5> HIDE DEF Part
        <5> QED
          BY <1>1, <4>1, <5>1, <5>2
      <4>3. CASE w # x
        <5>1. Part(X \ {x})[w] = Part(X)[w] /\ Unit(x)[w] = 0 /\ Part(X)[w] \in Int
          BY <1>1, <4>3 DEF Unit
        <5>2. \A j, k \in Int : j + k * 0 = j
          OBVIOUS
        <5> HIDE DEF Part
        <5> QED
          BY <1>1, <4>1, <5>1, <5>2
      <4> QED
        BY <4>2, <4>3
    <3>2. /\ Plus(Part(X \ {x}), Coeff(c, x), Unit(x))
               = [w \in Words |-> Plus(Part(X \ {x}), Coeff(c, x), Unit(x))[w]]
          /\ Part(X) = [w \in Words |-> Part(X)[w]]
      BY DEF Plus
    <3> HIDE DEF Part
    <3> QED
      BY <3>1, <3>2
  <2> HIDE DEF Part
  <2> QED
    BY <1>1, <2>2, <2>4, <2>6, <2>7
<1>3. Part(DOMAIN c) \in S
  <2>1. Cardinality(DOMAIN c) \in Nat
    BY <1>1, FS_CardinalityType
  <2>2. Cardinality(DOMAIN c) \notin Bad
    BY <1>2
  <2> HIDE DEF Part
  <2> QED
    BY <2>1, <2>2
<1>4. Part(DOMAIN c) = Vect(c)
  BY DEF Vect, Coeff
<1> QED
  BY <1>3, <1>4

IsLinear(B) ==
    /\ B \subseteq Vectors \X Vectors /\ <<Null, Null>> \in B
    /\ \A f, g, y, z \in Vectors, k \in Int :
          <<f, y>> \in B /\ <<g, z>> \in B => <<Plus(f, k, g), Plus(y, k, z)>> \in B

\* The least linear relation that takes each word y of Y to F[y].
Linear(Y, F) ==
    {p \in Vectors \X Vectors :
        \A B \in SUBSET (Vectors \X Vectors) :
            IsLinear(B) /\ (\A y \in Y : <<Unit(y), F[y]>> \in B) => p \in B}

LEMMA LinearIsLeast ==
  ASSUME NEW Y, NEW F, NEW B, IsLinear(B), \A y \in Y : <<Unit(y), F[y]>> \in B,
         NEW f, NEW z, <<f, z>> \in Linear(Y, F)
  PROVE  <<f, z>> \in B /\ f \in Vectors /\ z \in Vectors
<1>1. B \in SUBSET (Vectors \X Vectors)
  BY DEF IsLinear
<1>2. <<f, z>> \in B
  BY <1>1 DEF Linear
<1> QED
  BY <1>1, <1>2

LEMMA LinearIsLinear ==
  ASSUME NEW Y, NEW F, \A y \in Y : F[y] \in Vectors
  PROVE  IsLinear(Linear(Y, F)) /\ \A y \in Y : <<Unit(y), F[y]>> \in Linear(Y, F)
<1>1. Linear(Y, F) \subseteq Vectors \X Vectors
  BY DEF Linear
<1>2. <<Null, Null>> \in Linear(Y, F)
  BY UnitVectors DEF Linear, IsLinear
<1>3. ASSUME NEW f \in Vectors, NEW g \in Vectors, NEW y \in Vectors, NEW z \in Vectors,
             NEW k \in Int, <<f, y>> \in Linear(Y, F), <<g, z>> \in Linear(Y, F)
      PROVE  <<Plus(f, k, g), Plus(y, k, z)>> \in Linear(Y, F)
  <2>1. <<Plus(f, k, g), Plus(y, k, z)>> \in Vectors \X Vectors
    BY PlusVector
  <2>2. ASSUME NEW B \in SUBSET (Vectors \X Vectors), IsLinear(B),
               \A x \in Y : <<Unit(x), F[x]>> \in B
        PROVE  <<Plus(f, k, g), Plus(y, k, z)>> \in B
    <3>1. <<f, y>> \in B /\ <<g, z>> \in B
      BY <1>3, <2>2 DEF Linear
    <3> QED
      BY <2>2, <3>1 DEF IsLinear
  <2> QED
    BY <2>1, <2>2 DEF Linear
<1>4. ASSUME NEW y \in Y PROVE <<Unit(y), F[y]>> \in Linear(Y, F)
  <2>1. <<Unit(y), F[y]>> \in Vectors \X Vectors
    BY UnitVectors
  <2> QED
    BY <2>1 DEF Linear
<1> QED
  BY <1>1, <1>2, <1>3, <1>4 DEF IsLinear

LEMMA LinearHasValue ==
  ASSUME NEW c, IsElement(c), NEW F, \A y \in DOMAIN c : F[y] \in Vectors
  PROVE  \E z \in Vectors : <<Vect(c), z>> \in Linear(DOMAIN c, F)
<1> DEFINE B == Linear(DOMAIN c, F)
           S == {f \in Vectors : \E z \in Vectors : <<f, z>> \in B}
<1>1. IsLinear(B) /\ \A y \in DOMAIN c : <<Unit(y), F[y]>> \in B
  BY LinearIsLinear
<1> HIDE DEF B
<1>2. Null \in S
  BY <1>1, UnitVectors DEF IsLinear
<1>3. ASSUME NEW f \in S, NEW w \in DOMAIN c, NEW k \in Int PROVE Plus(f, k, Unit(w)) \in S
  <2>1. PICK z \in Vectors : <<f, z>> \in B
    OBVIOUS
  <2>2. Unit(w) \in Vectors /\ F[w] \in Vectors
    BY UnitVectors
  <2>3. <<Plus(f, k, Unit(w)), Plus(z, k, F[w])>> \in B
    BY <1>1, <2>1, <2>2 DEF IsLinear
  <2>4. Plus(f, k, Unit(w)) \in Vectors /\ Plus(z, k, F[w]) \in Vectors
    BY <2>1, <2>2, PlusVector
  <2> QED
    BY <2>3, <2>4
<1>4. Vect(c) \in S
  <2> HIDE DEF S
  <2> QED
    BY <1>2, <1>3, UnitsGenerate
<1> QED
  BY <1>4 DEF B

\* The values of a sum are the sums of values.
SumOfValues(Y, G, k, H, f, z) ==
    \E y, x \in Vectors : /\ <<f, y>> \in Linear(Y, G) /\ <<f, x>> \in Linear(Y, H)
                          /\ z = Plus(y, k, x)

LEMMA LinearSplits ==
  ASSUME NEW Y, NEW F, NEW G, NEW H, NEW k \in Int,
         \A y \in Y : G[y] \in Vectors /\ H[y] \in Vectors /\ F[y] = Plus(G[y], k, H[y]),
         NEW f, NEW z, <<f, z>> \in Linear(Y, F)
  PROVE  SumOfValues(Y, G, k, H, f, z)
<1> DEFINE Splits(g, s) == \E y, x \in Vectors : /\ <<g, y>> \in Linear(Y, G)
                                                 /\ <<g, x>> \in Linear(Y, H)
                                                 /\ s = Plus(y, k, x)
           B == {p \in Vectors \X Vectors : Splits(p[1], p[2])}
<1>1. /\ IsLinear(Linear(Y, G)) /\ \A y \in Y : <<Unit(y), G[y]>> \in Linear(Y, G)
      /\ IsLinear(Linear(Y, H)) /\ \A y \in Y : <<Unit(y), H[y]>> \in Linear(Y, H)
  BY LinearIsLinear
<1>2. \A g, s \in Vectors : <<g, s>> \in B <=> Splits(g, s)
  <2> HIDE DEF Splits
  <2> QED
    OBVIOUS
<1>3. <<Null, Null>> \in B
  <2>1. Plus(Null, k, Null) = Null /\ Null \in Vectors
    BY UnitVectors, Identities
  <2>2. Splits(Null, Null)
    BY <1>1, <2>1 DEF IsLinear
  <2> QED
    BY <1>2, <2>1, <2>2
<1>4. ASSUME NEW g \in Vectors, NEW h \in Vectors, NEW s \in Vectors, NEW t \in Vectors,
             NEW l \in Int, Splits(g, s), Splits(h, t)
      PROVE  Splits(Plus(g, l, h), Plus(s, l, t))
  <2>1. PICK a, b \in Vectors : /\ <<g, a>> \in Linear(Y, G) /\ <<g, b>> \in Linear(Y, H)
                                /\ s = Plus(a, k, b)
    BY <1>4
  <2>2. PICK c, d \in Vectors : /\ <<h, c>> \in Linear(Y, G) /\ <<h, d>> \in Linear(Y, H)
                                /\ t = Plus(c, k, d)
    BY <1>4
  <2>3. /\ <<Plus(g, l, h), Plus(a, l, c)>> \in Linear(Y, G)
        /\ <<Plus(g, l, h), Plus(b, l, d)>> \in Linear(Y, H)
    BY <1>1, <2>1, <2>2 DEF IsLinear
  <2>4. Plus(a, l, c) \in Vectors /\ Plus(b, l, d) \in Vectors
    BY PlusVector
  <2>5. Plus(s, l, t) = Plus(Plus(a, l, c), k, Plus(b, l, d))
    <3>1. Plus(s, l, t) \in Vectors /\ Plus(Plus(a, l, c), k, Plus(b, l, d)) \in Vectors
      BY <2>4, PlusVector
    <3>2. ASSUME NEW w \in Words
          PROVE  Plus(s, l, t)[w] = Plus(Plus(a, l, c), k, Plus(b, l, d))[w]
      <4>1. Plus(s, l, t)[w] = (a[w] + k * b[w]) + l * (c[w] + k * d[w])
        BY <2>1, <2>2, PlusAt
      <4>2. Plus(Plus(a, l, c), k, Plus(b, l, d))[w] = (a[w] + l * c[w]) + k * (b[w] + l * d[w])
        BY PlusAt
      <4>3. \A p, q, r, o \in Int :
               (p + k * q) + l * (r + k * o) = (p + l * r) + k * (q + l * o)
        BY k \in Int, l \in Int
      <4> QED
        BY <4>1, <4>2, <4>3, ValueInt
    <3> QED
      BY <3>1, <3>2, VectorsAgree
  <2> QED
    BY <2>3, <2>4, <2>5
<1>5. ASSUME NEW y \in Y PROVE <<Unit(y), F[y]>> \in B
  <2>1. G[y] \in Vectors /\ H[y] \in Vectors /\ F[y] = Plus(G[y], k, H[y])
    OBVIOUS
  <2>2. Unit(y) \in Vectors /\ F[y] \in Vectors
    BY <2>1, UnitVectors, PlusVector
  <2>3. Splits(Unit(y), F[y])
    BY <1>1, <2>1
  <2> QED
    BY <1>2, <2>2, <2>3
<1>6. IsLinear(B)
  <2>1. B \subseteq Vectors \X Vectors
    OBVIOUS
  <2>2. ASSUME NEW g \in Vectors, NEW h \in Vectors, NEW s \in Vectors, NEW t \in Vectors,
               NEW l \in Int, <<g, s>> \in B, <<h, t>> \in B
        PROVE  <<Plus(g, l, h), Plus(s, l, t)>> \in B
    <3>1. Splits(Plus(g, l, h), Plus(s, l, t))
      <4> HIDE DEF Splits, B
      <4> QED
        BY <1>2, <1>4, <2>2
    <3>2. Plus(g, l, h) \in Vectors /\ Plus(s, l, t) \in Vectors
      BY PlusVector
    <3> HIDE DEF Splits, B
    <3> QED
      BY <1>2, <3>1, <3>2
  <2> HIDE DEF B
  <2> QED
    BY <1>3, <2>1, <2>2 DEF IsLinear
<1>7. <<f, z>> \in B /\ f \in Vectors /\ z \in Vectors
  <2> HIDE DEF B
  <2> QED
    BY <1>5, <1>6, LinearIsLeast
<1> QED
  BY <1>2, <1>7 DEF SumOfValues

\* The relation that takes the tail t of a rule to the product u t C g v.
Products(r, u, C, g, v) ==
    Linear(DOMAIN r.tail, [y \in DOMAIN r.tail |-> Shift(u \o y \o C, g, v)])

LEMMA ProductFacts ==
  ASSUME NEW r, IsRule(r), NEW u \in Words, NEW C \in Words, NEW g \in Vectors, NEW v \in Words
  PROVE  /\ \E z \in Vectors : <<Vect(r.tail), z>> \in Products(r, u, C, g, v)
         /\ \A B : IsLinear(B)
                     /\ (\A y \in DOMAIN r.tail : <<Unit(y), Shift(u \o y \o C, g, v)>> \in B)
                   => \A z : <<Vect(r.tail), z>> \in Products(r, u, C, g, v)
                               => <<Vect(r.tail), z>> \in B
<1> DEFINE Y == DOMAIN r.tail
           F == [y \in Y |-> Shift(u \o y \o C, g, v)]
<1>1. IsElement(r.tail) /\ Y \subseteq Words
  BY DEF IsRule, IsElement
<1>2. \A y \in Y : F[y] = Shift(u \o y \o C, g, v) /\ F[y] \in Vectors
  BY <1>1, WordConcat, ShiftAt
<1>3. Products(r, u, C, g, v) = Linear(Y, F)
  BY DEF Products
<1> HIDE DEF F
<1>4. \E z \in Vectors : <<Vect(r.tail), z>> \in Linear(Y, F)
  BY <1>1, <1>2, LinearHasValue
<1>5. ASSUME NEW B, IsLinear(B), \A y \in Y : <<Unit(y), Shift(u \o y \o C, g, v)>> \in B,
             NEW z, <<Vect(r.tail), z>> \in Linear(Y, F)
      PROVE  <<Vect(r.tail), z>> \in B
  BY <1>2, <1>5, LinearIsLeast
<1> QED
  BY <1>3, <1>4, <1>5

SumOfProducts(r, u, C, g, k, h, v, z) ==
    \E y, x \in Vectors : /\ <<Vect(r.tail), y>> \in Products(r, u, C, g, v)
                          /\ <<Vect(r.tail), x>> \in Products(r, u, C, h, v)
                          /\ z = Plus(y, k, x)

LEMMA ProductSplits ==
  ASSUME NEW r, IsRule(r), NEW u \in Words, NEW C \in Words, NEW v \in Words,
         NEW g \in Vectors, NEW k \in Int, NEW h \in Vectors,
         NEW z, <<Vect(r.tail), z>> \in Products(r, u, C, Plus(g, k, h), v)
  PROVE  SumOfProducts(r, u, C, g, k, h, v, z)
<1> DEFINE Y == DOMAIN r.tail
           F == [y \in Y |-> Shift(u \o y \o C, Plus(g, k, h), v)]
           G == [y \in Y |-> Shift(u \o y \o C, g, v)]
           H == [y \in Y |-> Shift(u \o y \o C, h, v)]
<1>1. Y \subseteq Words
  BY DEF IsRule, IsElement
<1>2. \A y \in Y : G[y] \in Vectors /\ H[y] \in Vectors /\ F[y] = Plus(G[y], k, H[y])
  <2> SUFFICES ASSUME NEW y \in Y
               PROVE  G[y] \in Vectors /\ H[y] \in Vectors /\ F[y] = Plus(G[y], k, H[y])
    OBVIOUS
  <2>1. u \o y \o C \in Words
    BY <1>1, WordConcat
  <2>2. /\ Shift(u \o y \o C, g, v) \in Vectors /\ Shift(u \o y \o C, h, v) \in Vectors
        /\ Shift(u \o y \o C, Plus(g, k, h), v)
             = Plus(Shift(u \o y \o C, g, v), k, Shift(u \o y \o C, h, v))
    BY <2>1, ShiftAt, ShiftPlus
  <2> QED
    BY <2>2
<1>3. <<Vect(r.tail), z>> \in Linear(Y, F)
  BY DEF Products
<1>4. Products(r, u, C, g, v) = Linear(Y, G) /\ Products(r, u, C, h, v) = Linear(Y, H)
  BY DEF Products
<1> HIDE DEF F, G, H, Y
<1>5. SumOfValues(Y, G, k, H, Vect(r.tail), z)
  BY <1>2, <1>3, LinearSplits
<1> QED
  BY <1>4, <1>5 DEF SumOfValues, SumOfProducts

LEMMA ProductOfNull ==
  ASSUME NEW r, IsRule(r), NEW u \in Words, NEW C \in Words, NEW v \in Words,
         NEW z, <<Vect(r.tail), z>> \in Products(r, u, C, Null, v)
  PROVE  z = Null
<1> DEFINE B == {p \in Vectors \X Vectors : p[2] = Null}
<1>1. \A f, y \in Vectors : <<f, y>> \in B <=> y = Null
  OBVIOUS
<1>2. ASSUME NEW f \in Vectors, NEW g \in Vectors, NEW y \in Vectors, NEW x \in Vectors,
             NEW k \in Int, <<f, y>> \in B, <<g, x>> \in B
      PROVE  <<Plus(f, k, g), Plus(y, k, x)>> \in B
  <2>1. Plus(Null, k, Null) = Null
    BY UnitVectors, Identities
  <2>2. Plus(f, k, g) \in Vectors /\ Plus(y, k, x) \in Vectors
    BY PlusVector
  <2> HIDE DEF B
  <2> QED
    BY <1>1, <1>2, <2>1, <2>2
<1>3. IsLinear(B)
  <2>1. <<Null, Null>> \in B
    BY <1>1, UnitVectors
  <2>2. B \subseteq Vectors \X Vectors
    OBVIOUS
  <2> HIDE DEF B
  <2> QED
    BY <1>2, <2>1, <2>2 DEF IsLinear
<1>4. \A y \in DOMAIN r.tail : <<Unit(y), Shift(u \o y \o C, Null, v)>> \in B
  <2>1. DOMAIN r.tail \subseteq Words
    BY DEF IsRule, IsElement
  <2>2. \A y \in DOMAIN r.tail : Shift(u \o y \o C, Null, v) = Null
    BY <2>1, WordConcat, ShiftNull
  <2> HIDE DEF B
  <2> QED
    BY <1>1, <2>2, UnitVectors
<1>5. <<Vect(r.tail), z>> \in B
  <2> HIDE DEF B
  <2> QED
    BY <1>3, <1>4, UnitVectors, ProductFacts
<1> QED
  BY <1>5

LEMMA ProductOfUnit ==
  ASSUME NEW r, IsRule(r), NEW u \in Words, NEW C \in Words, NEW x \in Words, NEW v \in Words,
         NEW z, <<Vect(r.tail), z>> \in Products(r, u, C, Unit(x), v)
  PROVE  z = Shift(u, Vect(r.tail), C \o x \o v)
<1> DEFINE e == C \o x \o v
           B == {p \in Vectors \X Vectors : p[2] = Shift(u, p[1], e)}
<1>1. e \in Words
  BY WordConcat
<1>2. \A f, y \in Vectors : <<f, y>> \in B <=> y = Shift(u, f, e)
  <2> HIDE DEF e
  <2> QED
    OBVIOUS
<1>3. ASSUME NEW f \in Vectors, NEW g \in Vectors, NEW y \in Vectors, NEW s \in Vectors,
             NEW k \in Int, <<f, y>> \in B, <<g, s>> \in B
      PROVE  <<Plus(f, k, g), Plus(y, k, s)>> \in B
  <2>1. y = Shift(u, f, e) /\ s = Shift(u, g, e)
    BY <1>2, <1>3
  <2>2. Plus(f, k, g) \in Vectors /\ Plus(y, k, s) \in Vectors
    BY PlusVector
  <2> HIDE DEF B, e
  <2>3. Shift(u, Plus(f, k, g), e) = Plus(y, k, s)
    BY <1>1, <2>1, ShiftPlus
  <2> QED
    BY <1>2, <2>2, <2>3
<1>4. IsLinear(B)
  <2>1. <<Null, Null>> \in B
    <3> HIDE DEF B, e
    <3> QED
      BY <1>1, <1>2, UnitVectors, ShiftNull
  <2>2. B \subseteq Vectors \X Vectors
    OBVIOUS
  <2> HIDE DEF B
  <2> QED
    BY <1>3, <2>1, <2>2 DEF IsLinear
<1>5. ASSUME NEW y \in DOMAIN r.tail PROVE <<Unit(y), Shift(u \o y \o C, Unit(x), v)>> \in B
  <2>1. y \in Words /\ u \o y \o C \in Words
    BY WordConcat DEF IsRule, IsElement
  <2>2. Shift(u \o y \o C, Unit(x), v) = Unit((u \o y \o C) \o x \o v)
    BY <2>1, ShiftUnit
  <2>3. Shift(u, Unit(y), e) = Unit(u \o y \o e)
    BY <1>1, <2>1, ShiftUnit
  <2>4. Inside(u, y, Inside(C, x, v)) = Inside(Inside(u, y, C), x, v)
    BY <2>1, InsideMoves
  <2>5. u \o y \o e = (u \o y \o C) \o x \o v
    BY <2>4 DEF Inside
  <2>6. Unit(y) \in Vectors /\ Shift(u \o y \o C, Unit(x), v) \in Vectors
    BY <2>2, UnitVectors
  <2>7. Shift(u \o y \o C, Unit(x), v) = Shift(u, Unit(y), e)
    BY <2>2, <2>3, <2>5
  <2> HIDE DEF B, e
  <2> QED
    BY <1>2, <2>6, <2>7
<1>6. <<Vect(r.tail), z>> \in B
  <2> HIDE DEF B
  <2> QED
    BY <1>4, <1>5, UnitVectors, ProductFacts
<1> QED
  BY <1>6

\* Two rules at disjoint places: u q.lead C r.lead v.
LEMMA DisjointSame ==
  ASSUME NEW rs, IsSystem(rs), NEW n \in DOMAIN rs, NEW m \in DOMAIN rs,
         NEW u \in Words, NEW C \in Words, NEW v \in Words,
         NEW w, w = (u \o rs[n].lead \o C) \o rs[m].lead \o v
  PROVE  /\ w \in Words /\ u \o rs[n].lead \o (C \o rs[m].lead \o v) = w
         /\ Same(Shift(u, Vect(rs[n].tail), C \o rs[m].lead \o v),
                 Shift(u \o rs[n].lead \o C, Vect(rs[m].tail), v), Ideal(rs, Under(w)))
<1> DEFINE q == rs[n]
           r == rs[m]
           l == q.lead
           k == r.lead
           e == C \o k \o v
           d == u \o l \o C
           t == Vect(q.tail)
           s == Vect(r.tail)
           J == Ideal(rs, Under(w))
<1>1. IsRule(q) /\ IsRule(r)
  BY DEF IsSystem
<1>2. /\ l \in Words /\ k \in Words /\ t \in Vectors /\ s \in Vectors
      /\ DOMAIN q.tail \subseteq Words /\ DOMAIN r.tail \subseteq Words
      /\ IsElement(r.tail) /\ IsElement(q.tail)
  BY <1>1, ElementVector DEF IsRule, IsElement
<1>3. e \in Words /\ d \in Words /\ w \in Words
  BY <1>2, WordConcat
<1>4. \A y \in Words : u \o y \o e = (u \o y \o C) \o k \o v
  <2> SUFFICES ASSUME NEW y \in Words PROVE u \o y \o e = (u \o y \o C) \o k \o v
    OBVIOUS
  <2>1. Inside(u, y, Inside(C, k, v)) = Inside(Inside(u, y, C), k, v)
    BY <1>2, InsideMoves
  <2> QED
    BY <2>1 DEF Inside
<1>5. u \o l \o e = w
  BY <1>2, <1>4
<1>6. /\ IsSpace(J) /\ J \subseteq Vectors /\ Null \in Vectors
  BY IdealIsSpace, UnitVectors
<1>7. PICK z \in Vectors : <<t, z>> \in Products(q, u, C, s, v)
  BY <1>1, <1>2, ProductFacts
<1>8. Same(Shift(u, t, e), z, J)
  <2> DEFINE B == {p \in Vectors \X Vectors : Same(Shift(u, p[1], e), p[2], J)}
  <2>1. \A f, y \in Vectors : <<f, y>> \in B <=> Same(Shift(u, f, e), y, J)
    <3> HIDE DEF e, J
    <3> QED
      OBVIOUS
  <2>2. ASSUME NEW f \in Vectors, NEW g \in Vectors, NEW y \in Vectors, NEW x \in Vectors,
               NEW i \in Int, <<f, y>> \in B, <<g, x>> \in B
        PROVE  <<Plus(f, i, g), Plus(y, i, x)>> \in B
    <3>1. Same(Shift(u, f, e), y, J) /\ Same(Shift(u, g, e), x, J)
      BY <2>1, <2>2
    <3> HIDE DEF B, e, J
    <3>2. Shift(u, f, e) \in Vectors /\ Shift(u, g, e) \in Vectors
      BY <1>3, ShiftAt
    <3>3. Same(Plus(Shift(u, f, e), i, Shift(u, g, e)), Plus(y, i, x), J)
      BY <1>6, <3>1, <3>2, SamePlus
    <3>4. Shift(u, Plus(f, i, g), e) = Plus(Shift(u, f, e), i, Shift(u, g, e))
      BY <1>3, ShiftPlus
    <3>5. Plus(f, i, g) \in Vectors /\ Plus(y, i, x) \in Vectors
      BY PlusVector
    <3> QED
      BY <2>1, <3>3, <3>4, <3>5
  <2>3. IsLinear(B)
    <3>1. B \subseteq Vectors \X Vectors
      OBVIOUS
    <3>2. <<Null, Null>> \in B
      <4> HIDE DEF B, e, J
      <4>1. Shift(u, Null, e) = Null
        BY <1>3, ShiftNull
      <4> QED
        BY <1>6, <2>1, <4>1, SameIsEquality
    <3> HIDE DEF B
    <3> QED
      BY <2>2, <3>1, <3>2 DEF IsLinear
  <2>4. ASSUME NEW y \in DOMAIN q.tail PROVE <<Unit(y), Shift(u \o y \o C, s, v)>> \in B
    <3>1. y \in Words /\ Less(u \o y \o e, u \o l \o e) /\ u \o y \o e \in Words
      BY <1>1, <1>2, <1>3, TailIsSmaller
    <3>2. u \o y \o C \in Words /\ (u \o y \o C) \o k \o v \in Under(w)
      BY <1>4, <1>5, <3>1, WordConcat DEF Under
    <3>3. Shift(u \o y \o C, Relator(r), v) \in J
      BY <3>2, IdealGenerator
    <3>4. Shift(u \o y \o C, Relator(r), v)
            = Plus(Unit((u \o y \o C) \o k \o v), -1, Shift(u \o y \o C, s, v))
      BY <1>1, <3>2, RelatorVector
    <3>5. Shift(u, Unit(y), e) = Unit(u \o y \o e)
      BY <1>3, <3>1, ShiftUnit
    <3>6. u \o y \o e = (u \o y \o C) \o k \o v
      BY <1>4, <3>1
    <3>7. Same(Shift(u, Unit(y), e), Shift(u \o y \o C, s, v), J)
      BY <3>3, <3>4, <3>5, <3>6 DEF Same
    <3>8. Unit(y) \in Vectors /\ Shift(u \o y \o C, s, v) \in Vectors
      BY <1>2, <3>2, UnitVectors, ShiftAt
    <3> HIDE DEF B, e, J, s
    <3> QED
      BY <2>1, <3>7, <3>8
  <2>5. <<t, z>> \in B
    <3> HIDE DEF B, J, q
    <3> QED
      BY <1>1, <1>2, <1>7, <2>3, <2>4, ProductFacts
  <2> HIDE DEF B, e, J, t
  <2> QED
    BY <1>2, <1>7, <2>1, <2>5
<1>9. Same(Shift(d, s, v), z, J)
  <2> DEFINE S == {g \in Vectors : \A y \in Vectors :
                      <<t, y>> \in Products(q, u, C, g, v) => Same(Shift(d, g, v), y, J)}
  <2>1. Null \in S
    <3>1. Shift(d, Null, v) = Null
      BY <1>3, ShiftNull
    <3>2. ASSUME NEW y \in Vectors, <<t, y>> \in Products(q, u, C, Null, v)
          PROVE  Same(Shift(d, Null, v), y, J)
      <4>1. y = Null
        BY <1>1, <3>2, ProductOfNull
      <4> HIDE DEF J, d
      <4> QED
        BY <1>6, <3>1, <4>1, SameIsEquality
    <3> HIDE DEF J, d, t, q
    <3> QED
      BY <1>6, <3>2
  <2>2. ASSUME NEW g \in S, NEW x \in DOMAIN r.tail, NEW i \in Int PROVE Plus(g, i, Unit(x)) \in S
    <3>1. x \in Words /\ Unit(x) \in Vectors /\ g \in Vectors
      BY <1>2, UnitVectors
    <3>2. Plus(g, i, Unit(x)) \in Vectors
      BY <3>1, PlusVector
    <3>3. ASSUME NEW y \in Vectors, <<t, y>> \in Products(q, u, C, Plus(g, i, Unit(x)), v)
          PROVE  Same(Shift(d, Plus(g, i, Unit(x)), v), y, J)
      <4>1. PICK a, b \in Vectors : /\ <<t, a>> \in Products(q, u, C, g, v)
                                    /\ <<t, b>> \in Products(q, u, C, Unit(x), v)
                                    /\ y = Plus(a, i, b)
        <5>1. SumOfProducts(q, u, C, g, i, Unit(x), v, y)
          BY <1>1, <3>1, <3>3, ProductSplits
        <5> QED
          BY <5>1 DEF SumOfProducts
      <4>2. Same(Shift(d, g, v), a, J)
        BY <2>2, <4>1
      <4>3. b = Shift(u, t, C \o x \o v)
        BY <1>1, <3>1, <4>1, ProductOfUnit
      <4>4. /\ C \o x \o v \in Words /\ d \o x \o v \in Words
            /\ u \o l \o (C \o x \o v) = d \o x \o v
        <5>1. Inside(u, l, Inside(C, x, v)) = Inside(Inside(u, l, C), x, v)
          BY <1>2, <3>1, InsideMoves, SMTT(30)
        <5>2. u \o l \o (C \o x \o v) = d \o x \o v
          BY <5>1 DEF Inside
        <5> QED
          BY <1>3, <3>1, <5>2, WordConcat
      <4>5. u \o l \o (C \o x \o v) \in Under(w)
        <5>1. Less(d \o x \o v, d \o k \o v)
          BY <1>1, <1>3, TailIsSmaller
        <5> QED
          BY <4>4, <5>1 DEF Under
      <4>6. Shift(u, Relator(q), C \o x \o v) \in J
        BY <4>4, <4>5, IdealGenerator
      <4>7. Shift(u, Relator(q), C \o x \o v) = Plus(Unit(u \o l \o (C \o x \o v)), -1, b)
        BY <1>1, <4>3, <4>4, RelatorVector
      <4>8. Shift(d, Unit(x), v) = Unit(d \o x \o v)
        BY <1>3, <3>1, ShiftUnit
      <4>9. Same(Shift(d, Unit(x), v), b, J)
        BY <4>4, <4>6, <4>7, <4>8 DEF Same
      <4>10. Shift(d, Plus(g, i, Unit(x)), v) = Plus(Shift(d, g, v), i, Shift(d, Unit(x), v))
        BY <1>3, <3>1, ShiftPlus
      <4>11. Shift(d, g, v) \in Vectors /\ Shift(d, Unit(x), v) \in Vectors
        BY <1>3, <3>1, ShiftAt
      <4> HIDE DEF d, J
      <4> QED
        BY <1>6, <4>1, <4>2, <4>9, <4>10, <4>11, SamePlus
    <3> HIDE DEF J, d, t, q, r
    <3> QED
      BY <3>2, <3>3
  <2>3. s \in S
    <3> HIDE DEF S, r
    <3> QED
      BY <1>2, <2>1, <2>2, UnitsGenerate
  <2> HIDE DEF J, d, t, q, s
  <2> QED
    BY <1>7, <2>3
<1>10. Same(Shift(u, t, e), Shift(d, s, v), J)
  <2>1. Shift(u, t, e) \in Vectors /\ Shift(d, s, v) \in Vectors
    BY <1>2, <1>3, ShiftAt
  <2> HIDE DEF J, d, t, s, e
  <2> QED
    BY <1>6, <1>7, <1>8, <1>9, <2>1, SameIsEquality
<1> QED
  BY <1>3, <1>5, <1>10

-----------------------------------------------------------------------------
(* Two rules at any places of a word: the two rewritings agree, modulo the   *)
(* ideal below the word.                                                     *)

LEMMA Pieces ==
  ASSUME NEW a \in Words, NEW b \in Words
  PROVE  SubSeq(a \o b, 1, Len(a)) = a /\ SubSeq(a \o b, Len(a) + 1, Len(a \o b)) = b
<1>1. /\ a \o b \in Words /\ Len(a \o b) = Len(a) + Len(b) /\ Len(a) \in Nat /\ Len(b) \in Nat
      /\ <<>> \o a = a /\ a \o b \o <<>> = a \o b /\ <<>> \in Words /\ Len(<<>>) = 0
  BY WordConcat
<1>2. SubSeq(<<>> \o a \o b, Len(<<>>) + 1, Len(<<>> \o a \o b) - Len(b)) = a
  BY <1>1, MiddleOfThree
<1>3. SubSeq(a \o b \o <<>>, Len(a) + 1, Len(a \o b \o <<>>) - Len(<<>>)) = b
  BY <1>1, MiddleOfThree
<1>4. Len(<<>>) + 1 = 1 /\ Len(a \o b) - Len(b) = Len(a) /\ Len(a \o b) - Len(<<>>) = Len(a \o b)
  BY <1>1
<1> QED
  BY <1>1, <1>2, <1>3, <1>4

LEMMA CancelLeft ==
  ASSUME NEW a \in Words, NEW b \in Words, NEW c \in Words, a \o b = a \o c
  PROVE  b = c
<1>1. Len(a \o b) = Len(a \o c)
  OBVIOUS
<1>2. SubSeq(a \o b, Len(a) + 1, Len(a \o b)) = b /\ SubSeq(a \o c, Len(a) + 1, Len(a \o c)) = c
  BY Pieces
<1> QED
  BY <1>1, <1>2

\* Two ways to cut a word in two: the shorter first part begins the longer one.
LEMMA CatCuts ==
  ASSUME NEW u \in Words, NEW y \in Words, NEW a \in Words, NEW z \in Words,
         Cat(u, y) = Cat(a, z), Len(u) <= Len(a)
  PROVE  \E p \in Words : a = Cat(u, p) /\ y = Cat(p, z)
<1> DEFINE p == SubSeq(a, Len(u) + 1, Len(a))
<1>0. u \o y = a \o z
  BY DEF Cat
<1>1. Len(u) \in Nat /\ Len(a) \in Nat /\ Len(y) \in Nat /\ Len(z) \in Nat
  BY WordConcat
<1>2. p \in Words
  <2>1. \A i, k \in Nat : i <= k /\ k <= Len(a) => SubSeq(a, i + 1, k) \in Words
    BY SubSeqWord
  <2> QED
    BY <1>1, <2>1
<1>3. SubSeq(a, 1, Len(u)) = u
  <2>1. SubSeq(a, 0 + 1, Len(u)) \in Words /\ Len(SubSeq(a, 0 + 1, Len(u))) = Len(u) - 0
    <3>1. \A i, k \in Nat : i <= k /\ k <= Len(a)
            => SubSeq(a, i + 1, k) \in Words /\ Len(SubSeq(a, i + 1, k)) = k - i
      BY SubSeqWord
    <3>2. 0 \in Nat /\ Len(u) \in Nat /\ 0 <= Len(u) /\ Len(u) <= Len(a)
      BY <1>1
    <3> QED
      BY <3>1, <3>2, Zenon
  <2>2. SubSeq(a, 1, Len(u)) \in Words /\ Len(SubSeq(a, 1, Len(u))) = Len(u)
    BY <1>1, <2>1
  <2>3. ASSUME NEW i \in 1..Len(u) PROVE SubSeq(a, 1, Len(u))[i] = u[i]
    <3>1. SubSeq(a, 0 + 1, 0 + Len(u))[i] = a[0 + i]
      BY <1>1, FactorPlace
    <3>2. SubSeq(a, 1, Len(u))[i] = a[i]
      BY <1>1, <3>1
    <3>3. (u \o y)[i] = u[i]
      BY <1>1, ConcatProperties DEF Words
    <3>4. (a \o z)[i] = a[i]
      BY <1>1, ConcatProperties DEF Words
    <3> QED
      BY <1>0, <3>2, <3>3, <3>4
  <2> QED
    BY <2>2, <2>3, SeqEqual DEF Words
<1>4. SubSeq(a, 1, Len(u)) \o p = a
  <2>1. SubSeq(a, 1, Len(u)) \o SubSeq(a, Len(u) + 1, Len(a)) = SubSeq(a, 1, Len(a))
    <3>1. 1 \in 1..(Len(a) + 1) /\ Len(u) \in (1 - 1)..Len(a) /\ Len(a) \in Len(u)..Len(a)
      BY <1>1
    <3> QED
      BY <3>1, ConcatAdjacentSubSeq DEF Words
  <2>2. SubSeq(a, 1, Len(a)) = a
    BY SubSeqFull DEF Words
  <2> QED
    BY <2>1, <2>2
<1>5. a = u \o p
  BY <1>3, <1>4
<1> HIDE DEF p
<1>6. u \o y = u \o (p \o z) /\ p \o z \in Words
  <2>1. p \o z \in Words
    BY <1>2, WordConcat
  <2>2. (u \o p) \o z = u \o (p \o z)
    BY <1>2, WordConcat
  <2> QED
    BY <1>0, <1>5, <2>1, <2>2
<1>7. y = p \o z
  BY <1>6, CancelLeft
<1> QED
  BY <1>2, <1>5, <1>7 DEF Cat

\* Two words in a word: apart, one in the other, or they overlap.
Apart(u, l, v, a, k, b) ==
    \E C \in Words : a = Cat(Cat(u, l), C) /\ v = Cat(Cat(C, k), b)
OneInOther(u, l, v, a, k, b) ==
    \E p, s \in Words : l = Cat(Cat(p, k), s) /\ a = Cat(u, p) /\ b = Cat(s, v)
Overlapping(u, l, v, a, k, b) ==
    \E p, q, y \in Words : /\ l = Cat(p, q) /\ k = Cat(q, y) /\ a = Cat(u, p) /\ v = Cat(y, b)
                           /\ Len(q) >= 1 /\ Len(y) >= 1

LEMMA TwoPlaces ==
  ASSUME NEW u \in Words, NEW l \in Words, NEW v \in Words,
         NEW a \in Words, NEW k \in Words, NEW b \in Words,
         Cat(Cat(u, l), v) = Cat(Cat(a, k), b), Len(u) <= Len(a)
  PROVE  Apart(u, l, v, a, k, b) \/ OneInOther(u, l, v, a, k, b) \/ Overlapping(u, l, v, a, k, b)
<1>1. \A x \in Words : Len(x) \in Nat
  BY CatFacts
<1>2. Cat(u, Cat(l, v)) = Cat(a, Cat(k, b)) /\ Cat(l, v) \in Words /\ Cat(k, b) \in Words
  <2>1. Cat(Cat(u, l), v) = Cat(u, Cat(l, v)) /\ Cat(l, v) \in Words
    BY CatFacts
  <2>2. Cat(Cat(a, k), b) = Cat(a, Cat(k, b)) /\ Cat(k, b) \in Words
    BY CatFacts
  <2> QED
    BY <2>1, <2>2
<1>3. PICK p \in Words : a = Cat(u, p) /\ Cat(l, v) = Cat(p, Cat(k, b))
  BY <1>2, CatCuts
<1>4. CASE Len(l) <= Len(p)
  <2>1. PICK C \in Words : p = Cat(l, C) /\ v = Cat(C, Cat(k, b))
    BY <1>2, <1>3, <1>4, CatCuts
  <2>2. a = Cat(Cat(u, l), C)
    BY <1>3, <2>1, CatFacts
  <2>3. v = Cat(Cat(C, k), b)
    BY <2>1, CatFacts
  <2> QED
    BY <2>2, <2>3 DEF Apart
<1>5. CASE Len(p) < Len(l)
  <2>1. PICK q \in Words : l = Cat(p, q) /\ Cat(k, b) = Cat(q, v)
    <3>1. Cat(p, Cat(k, b)) = Cat(l, v) /\ Len(p) <= Len(l)
      BY <1>1, <1>3, <1>5
    <3> QED
      BY <1>2, <3>1, CatCuts
  <2>2. Len(q) >= 1
    <3>1. Len(l) = Len(p) + Len(q)
      BY <2>1, CatFacts
    <3> QED
      BY <1>1, <1>5, <3>1
  <2>3. CASE Len(k) <= Len(q)
    <3>1. PICK s \in Words : q = Cat(k, s) /\ b = Cat(s, v)
      BY <2>1, <2>3, CatCuts
    <3>2. l = Cat(Cat(p, k), s)
      BY <2>1, <3>1, CatFacts
    <3> QED
      BY <1>3, <3>1, <3>2 DEF OneInOther
  <2>4. CASE Len(q) < Len(k)
    <3>1. PICK y \in Words : k = Cat(q, y) /\ v = Cat(y, b)
      <4>1. Cat(q, v) = Cat(k, b) /\ Len(q) <= Len(k)
        BY <1>1, <2>1, <2>4
      <4> QED
        BY <4>1, CatCuts
    <3>2. Len(y) >= 1
      <4>1. Len(k) = Len(q) + Len(y)
        BY <3>1, CatFacts
      <4> QED
        BY <1>1, <2>4, <4>1
    <3> QED
      BY <1>3, <2>1, <2>2, <3>1, <3>2 DEF Overlapping
  <2> QED
    BY <1>1, <2>3, <2>4
<1> QED
  BY <1>1, <1>4, <1>5

LEMMA OccursInside ==
  ASSUME NEW p \in Words, NEW f \in Words, NEW s \in Words
  PROVE  Occurrences(f, p \o f \o s) # {}
<1> DEFINE w == p \o f \o s
<1>1. /\ Len(p) \in Nat /\ Len(f) \in Nat /\ Len(s) \in Nat
      /\ Len(w) = Len(p) + Len(f) + Len(s)
  BY WordConcat
<1>2. SubSeq(w, Len(p) + 1, Len(w) - Len(s)) = f
  BY MiddleOfThree
<1>3. Len(w) - Len(s) = Len(p) + Len(f) /\ Len(p) \in 0..(Len(w) - Len(f))
  BY <1>1
<1>4. Len(p) \in Occurrences(f, w)
  BY <1>2, <1>3 DEF Occurrences
<1> QED
  BY <1>4

\* What the certificate rests on: rules whose ambiguities up to the bound all
\* resolve, and a bound that is large enough for the rules that are kept.
IsComplete(rs, bound) ==
    /\ IsSystem(rs) /\ bound \in Nat
    /\ \A amb \in AllAmbiguities(rs, bound) : Resolves(amb, rs)
    /\ BoundSuffices(MinimizeLeads(rs), bound)

LEMMA OverlapSame ==
  ASSUME NEW rs, NEW bound, IsComplete(rs, bound),
         NEW ns, ns = MinimizeLeads(rs), NEW n \in DOMAIN ns, NEW m \in DOMAIN ns,
         NEW p \in Words, NEW q \in Words, NEW y \in Words,
         ns[n].lead = p \o q, ns[m].lead = q \o y,
         Len(p) >= 1, Len(q) >= 1, Len(y) >= 1,
         NEW o, o = p \o q \o y
  PROVE  Same(Shift(<<>>, Vect(ns[n].tail), y), Shift(p, Vect(ns[m].tail), <<>>),
              Ideal(ns, Under(o)))
<1> DEFINE at == Len(q)
           amb == <<n, m, Overlap, at>>
           d == Len(p) + Len(q) + Len(y)
           S == Ideal(ns, Under(o))
<1>1. /\ IsSystem(rs) /\ bound \in Nat /\ BoundSuffices(ns, bound)
      /\ \A a \in AllAmbiguities(rs, bound) : Resolves(a, rs)
  BY DEF IsComplete
<1>2. IsSystem(ns) /\ n \in DOMAIN rs /\ m \in DOMAIN rs /\ ns[n] = rs[n] /\ ns[m] = rs[m]
  BY <1>1, MinimalSystem
<1>3. /\ Len(p) \in Nat /\ Len(q) \in Nat /\ Len(y) \in Nat /\ o \in Words
      /\ Len(o) = d /\ Len(p \o q) = Len(p) + Len(q) /\ Len(q \o y) = Len(q) + Len(y)
      /\ p \o q \in Words /\ q \o y \in Words /\ <<>> \in Words
  BY WordConcat, SMTT(30)
<1>4. /\ SubSeq(p \o q, 1, Len(p)) = p /\ SubSeq(p \o q, Len(p) + 1, Len(p \o q)) = q
      /\ SubSeq(q \o y, 1, at) = q /\ SubSeq(q \o y, at + 1, Len(q \o y)) = y
  BY Pieces
<1>5. Len(p \o q) - at = Len(p)
  BY <1>3
<1>6. at \in Overlaps(ns[n].lead, ns[m].lead, d)
  <2>1. at \in 1..(Len(p \o q) - 1) /\ at < Len(q \o y) /\ Len(p \o q) + Len(q \o y) - at <= d
    BY <1>3
  <2>2. SubSeq(p \o q, Len(p \o q) - at + 1, Len(p \o q)) = SubSeq(q \o y, 1, at)
    BY <1>4, <1>5
  <2> HIDE DEF at, d
  <2> QED
    BY <2>1, <2>2 DEF Overlaps, Fits
<1>7. amb \in AllAmbiguities(ns, bound)
  <2>1. d \in Nat
    BY <1>3
  <2>2. amb \in AllAmbiguities(ns, d)
    <3> HIDE DEF at, d
    <3> QED
      BY <1>6, IsAmbiguity
  <2> HIDE DEF amb, d
  <2> QED
    BY <1>1, <1>2, <2>1, <2>2, NoneIsLonger
<1>8. amb \in AllAmbiguities(rs, bound)
  <2> HIDE DEF amb
  <2> QED
    BY <1>1, <1>7, KeptAmbiguities
<1>9. Len(o) <= bound
  <2>1. /\ amb[1] = n /\ amb[2] = m /\ amb[3] = Overlap /\ amb[4] = at /\ Overlap # Inclusion
    BY DEF Overlap, Inclusion
  <2>2. at \in Overlaps(rs[n].lead, rs[m].lead, bound)
    <3> HIDE DEF amb, at
    <3> QED
      BY <1>1, <1>8, <2>1, AmbiguityFacts
  <2>3. Len(p \o q) + Len(q \o y) - at <= bound
    <3> HIDE DEF at
    <3> QED
      BY <1>2, <2>2 DEF Overlaps, Fits
  <2> QED
    BY <1>3, <2>3
<1>10. SPolynomial(amb, rs) = LcSub(InContext(<<>>, rs[n].tail, y), InContext(p, rs[m].tail, <<>>))
  <2>1. /\ amb[1] = n /\ amb[2] = m /\ amb[3] = Overlap /\ amb[4] = at
    OBVIOUS
  <2>2. SPolynomial(amb, rs)
          = LcSub(InContext(<<>>, rs[n].tail, SubSeq(rs[m].lead, at + 1, Len(rs[m].lead))),
                  InContext(SubSeq(rs[n].lead, 1, Len(rs[n].lead) - at), rs[m].tail, <<>>))
    <3> HIDE DEF amb, at
    <3> QED
      BY <2>1 DEF SPolynomial
  <2> HIDE DEF amb, at
  <2> QED
    BY <1>2, <1>4, <1>5, <2>2
<1>11. /\ IsOver(InContext(<<>>, rs[n].tail, y), Under(o))
       /\ IsOver(InContext(p, rs[m].tail, <<>>), Under(o))
       /\ IsOver(SPolynomial(amb, rs), Under(o))
  <2>1. IsRule(rs[n]) /\ IsRule(rs[m])
    BY <1>1, <1>2 DEF IsSystem
  <2>2. <<>> \o rs[n].lead \o y = o
    <3>1. <<>> \o (p \o q) = p \o q
      BY <1>3, WordConcat
    <3> QED
      BY <1>2, <3>1
  <2>3. p \o rs[m].lead \o <<>> = o
    <3>1. p \o (q \o y) = (p \o q) \o y
      BY WordConcat
    <3>4. p \o (q \o y) \in Words
      BY <1>3, WordConcat
    <3>2. (p \o (q \o y)) \o <<>> = p \o (q \o y)
      BY <3>4, WordConcat
    <3> QED
      BY <1>2, <3>1, <3>2, <3>4
  <2>4. /\ IsOver(InContext(<<>>, rs[n].tail, y), Under(<<>> \o rs[n].lead \o y))
        /\ IsOver(InContext(p, rs[m].tail, <<>>), Under(p \o rs[m].lead \o <<>>))
    BY <1>3, <2>1, ContextBelow
  <2> HIDE DEF amb
  <2> QED
    BY <1>10, <2>2, <2>3, <2>4, SubOver
<1>12. Vect(SPolynomial(amb, rs)) \in S
  <2>1. IsLower(Under(o)) /\ IsSpace(S) /\ Resolves(amb, rs)
    BY <1>1, <1>3, <1>8, LowerSets, IdealIsSpace
  <2>2. \A w \in Under(o) : Len(w) <= bound
    <3> SUFFICES ASSUME NEW w \in Under(o) PROVE Len(w) <= bound
      OBVIOUS
    <3>1. w \in Words /\ Len(w) <= Len(o)
      BY <1>3, LessMeansShorter DEF Under
    <3>2. Len(w) \in Nat /\ Len(o) \in Nat
      BY <1>3, <3>1, WordConcat
    <3> QED
      BY <1>1, <1>9, <3>1, <3>2
  <2>3. \A k \in DOMAIN rs : IsFirst(k, rs, bound) => Relator(rs[k]) \in Ideal(ns, DownTo(rs[k].lead))
    BY <1>1, KeptRelators
  <2>4. FirstIn(rs, Under(o), S)
    BY <1>1, <1>2, <2>1, <2>2, <2>3, FirstInIdeal
  <2> HIDE DEF amb, S
  <2> QED
    BY <1>1, <1>11, <2>1, <2>4, ResolvedIn
<1> DEFINE f == Shift(<<>>, Vect(ns[n].tail), y)
           g == Shift(p, Vect(ns[m].tail), <<>>)
           A == InContext(<<>>, rs[n].tail, y)
           B == InContext(p, rs[m].tail, <<>>)
<1>13. f \in Vectors /\ g \in Vectors /\ Vect(A) = f /\ Vect(B) = g
  <2>1. IsElement(rs[n].tail) /\ IsElement(rs[m].tail)
    BY <1>1, <1>2 DEF IsSystem, IsRule
  <2>2. Vect(rs[n].tail) \in Vectors /\ Vect(rs[m].tail) \in Vectors
    BY <2>1, ElementVector
  <2> QED
    BY <1>2, <1>3, <2>1, <2>2, ShiftAt, ShiftVect
<1>14. Equal(Vect(LcSub(A, B)), Plus(f, -1, g)) /\ Vect(LcSub(A, B)) \in Vectors
  <2>1. IsElement(A) /\ IsElement(B)
    BY <1>11 DEF IsOver
  <2> HIDE DEF A, B, f, g
  <2> QED
    BY <1>13, <2>1, SumVector, AddElement, ElementVector
<1>15. Plus(f, -1, g) \in S
  <2>1. Vect(LcSub(A, B)) \in S /\ IsSpace(S) /\ Plus(f, -1, g) \in Vectors
    BY <1>10, <1>12, <1>13, IdealIsSpace, PlusVector
  <2> HIDE DEF A, B, f, g, S
  <2>2. Same(Vect(LcSub(A, B)), Plus(f, -1, g), S)
    BY <1>14, <2>1, EqualIsSame
  <2> QED
    BY <1>14, <2>1, <2>2, SameIsEquality
<1> QED
  BY <1>15 DEF Same

LEMMA ShiftTwiceCat ==
  ASSUME NEW a \in Words, NEW u \in Words, NEW f \in Vectors, NEW v \in Words, NEW b \in Words
  PROVE  Shift(a, Shift(u, f, v), b) = Shift(Cat(a, u), f, Cat(v, b))
<1>1. Shift(a, Shift(u, f, v), b) = Shift(a \o u, f, v \o b)
  BY ShiftTwice
<1> QED
  BY <1>1 DEF Cat

\* Overlapping rules, in a context.
LEMMA OverlapShifted ==
  ASSUME NEW rs, NEW bound, IsComplete(rs, bound),
         NEW ns, ns = MinimizeLeads(rs), NEW n \in DOMAIN ns, NEW m \in DOMAIN ns,
         NEW p \in Words, NEW q \in Words, NEW y \in Words,
         ns[n].lead = p \o q, ns[m].lead = q \o y,
         Len(p) >= 1, Len(q) >= 1, Len(y) >= 1,
         NEW u \in Words, NEW b \in Words,
         NEW w, w = (u \o p) \o (q \o y) \o b
  PROVE  Same(Shift(u, Vect(ns[n].tail), y \o b), Shift(u \o p, Vect(ns[m].tail), b),
              Ideal(ns, Under(w)))
<1> DEFINE o == p \o q \o y
           f == Shift(<<>>, Vect(ns[n].tail), y)
           g == Shift(p, Vect(ns[m].tail), <<>>)
<1>1. IsSystem(ns)
  BY MinimalSystem DEF IsComplete
<1>2. /\ Vect(ns[n].tail) \in Vectors /\ Vect(ns[m].tail) \in Vectors
      /\ f \in Vectors /\ g \in Vectors
  <2>1. IsElement(ns[n].tail) /\ IsElement(ns[m].tail)
    BY <1>1 DEF IsSystem, IsRule
  <2>2. Vect(ns[n].tail) \in Vectors /\ Vect(ns[m].tail) \in Vectors
    BY <2>1, ElementVector
  <2> QED
    BY <2>2, ShiftAt, WordConcat
<1>3. o \in Words /\ u \o p \in Words /\ y \o b \in Words /\ p \o q \in Words /\ q \o y \in Words
  BY WordConcat
<1>4. u \o o \o b = w
  <2>1. Cat(u, Cat(Cat(p, q), y)) = Cat(Cat(u, p), Cat(q, y))
    BY CatFacts
  <2> QED
    BY <2>1 DEF Cat
<1>5. Plus(f, -1, g) \in Ideal(ns, Under(o))
  BY OverlapSame DEF Same
<1> HIDE DEF o, f, g
<1>6. ASSUME NEW x \in Words, x \in Under(o) PROVE u \o x \o b \in Under(w)
  <2>1. u \in Seq(Nat) /\ x \in Seq(Nat) /\ o \in Seq(Nat) /\ b \in Seq(Nat) /\ Less(x, o)
    BY <1>3, <1>6, WordFacts DEF Under
  <2>2. Less(u \o x \o b, u \o o \o b)
    BY <2>1, OrderIsMultiplicative
  <2> QED
    BY <1>4, <2>2, WordFacts DEF Under
<1>7. Shift(u, Plus(f, -1, g), b) \in Ideal(ns, Under(w))
  BY <1>1, <1>5, <1>6, IdealShift
<1>8. Shift(u, Plus(f, -1, g), b) = Plus(Shift(u, f, b), -1, Shift(u, g, b))
  BY <1>2, ShiftPlus
<1>9. Shift(u, f, b) = Shift(u, Vect(ns[n].tail), y \o b)
  <2>1. Shift(u, f, b) = Shift(Cat(u, <<>>), Vect(ns[n].tail), Cat(y, b))
    <3>1. <<>> \in Words
      BY WordConcat
    <3> QED
      BY <1>2, <3>1, ShiftTwiceCat DEF f
  <2> QED
    BY <2>1, CatNothing DEF Cat
<1>10. Shift(u, g, b) = Shift(u \o p, Vect(ns[m].tail), b)
  <2>1. Shift(u, g, b) = Shift(Cat(u, p), Vect(ns[m].tail), Cat(<<>>, b))
    <3>1. <<>> \in Words
      BY WordConcat
    <3> QED
      BY <1>2, <3>1, ShiftTwiceCat DEF g
  <2> QED
    BY <2>1, CatNothing DEF Cat
<1> QED
  BY <1>7, <1>8, <1>9, <1>10 DEF Same

\* A kept lead that occurs in a kept lead is that lead.
LEMMA KeptInside ==
  ASSUME NEW rs, NEW bound, IsComplete(rs, bound),
         NEW ns, ns = MinimizeLeads(rs), NEW n \in DOMAIN ns, NEW m \in DOMAIN ns,
         NEW p \in Words, NEW s \in Words, ns[n].lead = Cat(Cat(p, ns[m].lead), s)
  PROVE  n = m /\ p = <<>> /\ s = <<>>
<1>1. IsSystem(rs)
  BY DEF IsComplete
<1>2. IsSystem(ns) /\ ns[n] = rs[n] /\ ns[m] = rs[m]
  BY <1>1, MinimalSystem
<1>3. ns[n].lead \in Words /\ ns[m].lead \in Words
  BY <1>2 DEF IsSystem, IsRule
<1>4. Occurrences(rs[m].lead, rs[n].lead) # {}
  <2>1. ns[n].lead = p \o ns[m].lead \o s
    BY DEF Cat
  <2> QED
    BY <1>2, <1>3, <2>1, OccursInside
<1>5. n = m
  BY <1>1, <1>4, MinimalLeads
<1>6. Len(ns[n].lead) = Len(p) + Len(ns[m].lead) + Len(s)
  <2>1. /\ Cat(p, ns[m].lead) \in Words
        /\ Len(Cat(p, ns[m].lead)) = Len(p) + Len(ns[m].lead)
    BY <1>3, CatFacts
  <2>2. Len(Cat(Cat(p, ns[m].lead), s)) = Len(Cat(p, ns[m].lead)) + Len(s)
    BY <2>1, CatFacts
  <2> QED
    BY <2>1, <2>2
<1>7. Len(p) \in Nat /\ Len(s) \in Nat /\ Len(ns[m].lead) \in Nat
  BY <1>3, WordConcat
<1>8. Len(p) = 0 /\ Len(s) = 0
  BY <1>5, <1>6, <1>7
<1> QED
  BY <1>5, <1>8, EmptySeq DEF Words

LEMMA PlacesAgree ==
  ASSUME NEW rs, NEW bound, IsComplete(rs, bound),
         NEW ns, ns = MinimizeLeads(rs), NEW n \in DOMAIN ns, NEW m \in DOMAIN ns,
         NEW u \in Words, NEW v \in Words, NEW a \in Words, NEW b \in Words,
         NEW w, w = u \o ns[n].lead \o v, w = a \o ns[m].lead \o b, Len(u) <= Len(a)
  PROVE  Same(Shift(u, Vect(ns[n].tail), v), Shift(a, Vect(ns[m].tail), b), Ideal(ns, Under(w)))
<1>1. IsSystem(ns) /\ IsRule(ns[n]) /\ IsRule(ns[m])
  BY MinimalSystem DEF IsComplete, IsSystem
<1>2. /\ ns[n].lead \in Words /\ ns[m].lead \in Words
      /\ Cat(Cat(u, ns[n].lead), v) = Cat(Cat(a, ns[m].lead), b)
  BY <1>1 DEF IsRule, Cat
<1>3. \/ Apart(u, ns[n].lead, v, a, ns[m].lead, b)
      \/ OneInOther(u, ns[n].lead, v, a, ns[m].lead, b)
      \/ Overlapping(u, ns[n].lead, v, a, ns[m].lead, b)
  BY <1>2, TwoPlaces
<1>4. CASE Apart(u, ns[n].lead, v, a, ns[m].lead, b)
  <2>1. PICK C \in Words : /\ a = Cat(Cat(u, ns[n].lead), C)
                           /\ v = Cat(Cat(C, ns[m].lead), b)
    BY <1>4 DEF Apart
  <2>2. a = u \o ns[n].lead \o C /\ v = C \o ns[m].lead \o b
    BY <2>1 DEF Cat
  <2>3. w = (u \o ns[n].lead \o C) \o ns[m].lead \o b
    BY <2>2
  <2>4. Same(Shift(u, Vect(ns[n].tail), C \o ns[m].lead \o b),
             Shift(u \o ns[n].lead \o C, Vect(ns[m].tail), b), Ideal(ns, Under(w)))
    BY <1>1, <2>3, DisjointSame
  <2> QED
    BY <2>2, <2>4
<1>5. CASE OneInOther(u, ns[n].lead, v, a, ns[m].lead, b)
  <2>1. PICK p, s \in Words : /\ ns[n].lead = Cat(Cat(p, ns[m].lead), s)
                              /\ a = Cat(u, p) /\ b = Cat(s, v)
    BY <1>5 DEF OneInOther
  <2>3. n = m /\ p = <<>> /\ s = <<>>
    BY <2>1, KeptInside
  <2>4. a = u /\ b = v
    BY <2>1, <2>3, CatNothing
  <2>5. Shift(u, Vect(ns[n].tail), v) \in Vectors
    BY <1>1, RelatorVector, ShiftAt
  <2>6. Same(Shift(u, Vect(ns[n].tail), v), Shift(u, Vect(ns[n].tail), v), Ideal(ns, Under(w)))
    BY <2>5, IdealIsSpace, SameIsEquality
  <2> QED
    BY <2>3, <2>4, <2>6
<1>6. CASE Overlapping(u, ns[n].lead, v, a, ns[m].lead, b)
  <2>1. PICK p, q, y \in Words :
              /\ ns[n].lead = Cat(p, q) /\ ns[m].lead = Cat(q, y)
              /\ a = Cat(u, p) /\ v = Cat(y, b)
              /\ Len(q) >= 1 /\ Len(y) >= 1
    BY <1>6 DEF Overlapping
  <2>2. ns[n].lead = p \o q /\ ns[m].lead = q \o y /\ a = u \o p /\ v = y \o b
    BY <2>1 DEF Cat
  <2>3. Len(p) >= 1
    <3>1. SUFFICES ASSUME Len(p) = 0 PROVE FALSE
      BY WordConcat
    <3>2. p = <<>>
      BY <3>1, EmptySeq DEF Words
    <3>3. ns[m].lead = Cat(Cat(<<>>, ns[n].lead), y)
      BY <1>2, <2>1, <3>2, CatNothing
    <3>4. <<>> \in Words
      BY WordConcat
    <3>5. y = <<>>
      BY <3>3, <3>4, KeptInside
    <3> QED
      BY <2>1, <3>5, WordConcat
  <2>4. w = (u \o p) \o (q \o y) \o b
    BY <2>2
  <2>5. Same(Shift(u, Vect(ns[n].tail), y \o b), Shift(u \o p, Vect(ns[m].tail), b),
             Ideal(ns, Under(w)))
    BY <2>1, <2>2, <2>3, <2>4, OverlapShifted
  <2> QED
    BY <2>2, <2>5
<1> QED
  BY <1>3, <1>4, <1>5, <1>6

\* Whichever kept rule replaces a word, and wherever: what it puts in its place
\* is the same, modulo what is below.
LEMMA GeneratorsAgree ==
  ASSUME NEW rs, NEW bound, IsComplete(rs, bound),
         NEW ns, ns = MinimizeLeads(rs), NEW n \in DOMAIN ns, NEW m \in DOMAIN ns,
         NEW u \in Words, NEW v \in Words, NEW a \in Words, NEW b \in Words,
         NEW w, w = u \o ns[n].lead \o v, w = a \o ns[m].lead \o b
  PROVE  Same(Shift(u, Relator(ns[n]), v), Shift(a, Relator(ns[m]), b), Ideal(ns, Under(w)))
<1> DEFINE S == Ideal(ns, Under(w))
           f == Shift(u, Vect(ns[n].tail), v)
           g == Shift(a, Vect(ns[m].tail), b)
<1>1. IsSystem(ns) /\ IsRule(ns[n]) /\ IsRule(ns[m])
  BY MinimalSystem DEF IsComplete, IsSystem
<1>2. IsSpace(S)
  BY IdealIsSpace
<1>3. f \in Vectors /\ g \in Vectors /\ Unit(w) \in Vectors
  BY <1>1, RelatorVector, ShiftAt, UnitVectors
<1>4. Same(f, g, S)
  <2>1. Len(u) \in Nat /\ Len(a) \in Nat
    BY WordConcat
  <2>2. CASE Len(u) <= Len(a)
    BY <2>2, PlacesAgree
  <2>3. CASE Len(a) <= Len(u)
    <3>1. Same(g, f, S)
      BY <2>3, PlacesAgree
    <3> HIDE DEF f, g, S
    <3> QED
      BY <1>2, <1>3, <3>1, SameIsEquality
  <2> QED
    BY <2>1, <2>2, <2>3
<1>5. /\ Shift(u, Relator(ns[n]), v) = Plus(Unit(w), -1, f)
      /\ Shift(a, Relator(ns[m]), b) = Plus(Unit(w), -1, g)
  <2>1. Shift(u, Relator(ns[n]), v) = Plus(Unit(u \o ns[n].lead \o v), -1, f)
    BY <1>1, RelatorVector
  <2>2. Shift(a, Relator(ns[m]), b) = Plus(Unit(a \o ns[m].lead \o b), -1, g)
    BY <1>1, RelatorVector
  <2> HIDE DEF f, g
  <2> QED
    BY <2>1, <2>2
<1>6. Same(Plus(Unit(w), -1, f), Plus(Unit(w), -1, g), S)
  <2> HIDE DEF f, g, S
  <2>1. Same(Unit(w), Unit(w), S)
    BY <1>2, <1>3, SameIsEquality
  <2> QED
    BY <1>2, <1>3, <1>4, <2>1, SamePlus
<1> QED
  BY <1>5, <1>6

-----------------------------------------------------------------------------
(* No element of the ideal is irreducible: the smallest word up to which it *)
(* is a combination of rules would be the word of one of them.              *)

LEMMA MoreIdentities ==
  ASSUME NEW f \in Vectors, NEW g \in Vectors, NEW h \in Vectors,
         NEW i \in Int, NEW j \in Int, NEW k \in Int
  PROVE  /\ Plus(Plus(f, i, h), j, Plus(g, k, h)) = Plus(Plus(f, j, g), i + j * k, h)
         /\ Plus(f, 0, g) = f
         /\ Plus(f, P * i, g) = Plus(f, P, Plus(Null, i, g))
         /\ Plus(Plus(Null, P, f), i, Plus(Null, P, g)) = Plus(Null, P, Plus(f, i, g))
         /\ Plus(Plus(Null, P, f), P, g) = Plus(Null, P, Plus(f, 1, g))
<1>1. \A w \in Words : f[w] \in Int /\ g[w] \in Int /\ h[w] \in Int
  BY ValueInt
<1>2. P \in Int
  BY PrimeInt
<1>3. \A w \in Words : Null[w] = 0
  BY DEF Null
<1>4. ASSUME NEW w \in Words
      PROVE  /\ Plus(Plus(f, i, h), j, Plus(g, k, h))[w] = Plus(Plus(f, j, g), i + j * k, h)[w]
             /\ Plus(f, 0, g)[w] = f[w]
             /\ Plus(f, P * i, g)[w] = Plus(f, P, Plus(Null, i, g))[w]
             /\ Plus(Plus(Null, P, f), i, Plus(Null, P, g))[w] = Plus(Null, P, Plus(f, i, g))[w]
             /\ Plus(Plus(Null, P, f), P, g)[w] = Plus(Null, P, Plus(f, 1, g))[w]
  <2>1. \A a, b, c, x, y, z \in Int : (a + x * c) + y * (b + z * c) = (a + y * b) + (x + y * z) * c
    OBVIOUS
  <2>3. \A a, b, x, y \in Int : a + (x * y) * b = a + x * (0 + y * b)
    OBVIOUS
  <2>4. \A a, b, x, y \in Int : (0 + x * a) + y * (0 + x * b) = 0 + x * (a + y * b)
    OBVIOUS
  <2>5. \A a, b, x \in Int : (0 + x * a) + x * b = 0 + x * (a + 1 * b)
    OBVIOUS
  <2>6. \A a, b \in Int : a + 0 * b = a
    OBVIOUS
  <2>7. f[w] \in Int /\ g[w] \in Int /\ h[w] \in Int /\ Null[w] = 0
    BY <1>1, <1>3
  <2>8. Plus(Plus(f, i, h), j, Plus(g, k, h))[w] = (f[w] + i * h[w]) + j * (g[w] + k * h[w])
    BY PlusAt
  <2>9. Plus(Plus(f, j, g), i + j * k, h)[w] = (f[w] + j * g[w]) + (i + j * k) * h[w]
    BY PlusAt
  <2>12. Plus(f, 0, g)[w] = f[w] + 0 * g[w]
    BY PlusAt
  <2>13. Plus(f, P * i, g)[w] = f[w] + (P * i) * g[w]
    BY PlusAt
  <2>14. Plus(f, P, Plus(Null, i, g))[w] = f[w] + P * (0 + i * g[w])
    BY <2>7, PlusAt
  <2>15. Plus(Plus(Null, P, f), i, Plus(Null, P, g))[w] = (0 + P * f[w]) + i * (0 + P * g[w])
    BY <2>7, PlusAt
  <2>16. Plus(Null, P, Plus(f, i, g))[w] = 0 + P * (f[w] + i * g[w])
    BY <2>7, PlusAt
  <2>17. Plus(Plus(Null, P, f), P, g)[w] = (0 + P * f[w]) + P * g[w]
    BY <2>7, PlusAt
  <2>18. Plus(Null, P, Plus(f, 1, g))[w] = 0 + P * (f[w] + 1 * g[w])
    BY <2>7, PlusAt
  <2>19. Plus(Plus(f, i, h), j, Plus(g, k, h))[w] = Plus(Plus(f, j, g), i + j * k, h)[w]
    BY <2>1, <2>7, <2>8, <2>9
  <2>21. Plus(f, P * i, g)[w] = Plus(f, P, Plus(Null, i, g))[w]
    BY <1>2, <2>3, <2>7, <2>13, <2>14
  <2>22. Plus(Plus(Null, P, f), i, Plus(Null, P, g))[w] = Plus(Null, P, Plus(f, i, g))[w]
    BY <1>2, <2>4, <2>7, <2>15, <2>16
  <2>23. Plus(Plus(Null, P, f), P, g)[w] = Plus(Null, P, Plus(f, 1, g))[w]
    BY <1>2, <2>5, <2>7, <2>17, <2>18
  <2>24. Plus(f, 0, g)[w] = f[w]
    BY <2>6, <2>7, <2>12
  <2> QED
    BY <2>19, <2>21, <2>22, <2>23, <2>24
<1>5. \A x, y \in Vectors : \A z \in Int : Plus(x, z, y) \in Vectors
  BY PlusVector
<1>6. Null \in Vectors /\ P * i \in Int /\ i + j * k \in Int /\ 0 \in Int /\ 1 \in Int
  <2>1. \A x, y, z \in Int : x * y \in Int /\ x + y * z \in Int
    OBVIOUS
  <2> QED
    BY <1>2, <2>1, UnitVectors
<1>7. Plus(Plus(f, i, h), j, Plus(g, k, h)) = Plus(Plus(f, j, g), i + j * k, h)
  <2>1. Plus(Plus(f, i, h), j, Plus(g, k, h)) \in Vectors /\ Plus(Plus(f, j, g), i + j * k, h) \in Vectors
    BY <1>2, <1>5, <1>6
  <2>2. \A w \in Words : Plus(Plus(f, i, h), j, Plus(g, k, h))[w] = Plus(Plus(f, j, g), i + j * k, h)[w]
    BY <1>4
  <2> QED
    BY <2>1, <2>2, VectorsAgree
<1>9. Plus(f, 0, g) = f
  <2>1. Plus(f, 0, g) \in Vectors
    BY <1>2, <1>5, <1>6
  <2>2. \A w \in Words : Plus(f, 0, g)[w] = f[w]
    BY <1>4
  <2> QED
    BY <2>1, <2>2, VectorsAgree
<1>10. Plus(f, P * i, g) = Plus(f, P, Plus(Null, i, g))
  <2>1. Plus(f, P * i, g) \in Vectors /\ Plus(f, P, Plus(Null, i, g)) \in Vectors
    BY <1>2, <1>5, <1>6
  <2>2. \A w \in Words : Plus(f, P * i, g)[w] = Plus(f, P, Plus(Null, i, g))[w]
    BY <1>4
  <2> QED
    BY <2>1, <2>2, VectorsAgree
<1>11. Plus(Plus(Null, P, f), i, Plus(Null, P, g)) = Plus(Null, P, Plus(f, i, g))
  <2>1. Plus(Plus(Null, P, f), i, Plus(Null, P, g)) \in Vectors /\ Plus(Null, P, Plus(f, i, g)) \in Vectors
    BY <1>2, <1>5, <1>6
  <2>2. \A w \in Words : Plus(Plus(Null, P, f), i, Plus(Null, P, g))[w] = Plus(Null, P, Plus(f, i, g))[w]
    BY <1>4
  <2> QED
    BY <2>1, <2>2, VectorsAgree
<1>12. Plus(Plus(Null, P, f), P, g) = Plus(Null, P, Plus(f, 1, g))
  <2>1. Plus(Plus(Null, P, f), P, g) \in Vectors /\ Plus(Null, P, Plus(f, 1, g)) \in Vectors
    BY <1>2, <1>5, <1>6
  <2>2. \A w \in Words : Plus(Plus(Null, P, f), P, g)[w] = Plus(Null, P, Plus(f, 1, g))[w]
    BY <1>4
  <2> QED
    BY <2>1, <2>2, VectorsAgree
<1> QED
  BY <1>7, <1>9, <1>10, <1>11, <1>12

LEMMA MultipleIdentities ==
  ASSUME NEW f \in Vectors, NEW g \in Vectors, NEW i \in Int
  PROVE  /\ Plus(f, 0, g) = f
         /\ Plus(f, P * i, g) = Plus(f, P, Plus(Null, i, g))
         /\ Plus(Plus(Null, P, f), i, Plus(Null, P, g)) = Plus(Null, P, Plus(f, i, g))
         /\ Plus(Plus(Null, P, f), P, g) = Plus(Null, P, Plus(f, 1, g))
<1>1. Null \in Vectors
  BY UnitVectors
<1>2. /\ Plus(Plus(f, i, Null), i, Plus(g, i, Null)) = Plus(Plus(f, i, g), i + i * i, Null)
      /\ Plus(f, 0, g) = f
      /\ Plus(f, P * i, g) = Plus(f, P, Plus(Null, i, g))
      /\ Plus(Plus(Null, P, f), i, Plus(Null, P, g)) = Plus(Null, P, Plus(f, i, g))
      /\ Plus(Plus(Null, P, f), P, g) = Plus(Null, P, Plus(f, 1, g))
  BY <1>1, MoreIdentities, ZenonT(40)
<1> QED
  BY <1>2

LEMMA PlusCommutes ==
  ASSUME NEW f \in Vectors, NEW g \in Vectors, NEW h \in Vectors, NEW i \in Int
  PROVE  Plus(Plus(f, i, h), P, g) = Plus(Plus(f, P, g), i, h)
<1>1. P \in Int
  BY PrimeInt
<1>2. Plus(Plus(f, i, h), P, g) \in Vectors /\ Plus(Plus(f, P, g), i, h) \in Vectors
  BY <1>1, PlusVector
<1>3. ASSUME NEW w \in Words
      PROVE  Plus(Plus(f, i, h), P, g)[w] = Plus(Plus(f, P, g), i, h)[w]
  <2>1. \A a, b, c, x, y \in Int : (a + x * c) + y * b = (a + y * b) + x * c
    OBVIOUS
  <2>2. f[w] \in Int /\ g[w] \in Int /\ h[w] \in Int
    BY ValueInt
  <2>3. Plus(Plus(f, i, h), P, g)[w] = (f[w] + i * h[w]) + P * g[w]
    BY PlusAt
  <2>4. Plus(Plus(f, P, g), i, h)[w] = (f[w] + P * g[w]) + i * h[w]
    BY PlusAt
  <2> QED
    BY <1>1, <2>1, <2>2, <2>3, <2>4
<1> QED
  BY <1>2, <1>3, VectorsAgree

\* What a space consists of, fact by fact.
LEMMA SpaceFacts ==
  ASSUME NEW S, IsSpace(S)
  PROVE  /\ S \subseteq Vectors /\ Null \in S
         /\ \A f, g \in S : \A k \in Int : Plus(f, k, g) \in S
         /\ \A f \in S : \A h \in Vectors : Plus(f, P, h) \in S
BY DEF IsSpace

\* The zero vectors modulo P are a space, and in every space.
LEMMA ZeroSpace ==
  /\ IsSpace({f \in Vectors : Equal(f, Null)})
  /\ \A S : IsSpace(S) => \A f \in Vectors : Equal(f, Null) => f \in S
<1> DEFINE Z == {f \in Vectors : Equal(f, Null)}
<1>1. Null \in Vectors /\ P \in Int
  BY PrimeInt, UnitVectors
<1>2. Null \in Z
  <2>1. Null = Plus(Null, P, Null)
    BY <1>1, Identities
  <2> QED
    BY <1>1, <2>1 DEF Equal
<1>3. ASSUME NEW f \in Z, NEW g \in Z, NEW k \in Int PROVE Plus(f, k, g) \in Z
  <2>1. PICK x \in Vectors : f = Plus(Null, P, x)
    BY DEF Equal
  <2>2. PICK y \in Vectors : g = Plus(Null, P, y)
    BY DEF Equal
  <2>3. Plus(f, k, g) = Plus(Null, P, Plus(x, k, y))
    <3>1. x \in Vectors /\ y \in Vectors /\ k \in Int /\ 0 \in Int
      OBVIOUS
    <3>3. Plus(Plus(Null, P, x), k, Plus(Null, P, y)) = Plus(Null, P, Plus(x, k, y))
      BY <3>1, MultipleIdentities
    <3> QED
      BY <2>1, <2>2, <3>3
  <2>4. Plus(x, k, y) \in Vectors /\ Plus(f, k, g) \in Vectors
    BY PlusVector
  <2> QED
    BY <2>3, <2>4 DEF Equal
<1>4. ASSUME NEW f \in Z, NEW g \in Vectors PROVE Plus(f, P, g) \in Z
  <2>1. PICK x \in Vectors : f = Plus(Null, P, x)
    BY DEF Equal
  <2>2. Plus(f, P, g) = Plus(Null, P, Plus(x, 1, g))
    <3>1. Plus(Plus(Null, P, x), P, g) = Plus(Null, P, Plus(x, 1, g))
      BY MultipleIdentities
    <3> QED
      BY <2>1, <3>1
  <2>3. Plus(x, 1, g) \in Vectors /\ Plus(f, P, g) \in Vectors
    BY <1>1, PlusVector
  <2> QED
    BY <2>2, <2>3 DEF Equal
<1>5. IsSpace(Z)
  <2>1. Z \subseteq Vectors
    OBVIOUS
  <2> HIDE DEF Z
  <2> QED
    BY <1>2, <1>3, <1>4, <2>1 DEF IsSpace
<1>6. \A S : IsSpace(S) => \A f \in Vectors : Equal(f, Null) => f \in S
  BY SpaceIsClosed, SpaceFacts
<1> QED
  BY <1>5, <1>6

\* Of two words, the rules up to the larger include those up to the other.
LEMMA DownToCompares ==
  ASSUME NEW v \in Words, NEW x \in Words
  PROVE  DownTo(v) \subseteq DownTo(x) \/ DownTo(x) \subseteq DownTo(v)
<1>1. CASE v = x
  BY <1>1
<1>2. CASE Less(v, x)
  BY <1>2, WordOrder DEF DownTo
<1>3. CASE Less(x, v)
  BY <1>3, WordOrder DEF DownTo
<1> QED
  BY <1>1, <1>2, <1>3, WordOrder

LEMMA CommonBound ==
  ASSUME NEW rs, IsSystem(rs), NEW v \in Words, NEW x \in Words,
         NEW f \in Ideal(rs, DownTo(v)), NEW g \in Ideal(rs, DownTo(x))
  PROVE  \E y \in {v, x} : f \in Ideal(rs, DownTo(y)) /\ g \in Ideal(rs, DownTo(y))
<1>1. CASE DownTo(v) \subseteq DownTo(x)
  BY <1>1, IdealGrows
<1>2. CASE DownTo(x) \subseteq DownTo(v)
  BY <1>2, IdealGrows
<1> QED
  BY <1>1, <1>2, DownToCompares

\* Each member of the ideal below some words is zero, or a combination of rules
\* up to one of them.
IsUpTo(f, rs, W) == Equal(f, Null) \/ \E x \in W : f \in Ideal(rs, DownTo(x))

LEMMA UpToOneWord ==
  ASSUME NEW rs, IsSystem(rs), NEW W, W \subseteq Words, NEW f \in Ideal(rs, W)
  PROVE  IsUpTo(f, rs, W)
<1> DEFINE S == {g \in Vectors : IsUpTo(g, rs, W)}
           Z == {g \in Vectors : Equal(g, Null)}
<1>1. IsSpace(Z) /\ \A X : IsSpace(X) => Z \subseteq X
  BY ZeroSpace
<1>2. ASSUME NEW x \in W
      PROVE  IsSpace(Ideal(rs, DownTo(x))) /\ Ideal(rs, DownTo(x)) \subseteq S
  BY IdealIsSpace DEF IsUpTo
<1>3. ASSUME NEW g \in S
      PROVE  g \in Z \/ \E x \in W : g \in Ideal(rs, DownTo(x))
  BY DEF IsUpTo
<1>4. Z \subseteq S /\ S \subseteq Vectors
  BY DEF IsUpTo
<1> HIDE DEF Z
<1>5. ASSUME NEW g \in S, NEW h \in S
      PROVE  \E X : IsSpace(X) /\ X \subseteq S /\ g \in X /\ h \in X
  <2> HIDE DEF S
  <2>1. CASE g \in Z /\ h \in Z
    BY <1>1, <1>4, <2>1
  <2>2. ASSUME NEW x \in W, g \in Ideal(rs, DownTo(x)), h \in Z
        PROVE  \E X : IsSpace(X) /\ X \subseteq S /\ g \in X /\ h \in X
    <3>1. h \in Ideal(rs, DownTo(x))
      BY <1>1, <1>2, <2>2
    <3> QED
      BY <1>2, <2>2, <3>1
  <2>3. ASSUME NEW x \in W, h \in Ideal(rs, DownTo(x)), g \in Z
        PROVE  \E X : IsSpace(X) /\ X \subseteq S /\ g \in X /\ h \in X
    <3>1. g \in Ideal(rs, DownTo(x))
      BY <1>1, <1>2, <2>3
    <3> QED
      BY <1>2, <2>3, <3>1
  <2>4. ASSUME NEW x \in W, g \in Ideal(rs, DownTo(x)), NEW y \in W, h \in Ideal(rs, DownTo(y))
        PROVE  \E X : IsSpace(X) /\ X \subseteq S /\ g \in X /\ h \in X
    <3>1. PICK z \in {x, y} : g \in Ideal(rs, DownTo(z)) /\ h \in Ideal(rs, DownTo(z))
      BY <2>4, CommonBound
    <3>2. z \in W
      OBVIOUS
    <3> QED
      BY <1>2, <3>1, <3>2
  <2> QED
    BY <1>3, <2>1, <2>2, <2>3, <2>4
<1>6. IsSpace(S)
  <2>1. Null \in S
    BY <1>1, <1>4, SpaceFacts
  <2> HIDE DEF S
  <2>2. ASSUME NEW g \in S, NEW h \in S, NEW k \in Int PROVE Plus(g, k, h) \in S
    <3>1. PICK X : IsSpace(X) /\ X \subseteq S /\ g \in X /\ h \in X
      BY <1>5
    <3> QED
      BY <3>1, SpaceFacts
  <2>3. ASSUME NEW g \in S, NEW h \in Vectors PROVE Plus(g, P, h) \in S
    <3>1. PICK X : IsSpace(X) /\ X \subseteq S /\ g \in X
      BY <1>5
    <3> QED
      BY <3>1, SpaceFacts
  <2> QED
    BY <1>4, <2>1, <2>2, <2>3 DEF IsSpace
<1>7. ASSUME NEW n \in DOMAIN rs, NEW u \in Words, NEW v \in Words,
             u \o rs[n].lead \o v \in W
      PROVE  Shift(u, Relator(rs[n]), v) \in S
  <2> DEFINE x == u \o rs[n].lead \o v
  <2>1. x \in DownTo(x)
    BY <1>7, LowerSets
  <2>2. Shift(u, Relator(rs[n]), v) \in Ideal(rs, DownTo(x))
    BY <2>1, IdealGenerator
  <2> HIDE DEF S, x
  <2> QED
    BY <1>2, <1>7, <2>2 DEF x
<1> HIDE DEF S
<1>8. Ideal(rs, W) \subseteq S
  BY <1>6, <1>7, IdealIsLeast
<1> QED
  BY <1>8 DEF S

\* A rule, in the context in which it replaces the word v.
IsAt(G, rs, v) ==
    \E n \in DOMAIN rs : \E u, b \in Words :
        v = u \o rs[n].lead \o b /\ G = Shift(u, Relator(rs[n]), b)

\* Modulo what is below a word, all the rules that replace it are multiples of
\* one of them.
LEMMA OneRuleAtAWord ==
  ASSUME NEW rs, NEW bound, IsComplete(rs, bound),
         NEW ns, ns = MinimizeLeads(rs), NEW G, NEW v, IsAt(G, ns, v),
         NEW f \in Ideal(ns, DownTo(v))
  PROVE  \E g \in Ideal(ns, Under(v)) : \E k \in Int : f = Plus(g, k, G)
<1>0. PICK n \in DOMAIN ns, u \in Words, b \in Words :
         v = u \o ns[n].lead \o b /\ G = Shift(u, Relator(ns[n]), b)
  BY DEF IsAt
<1> DEFINE I == Ideal(ns, Under(v))
           S == {h \in Vectors : \E g \in I : \E k \in Int : h = Plus(g, k, G)}
<1>1. IsSystem(ns) /\ IsRule(ns[n])
  BY MinimalSystem DEF IsComplete, IsSystem
<1>2. G \in Vectors
  BY <1>0, <1>1, RelatorVector
<1>3. IsSpace(I)
  BY IdealIsSpace
<1>4. I \subseteq Vectors /\ Null \in I
  BY <1>3, SpaceFacts
<1>5. v \in Words
  BY <1>0, <1>1, RelatorVector
<1> HIDE DEF I
<1>6. ASSUME NEW g \in I, NEW k \in Int PROVE Plus(g, k, G) \in S
  <2>1. Plus(g, k, G) \in Vectors
    BY <1>2, <1>4, PlusVector
  <2> QED
    BY <2>1
<1>7. ASSUME NEW g \in I PROVE g \in S
  <2>1. Plus(g, 0, G) = g
    BY <1>2, <1>4, MultipleIdentities
  <2> HIDE DEF S
  <2>2. Plus(g, 0, G) \in S
    BY <1>6
  <2> QED
    BY <2>1, <2>2
<1>8. ASSUME NEW h \in S PROVE \E g \in I : \E k \in Int : h = Plus(g, k, G)
  OBVIOUS
<1>9. IsSpace(S)
  <2>1. S \subseteq Vectors
    OBVIOUS
  <2> HIDE DEF S
  <2>2. Null \in S
    BY <1>4, <1>7
  <2>3. ASSUME NEW x \in S, NEW y \in S, NEW j \in Int PROVE Plus(x, j, y) \in S
    <3>1. PICK g \in I : \E k \in Int : x = Plus(g, k, G)
      BY <1>8
    <3>2. PICK k \in Int : x = Plus(g, k, G)
      BY <3>1
    <3>3. PICK h \in I : \E l \in Int : y = Plus(h, l, G)
      BY <1>8
    <3>4. PICK l \in Int : y = Plus(h, l, G)
      BY <3>3
    <3>5. g \in Vectors /\ h \in Vectors /\ k \in Int /\ j \in Int /\ l \in Int
      BY <1>4
    <3>6. Plus(Plus(g, k, G), j, Plus(h, l, G)) = Plus(Plus(g, j, h), k + j * l, G)
      BY <1>2, <3>5, MoreIdentities
    <3>7. Plus(g, j, h) \in I /\ k + j * l \in Int
      <4>1. \A p, q, r \in Int : p + q * r \in Int
        OBVIOUS
      <4> QED
        BY <1>3, <4>1, SpaceFacts
    <3> QED
      BY <1>6, <3>2, <3>4, <3>6, <3>7
  <2>4. ASSUME NEW x \in S, NEW h \in Vectors PROVE Plus(x, P, h) \in S
    <3>1. PICK g \in I : \E k \in Int : x = Plus(g, k, G)
      BY <1>8
    <3>2. PICK k \in Int : x = Plus(g, k, G)
      BY <3>1
    <3>3. g \in Vectors
      BY <1>4
    <3>4. Plus(Plus(g, k, G), P, h) = Plus(Plus(g, P, h), k, G)
      BY <1>2, <3>3, PlusCommutes
    <3>5. Plus(g, P, h) \in I
      BY <1>3, SpaceFacts
    <3> QED
      BY <1>6, <3>2, <3>4, <3>5
  <2> QED
    BY <2>1, <2>2, <2>3, <2>4 DEF IsSpace
<1>10. ASSUME NEW m \in DOMAIN ns, NEW a \in Words, NEW c \in Words,
              a \o ns[m].lead \o c \in DownTo(v)
       PROVE  Shift(a, Relator(ns[m]), c) \in S
  <2> DEFINE H == Shift(a, Relator(ns[m]), c)
  <2>1. IsRule(ns[m])
    BY <1>1 DEF IsSystem
  <2>2. H \in Vectors /\ a \o ns[m].lead \o c \in Words
    BY <2>1, RelatorVector
  <2>3. CASE v = a \o ns[m].lead \o c
    <3>1. Same(H, G, I)
      BY <1>0, <2>3, GeneratorsAgree DEF I
    <3> HIDE DEF H, S
    <3>2. Plus(H, -1, G) \in I
      BY <3>1 DEF Same
    <3>3. Plus(Plus(H, -1, G), 1, G) = H
      BY <1>2, <2>2, Identities
    <3>4. Plus(Plus(H, -1, G), 1, G) \in S
      BY <1>6, <3>2
    <3>5. H \in S
      BY <3>3, <3>4
    <3> QED
      BY <3>5 DEF H
  <2>4. CASE Less(a \o ns[m].lead \o c, v)
    <3>1. a \o ns[m].lead \o c \in Under(v)
      BY <2>2, <2>4 DEF Under
    <3>2. H \in I
      BY <1>1, <3>1, IdealGenerator DEF I
    <3> HIDE DEF H, S
    <3>3. H \in S
      BY <1>7, <3>2
    <3> QED
      BY <3>3 DEF H
  <2> QED
    BY <1>10, <2>3, <2>4 DEF DownTo
<1> HIDE DEF S
<1>11. Ideal(ns, DownTo(v)) \subseteq S
  BY <1>9, <1>10, IdealIsLeast
<1> QED
  BY <1>8, <1>11 DEF I

\* A combination of rules up to a word that it does not contain is one of rules
\* below that word.
LEMMA TopCancels ==
  ASSUME NEW rs, NEW bound, IsComplete(rs, bound),
         NEW ns, ns = MinimizeLeads(rs), NEW v \in Words, ~Irreducible(v, ns),
         NEW f \in Ideal(ns, DownTo(v)), Multiple(f[v])
  PROVE  f \in Ideal(ns, Under(v))
<1>1. IsSystem(ns)
  BY MinimalSystem DEF IsComplete
<1>2. PICK m : m \in Matches(v, ns)
  BY DEF Irreducible
<1> DEFINE n == m[2]
           u == SubSeq(v, 1, m[1])
           b == SubSeq(v, m[1] + Len(ns[n].lead) + 1, Len(v))
           G == Shift(u, Relator(ns[n]), b)
<1>3. /\ n \in DOMAIN ns /\ IsRule(ns[n]) /\ u \in Words /\ b \in Words
      /\ u \o ns[n].lead \o b = v
  BY <1>1, <1>2, MatchFacts
<1>4. G \in Vectors /\ G[v] = 1
  <2> HIDE DEF n, u, b
  <2>1. G[v] = 1
    <3>1. G[u \o ns[n].lead \o b] = 1
      BY <1>3, RuleAtLead
    <3> QED
      BY <1>3, <3>1
  <2>2. G \in Vectors
    BY <1>3, RelatorVector
  <2> QED
    BY <2>1, <2>2
<1>5. \E g \in Ideal(ns, Under(v)) : \E k \in Int : f = Plus(g, k, G)
  <2>1. IsAt(G, ns, v)
    <3> HIDE DEF n, u, b
    <3> QED
      BY <1>3 DEF IsAt
  <2> HIDE DEF G
  <2> QED
    BY <2>1, OneRuleAtAWord
<1> HIDE DEF n, u, b, G
<1>6. PICK g \in Ideal(ns, Under(v)) : \E k \in Int : f = Plus(g, k, G)
  BY <1>5
<1>7. PICK k \in Int : f = Plus(g, k, G)
  BY <1>6
<1>8. IsSpace(Ideal(ns, Under(v))) /\ g \in Vectors
  BY IdealIsSpace
<1>9. Multiple(g[v])
  BY <1>1, LowerSets, IdealSupport
<1>10. PICK i \in Int : g[v] = P * i
  BY <1>9 DEF Multiple
<1>11. PICK j \in Int : f[v] = P * j
  BY DEF Multiple
<1>12. f[v] = g[v] + k * 1
  BY <1>4, <1>7, PlusAt
<1>13. k = P * (j - i) /\ j - i \in Int
  <2>1. \A x, y, z, p \in Int : p * x = p * y + z * 1 => z = p * (x - y)
    OBVIOUS
  <2>2. P \in Int
    BY PrimeInt
  <2>3. P * j = P * i + k * 1
    BY <1>10, <1>11, <1>12
  <2> QED
    BY <2>1, <2>2, <2>3
<1>14. f = Plus(g, P, Plus(Null, j - i, G))
  <2>1. Plus(g, P * (j - i), G) = Plus(g, P, Plus(Null, j - i, G))
    BY <1>4, <1>8, <1>13, MultipleIdentities
  <2> QED
    BY <1>7, <1>13, <2>1
<1>15. Plus(Null, j - i, G) \in Vectors
  BY <1>4, <1>13, UnitVectors, PlusVector
<1> QED
  BY <1>8, <1>14, <1>15, SpaceFacts

LEMMA TopIsReducible ==
  ASSUME NEW rs, IsSystem(rs), NEW v \in Words, Irreducible(v, rs)
  PROVE  Ideal(rs, DownTo(v)) \subseteq Ideal(rs, Under(v))
<1> DEFINE S == Ideal(rs, Under(v))
<1>1. IsSpace(S)
  BY IdealIsSpace
<1>2. ASSUME NEW n \in DOMAIN rs, NEW a \in Words, NEW b \in Words,
             a \o rs[n].lead \o b \in DownTo(v)
      PROVE  Shift(a, Relator(rs[n]), b) \in S
  <2>1. IsRule(rs[n]) /\ rs[n].lead \in Words
    BY DEF IsSystem, IsRule
  <2>2. a \o rs[n].lead \o b # v
    <3>1. SUFFICES ASSUME a \o rs[n].lead \o b = v PROVE FALSE
      OBVIOUS
    <3>2. Occurrences(rs[n].lead, v) # {}
      BY <2>1, <3>1, OccursInside
    <3> QED
      BY <3>2, IrreducibleMeans
  <2>3. a \o rs[n].lead \o b \in Under(v)
    BY <1>2, <2>2 DEF DownTo, Under
  <2> QED
    BY <2>3, IdealGenerator
<1> HIDE DEF S
<1>3. Ideal(rs, DownTo(v)) \subseteq S
  BY <1>1, <1>2, IdealIsLeast
<1> QED
  BY <1>3 DEF S

\* Bergman's diamond lemma, on which the certificate rests (certificate.py:4): when
\* the ambiguities resolve, an element of the ideal with no reducible word is
\* zero, for its smallest bound could be made smaller.
THEOREM DiamondLemma ==
  ASSUME NEW rs, NEW bound, IsComplete(rs, bound),
         NEW ns, ns = MinimizeLeads(rs), NEW f \in Ideal(ns, Words),
         \A w \in Words : ~Irreducible(w, ns) => Multiple(f[w])
  PROVE  Equal(f, Null)
<1> DEFINE X == {v \in Words : f \in Ideal(ns, DownTo(v))}
<1>1. IsSystem(ns)
  BY MinimalSystem DEF IsComplete
<1>2. SUFFICES ASSUME ~Equal(f, Null) PROVE FALSE
  OBVIOUS
<1>3. X # {}
  <2>1. IsUpTo(f, ns, Words)
    BY <1>1, UpToOneWord
  <2> QED
    BY <1>2, <2>1 DEF IsUpTo
<1>4. PICK v \in X : \A x \in X : ~Less(x, v)
  <2>1. X \in SUBSET Seq(Nat)
    BY WordFacts
  <2> HIDE DEF X
  <2> QED
    BY <1>3, <2>1, OrderIsWellFounded
<1>5. v \in Words /\ f \in Ideal(ns, DownTo(v))
  OBVIOUS
<1>6. f \in Ideal(ns, Under(v))
  <2>1. CASE Irreducible(v, ns)
    BY <1>1, <1>5, <2>1, TopIsReducible
  <2>2. CASE ~Irreducible(v, ns)
    BY <1>5, <2>2, TopCancels
  <2> QED
    BY <2>1, <2>2
<1>7. Under(v) \subseteq Words
  BY DEF Under
<1>8. IsUpTo(f, ns, Under(v))
  BY <1>1, <1>6, <1>7, UpToOneWord
<1>9. PICK x \in Under(v) : f \in Ideal(ns, DownTo(x))
  BY <1>2, <1>8 DEF IsUpTo
<1>10. x \in X /\ Less(x, v)
  BY <1>7, <1>9 DEF Under
<1> QED
  BY <1>4, <1>10

\* Two irreducible elements that are the same modulo the ideal are equal.
LEMMA IrreduciblesDiffer ==
  ASSUME NEW rs, NEW bound, IsComplete(rs, bound),
         NEW ns, ns = MinimizeLeads(rs),
         NEW c, IsElement(c), Reducible(c, ns) = {},
         NEW e, IsElement(e), Reducible(e, ns) = {},
         Same(Vect(c), Vect(e), Ideal(ns, Words))
  PROVE  c = e
<1> DEFINE f == Plus(Vect(c), -1, Vect(e))
<1>1. f \in Ideal(ns, Words)
  BY DEF Same
<1>2. \A w \in Words : f[w] = Vect(c)[w] + (-1) * Vect(e)[w]
  BY PlusAt
<1>3. ASSUME NEW w \in Words, ~Irreducible(w, ns) PROVE Multiple(f[w])
  <2>1. w \notin DOMAIN c /\ w \notin DOMAIN e
    BY <1>3 DEF Reducible
  <2>2. Vect(c)[w] = 0 /\ Vect(e)[w] = 0
    BY <2>1, VectAt
  <2>3. f[w] = 0
    BY <1>2, <2>2
  <2>4. 0 = P * 0
    BY PrimeInt
  <2> HIDE DEF f
  <2> QED
    BY <2>3, <2>4 DEF Multiple
<1> HIDE DEF f
<1>4. Equal(f, Null)
  BY <1>1, <1>3, DiamondLemma
<1>5. PICK h \in Vectors : f = Plus(Null, P, h)
  BY <1>4 DEF Equal
<1>6. ASSUME NEW c1, IsElement(c1), NEW w \in Words
      PROVE  Coeff(c1, w) \in 0..(P - 1) /\ (w \in DOMAIN c1 <=> Coeff(c1, w) # 0)
  <2>1. P \in Int /\ P > 1
    BY PrimeInt
  <2> QED
    BY <1>6, <2>1 DEF Coeff, IsElement
<1>7. ASSUME NEW w \in Words PROVE Coeff(c, w) = Coeff(e, w)
  <2>1. Vect(c)[w] = Coeff(c, w) /\ Vect(e)[w] = Coeff(e, w)
    BY VectAt
  <2>2. f[w] = P * h[w] /\ h[w] \in Int
    <3>1. f[w] = Null[w] + P * h[w] /\ Null[w] = 0 /\ h[w] \in Int
      BY <1>5, PlusAt, ValueInt DEF Null
    <3>2. P * h[w] \in Int
      BY <3>1, PrimeInt
    <3> QED
      BY <3>1, <3>2
  <2>3. Coeff(c, w) \in 0..(P - 1) /\ Coeff(e, w) \in 0..(P - 1) /\ P \in Int
    BY <1>6, PrimeInt
  <2>4. Coeff(c, w) - Coeff(e, w) = P * h[w]
    BY <1>2, <2>1, <2>2, <2>3
  <2>5. /\ Coeff(c, w) - Coeff(e, w) \in Int
        /\ -P < Coeff(c, w) - Coeff(e, w) /\ Coeff(c, w) - Coeff(e, w) < P
    BY <2>3
  <2>6. Coeff(c, w) - Coeff(e, w) = 0
    BY <2>2, <2>4, <2>5, SmallMultiple
  <2> QED
    BY <2>3, <2>6
<1>8. DOMAIN c = DOMAIN e
  <2>1. DOMAIN c \subseteq Words /\ DOMAIN e \subseteq Words
    BY DEF IsElement
  <2> QED
    BY <1>6, <1>7, <2>1
<1>9. \A w \in DOMAIN c : c[w] = e[w]
  <2>1. ASSUME NEW w \in DOMAIN c PROVE c[w] = e[w]
    <3>1. w \in Words /\ w \in DOMAIN e
      BY <1>8 DEF IsElement
    <3>2. Coeff(c, w) = c[w] /\ Coeff(e, w) = e[w]
      BY <3>1 DEF Coeff
    <3> QED
      BY <1>7, <3>1, <3>2
  <2> QED
    BY <2>1
<1>10. c = [w \in DOMAIN c |-> c[w]] /\ e = [w \in DOMAIN e |-> e[w]]
  BY DEF IsElement
<1> QED
  BY <1>8, <1>9, <1>10

-----------------------------------------------------------------------------
(* reduce_comb ends, in an irreducible element. *)

IsChain(f, n, c, rs) == f = [k \in 0..n |-> IF k = 0 THEN c ELSE Once(f[k - 1], rs)]

LEMMA ChainExists ==
  ASSUME NEW c, NEW rs, NEW n \in Nat
  PROVE  \E f : IsChain(f, n, c, rs)
<1> DEFINE Bad == {i \in Nat : ~\E f : IsChain(f, i, c, rs)}
<1>1. SUFFICES ASSUME Bad # {} PROVE FALSE
  OBVIOUS
<1>2. PICK m \in Bad : \A i \in Bad : m <= i
  <2>1. Bad \in SUBSET Nat
    OBVIOUS
  <2> HIDE DEF Bad
  <2> QED
    BY <1>1, <2>1, LeastNumber
<1>3. m \in Nat /\ ~\E f : IsChain(f, m, c, rs)
  OBVIOUS
<1>4. CASE m = 0
  <2> DEFINE f == [k \in 0..0 |-> c]
  <2>1. f = [k \in 0..0 |-> IF k = 0 THEN c ELSE Once(f[k - 1], rs)]
    OBVIOUS
  <2>2. IsChain(f, 0, c, rs)
    BY <2>1 DEF IsChain
  <2> QED
    BY <1>3, <1>4, <2>2
<1>5. CASE m > 0
  <2>1. m - 1 \in Nat /\ m - 1 \notin Bad
    BY <1>2, <1>3, <1>5
  <2>2. PICK f : IsChain(f, m - 1, c, rs)
    BY <2>1
  <2> DEFINE g == [k \in 0..m |-> IF k = m THEN Once(f[m - 1], rs) ELSE f[k]]
  <2>3. ASSUME NEW k \in 0..m
        PROVE  g[k] = IF k = 0 THEN c ELSE Once(g[k - 1], rs)
    <3>1. CASE k = m
      <4>1. m - 1 \in 0..m /\ m - 1 # m
        BY <2>1
      <4>2. g[m - 1] = f[m - 1] /\ g[m] = Once(f[m - 1], rs)
        BY <1>3, <4>1
      <4> QED
        BY <1>5, <3>1, <4>2
    <3>2. CASE k # m
      <4>1. k \in 0..(m - 1)
        BY <1>3, <3>2
      <4>2. g[k] = f[k]
        BY <3>2
      <4>3. f[k] = IF k = 0 THEN c ELSE Once(f[k - 1], rs)
        <5>1. f = [i \in 0..(m - 1) |-> IF i = 0 THEN c ELSE Once(f[i - 1], rs)]
          BY <2>2 DEF IsChain
        <5> HIDE DEF g
        <5> QED
          BY <4>1, <5>1
      <4>4. k # 0 => g[k - 1] = f[k - 1]
        <5>1. k # 0 => k - 1 \in 0..m /\ k - 1 # m
          BY <1>3, <4>1
        <5> QED
          BY <5>1
      <4> HIDE DEF g
      <4> QED
        BY <4>2, <4>3, <4>4
    <3> QED
      BY <3>1, <3>2
  <2>4. g = [k \in 0..m |-> g[k]]
    OBVIOUS
  <2> HIDE DEF g
  <2>5. g = [k \in 0..m |-> IF k = 0 THEN c ELSE Once(g[k - 1], rs)]
    BY <2>3, <2>4
  <2>6. IsChain(g, m, c, rs)
    BY <2>5 DEF IsChain
  <2> QED
    BY <1>3, <2>6
<1> QED
  BY <1>3, <1>4, <1>5

LEMMA NormalFormMeans ==
  ASSUME NEW c, NEW rs, Enough(c) \in Nat
  PROVE  \E f : /\ IsChain(f, Enough(c), c, rs)
                /\ NormalForm(c, rs) = f[CHOOSE k \in 0..Enough(c) : Reducible(f[k], rs) = {}]
<1> DEFINE chain[k \in 0..Enough(c)] == IF k = 0 THEN c ELSE Once(chain[k - 1], rs)
<1>1. IsChain(chain, Enough(c), c, rs)
  <2>1. \E f : f = [k \in 0..Enough(c) |-> IF k = 0 THEN c ELSE Once(f[k - 1], rs)]
    <3>1. \E f : IsChain(f, Enough(c), c, rs)
      BY ChainExists
    <3> QED
      BY <3>1 DEF IsChain
  <2>2. chain = [k \in 0..Enough(c) |-> IF k = 0 THEN c ELSE Once(chain[k - 1], rs)]
    BY <2>1
  <2> QED
    BY <2>2 DEF IsChain
<1>2. NormalForm(c, rs) = chain[CHOOSE k \in 0..Enough(c) : Reducible(chain[k], rs) = {}]
  BY DEF NormalForm
<1> HIDE DEF chain
<1> QED
  BY <1>1, <1>2

\* The elements of the chain are reached by rewritings.
LEMMA ChainReduces ==
  ASSUME NEW rs, IsSystem(rs), NEW c, IsElement(c), NEW n \in Nat,
         NEW f, IsChain(f, n, c, rs), NEW k \in 0..n
  PROVE  IsElement(f[k]) /\ Reduces(c, f[k], rs)
<1> DEFINE Bad == {i \in 0..n : ~(IsElement(f[i]) /\ Reduces(c, f[i], rs))}
<1>1. SUFFICES ASSUME Bad # {} PROVE FALSE
  OBVIOUS
<1>2. PICK m \in Bad : \A i \in Bad : m <= i
  <2>1. Bad \in SUBSET Nat
    OBVIOUS
  <2> HIDE DEF Bad
  <2> QED
    BY <1>1, <2>1, LeastNumber
<1>3. m \in 0..n /\ ~(IsElement(f[m]) /\ Reduces(c, f[m], rs))
  OBVIOUS
<1>4. f[m] = IF m = 0 THEN c ELSE Once(f[m - 1], rs)
  <2>1. f = [i \in 0..n |-> IF i = 0 THEN c ELSE Once(f[i - 1], rs)]
    BY DEF IsChain
  <2> QED
    BY <1>3, <2>1
<1>5. m # 0
  BY <1>3, <1>4, NoRewriting
<1>6. IsElement(f[m - 1]) /\ Reduces(c, f[m - 1], rs)
  <2>1. m - 1 \in 0..n /\ m - 1 \notin Bad
    BY <1>2, <1>3, <1>5
  <2> QED
    BY <2>1
<1>7. CASE Reducible(f[m - 1], rs) = {}
  BY <1>3, <1>4, <1>5, <1>6, <1>7 DEF Once
<1>8. CASE Reducible(f[m - 1], rs) # {}
  BY <1>3, <1>4, <1>5, <1>6, <1>8, OneMoreRewriting, ReduceOnceDescends DEF Once
<1> QED
  BY <1>7, <1>8

\* Where the chain is at work.
AtWork(f, rs, k) == Largest(Reducible(f[k], rs))

LEMMA ReducibleWords ==
  ASSUME NEW rs, NEW c, IsElement(c), Reducible(c, rs) # {}
  PROVE  /\ Largest(Reducible(c, rs)) \in Reducible(c, rs) /\ Reducible(c, rs) \subseteq DOMAIN c
         /\ Largest(Reducible(c, rs)) \in Words
<1>1. Reducible(c, rs) \subseteq DOMAIN c /\ DOMAIN c \subseteq Words /\ IsFiniteSet(DOMAIN c)
  BY DEF Reducible, IsElement
<1>2. IsFiniteSet(Reducible(c, rs)) /\ Reducible(c, rs) \in SUBSET Seq(Nat)
  BY <1>1, FS_Subset, WordFacts
<1>3. Largest(Reducible(c, rs)) \in Reducible(c, rs)
  BY <1>2, LargestIsGreatest
<1> QED
  BY <1>1, <1>3

LEMMA ChainDescends ==
  ASSUME NEW rs, IsSystem(rs), NEW c, IsElement(c), NEW n \in Nat,
         NEW f, IsChain(f, n, c, rs), \A k \in 0..n : Reducible(f[k], rs) # {},
         NEW j \in 0..n, NEW i \in 0..n, i < j
  PROVE  Less(AtWork(f, rs, j), AtWork(f, rs, i))
<1> DEFINE Bad == {k \in 0..n : i < k /\ ~Less(AtWork(f, rs, k), AtWork(f, rs, i))}
<1>1. SUFFICES ASSUME Bad # {} PROVE FALSE
  OBVIOUS
<1>2. PICK m \in Bad : \A k \in Bad : m <= k
  <2>1. Bad \in SUBSET Nat
    OBVIOUS
  <2> HIDE DEF Bad
  <2> QED
    BY <1>1, <2>1, LeastNumber
<1>3. m \in 0..n /\ i < m /\ ~Less(AtWork(f, rs, m), AtWork(f, rs, i))
  OBVIOUS
<1>4. m - 1 \in 0..n /\ m # 0
  BY <1>3
<1>5. \A k \in 0..n : AtWork(f, rs, k) \in Reducible(f[k], rs) /\ AtWork(f, rs, k) \in Words
  BY ChainReduces, ReducibleWords DEF AtWork
<1>6. Less(AtWork(f, rs, m), AtWork(f, rs, m - 1))
  <2>1. f[m] = Once(f[m - 1], rs)
    <3>1. f = [k \in 0..n |-> IF k = 0 THEN c ELSE Once(f[k - 1], rs)]
      BY DEF IsChain
    <3> QED
      BY <1>3, <1>4, <3>1
  <2>2. f[m] = ReduceOnce(f[m - 1], rs)
    BY <1>4, <2>1 DEF Once
  <2>3. IsElement(f[m - 1]) /\ Reducible(f[m - 1], rs) # {}
    BY <1>4, ChainReduces
  <2>4. \A x \in Reducible(ReduceOnce(f[m - 1], rs), rs) : Less(x, Largest(Reducible(f[m - 1], rs)))
    BY <2>3, ReduceOnceDescends
  <2> QED
    BY <1>3, <1>5, <2>2, <2>4 DEF AtWork
<1>7. CASE m - 1 = i
  BY <1>3, <1>6, <1>7
<1>8. CASE m - 1 # i
  <2>1. m - 1 \notin Bad /\ i < m - 1
    BY <1>2, <1>3, <1>4, <1>8
  <2>2. Less(AtWork(f, rs, m - 1), AtWork(f, rs, i))
    BY <1>4, <2>1
  <2> QED
    BY <1>3, <1>4, <1>5, <1>6, <2>2, WordOrder
<1> QED
  BY <1>7, <1>8

LEMMA EnoughIsNumber ==
  ASSUME NEW c, IsElement(c)
  PROVE  /\ Enough(c) \in Nat
         /\ \E n \in Nat : /\ IsFiniteSet(UpTo(n)) /\ Enough(c) = Cardinality(UpTo(n))
                           /\ \A w \in DOMAIN c : Len(w) <= n
<1> DEFINE D == DOMAIN c \cup {<<>>}
           n == Len(Largest(D))
<1>1. IsFiniteSet(D) /\ D \subseteq Words
  <2>1. <<>> \in Words
    BY WordConcat
  <2>2. IsFiniteSet({<<>>})
    BY FS_Singleton
  <2> QED
    BY <2>1, <2>2, FS_Union DEF IsElement
<1>2. Largest(D) \in D /\ \A v \in D : v # Largest(D) => Less(v, Largest(D))
  <2>1. D \in SUBSET Seq(Nat) /\ D # {}
    BY <1>1, WordFacts
  <2> HIDE DEF D
  <2> QED
    BY <1>1, <2>1, LargestIsGreatest
<1>3. n \in Nat
  <2> HIDE DEF D
  <2> QED
    BY <1>1, <1>2, WordConcat
<1>4. \A w \in DOMAIN c : Len(w) <= n
  <2>1. ASSUME NEW w \in DOMAIN c PROVE Len(w) <= n
    <3>1. w \in D
      OBVIOUS
    <3> HIDE DEF D
    <3>2. CASE w = Largest(D)
      BY <1>3, <3>2
    <3>3. CASE w # Largest(D)
      BY <1>1, <1>2, <3>1, <3>3, LessMeansShorter
    <3> QED
      BY <3>2, <3>3
  <2> QED
    BY <2>1
<1>5. Enough(c) = Cardinality(UpTo(n))
  BY DEF Enough
<1> HIDE DEF n
<1>6. IsFiniteSet(UpTo(n))
  BY <1>3, UpToIsFinite
<1>7. Enough(c) \in Nat
  BY <1>5, <1>6, FS_CardinalityType
<1> QED
  BY <1>3, <1>4, <1>5, <1>6, <1>7

\* The words at which a reduction works are all different, and not longer than
\* those of the element: there are not enough of them to go on.
LEMMA ChainEnds ==
  ASSUME NEW rs, IsSystem(rs), NEW c, IsElement(c), NEW f, IsChain(f, Enough(c), c, rs)
  PROVE  \E k \in 0..Enough(c) : Reducible(f[k], rs) = {}
<1>1. SUFFICES ASSUME \A k \in 0..Enough(c) : Reducible(f[k], rs) # {} PROVE FALSE
  OBVIOUS
<1>2. PICK n \in Nat : /\ IsFiniteSet(UpTo(n)) /\ Enough(c) = Cardinality(UpTo(n))
                       /\ \A w \in DOMAIN c : Len(w) <= n
  BY EnoughIsNumber
<1> DEFINE N == Enough(c)
           g == [k \in 0..N |-> AtWork(f, rs, k)]
<1>3. N \in Nat
  BY EnoughIsNumber
<1> HIDE DEF N
<1>4. \A k \in 0..N : AtWork(f, rs, k) \in Reducible(f[k], rs) /\ AtWork(f, rs, k) \in Words
  BY <1>1, <1>3, ChainReduces, ReducibleWords DEF AtWork, N
<1>5. \A j, i \in 0..N : i < j => Less(AtWork(f, rs, j), AtWork(f, rs, i))
  BY <1>1, <1>3, ChainDescends DEF N
<1>6. f[0] = c
  <2>1. f = [k \in 0..N |-> IF k = 0 THEN c ELSE Once(f[k - 1], rs)]
    BY DEF IsChain, N
  <2> QED
    BY <1>3, <2>1
<1>7. Len(AtWork(f, rs, 0)) <= n /\ AtWork(f, rs, 0) \in Words
  <2>1. AtWork(f, rs, 0) \in DOMAIN c /\ AtWork(f, rs, 0) \in Words
    BY <1>3, <1>4, <1>6 DEF Reducible
  <2> QED
    BY <1>2, <2>1
<1>8. \A k \in 0..N : AtWork(f, rs, k) \in UpTo(n)
  <2>1. ASSUME NEW k \in 0..N PROVE AtWork(f, rs, k) \in UpTo(n)
    <3>1. Len(AtWork(f, rs, k)) <= n
      <4>1. CASE k = 0
        BY <1>7, <4>1
      <4>2. CASE k # 0
        <5>1. Less(AtWork(f, rs, k), AtWork(f, rs, 0))
          BY <1>3, <1>5, <4>2
        <5>2. Len(AtWork(f, rs, k)) <= Len(AtWork(f, rs, 0))
          BY <1>4, <1>7, <5>1, LessMeansShorter
        <5>3. Len(AtWork(f, rs, k)) \in Nat /\ Len(AtWork(f, rs, 0)) \in Nat
          BY <1>4, <1>7, WordConcat
        <5> QED
          BY <1>7, <5>2, <5>3
      <4> QED
        BY <4>1, <4>2
    <3> QED
      BY <1>4, <3>1, ShortWord
  <2> QED
    BY <2>1
<1>9. g \in Injection(0..N, UpTo(n))
  <2>1. g \in [0..N -> UpTo(n)]
    BY <1>8
  <2>2. ASSUME NEW i \in 0..N, NEW j \in 0..N, i # j PROVE g[i] # g[j]
    <3>1. i < j \/ j < i
      BY <1>3, <2>2
    <3>2. Less(AtWork(f, rs, j), AtWork(f, rs, i)) \/ Less(AtWork(f, rs, i), AtWork(f, rs, j))
      BY <1>5, <3>1
    <3>3. AtWork(f, rs, i) # AtWork(f, rs, j)
      BY <1>4, <3>2, WordOrder
    <3> QED
      BY <3>3
  <2> HIDE DEF g
  <2> QED
    BY <2>1, <2>2 DEF Injection, IsInjective
<1>10. IsFiniteSet(0..N) /\ Cardinality(0..N) = N + 1
  <2>1. 0 <= N /\ 0 \in Int /\ N \in Int
    BY <1>3
  <2>2. Cardinality(0..N) = N - 0 + 1
    BY <2>1, FS_Interval
  <2> QED
    BY <1>3, <2>1, <2>2, FS_Interval
<1>11. Cardinality(0..N) <= Cardinality(UpTo(n))
  <2>1. \E h : h \in Injection(0..N, UpTo(n))
    BY <1>9
  <2> HIDE DEF g
  <2> QED
    BY <1>2, <1>9, <1>10, FS_Injection
<1> QED
  BY <1>2, <1>3, <1>10, <1>11 DEF N

\* A reduction ends in an irreducible element that rewritings lead to, by any
\* rules (reduction.py:76, "Terminates").
THEOREM ReductionEnds ==
  ASSUME NEW rs, IsSystem(rs), NEW c, IsElement(c)
  PROVE  /\ IsElement(NormalForm(c, rs)) /\ Reduces(c, NormalForm(c, rs), rs)
         /\ Reducible(NormalForm(c, rs), rs) = {}
<1>1. Enough(c) \in Nat
  BY EnoughIsNumber
<1>2. PICK f : /\ IsChain(f, Enough(c), c, rs)
               /\ NormalForm(c, rs) = f[CHOOSE k \in 0..Enough(c) : Reducible(f[k], rs) = {}]
  BY <1>1, NormalFormMeans
<1> DEFINE k == CHOOSE i \in 0..Enough(c) : Reducible(f[i], rs) = {}
<1>3. k \in 0..Enough(c) /\ Reducible(f[k], rs) = {}
  BY <1>2, ChainEnds
<1>4. NormalForm(c, rs) = f[k]
  BY <1>2
<1> HIDE DEF k
<1>5. IsElement(f[k]) /\ Reduces(c, f[k], rs)
  BY <1>1, <1>2, <1>3, ChainReduces
<1> QED
  BY <1>3, <1>4, <1>5

-----------------------------------------------------------------------------
(* Normal forms by a complete system. *)

LEMMA IsCompleteFacts ==
  ASSUME NEW rs, NEW bound, IsComplete(rs, bound), NEW ns, ns = MinimizeLeads(rs)
  PROVE  /\ IsSystem(ns) /\ IsSpace(Ideal(ns, Words)) /\ IsLower(Words)
         /\ FirstIn(ns, Words, Ideal(ns, Words))
         /\ \A w \in Words : \A m \in Matches(w, ns) : Place(w, ns, m) \in Ideal(ns, Words)
<1>1. IsSystem(ns)
  BY MinimalSystem DEF IsComplete
<1>2. IsSpace(Ideal(ns, Words)) /\ IsLower(Words)
  BY IdealIsSpace, LowerSets, WordConcat
<1>3. ASSUME NEW w \in Words, NEW m \in Matches(w, ns) PROVE Place(w, ns, m) \in Ideal(ns, Words)
  <2> DEFINE n == m[2]
             u == SubSeq(w, 1, m[1])
             b == SubSeq(w, m[1] + Len(ns[n].lead) + 1, Len(w))
  <2>1. /\ n \in DOMAIN ns /\ u \in Words /\ b \in Words
        /\ u \o ns[n].lead \o b = w
    BY <1>1, MatchFacts
  <2>2. Place(w, ns, m) = Shift(u, Relator(ns[n]), b)
    BY DEF Place
  <2> HIDE DEF n, u, b
  <2>3. Shift(u, Relator(ns[n]), b) \in Ideal(ns, Words)
    <3>1. u \o ns[n].lead \o b \in Words
      BY <2>1
    <3> QED
      BY <1>1, <2>1, <3>1, IdealGenerator
  <2> QED
    BY <2>2, <2>3
<1>4. FirstIn(ns, Words, Ideal(ns, Words))
  BY <1>1, <1>3, MatchFound DEF FirstIn
<1> QED
  BY <1>1, <1>2, <1>3, <1>4

LEMMA NormalFormSame ==
  ASSUME NEW rs, NEW bound, IsComplete(rs, bound), NEW ns, ns = MinimizeLeads(rs),
         NEW c, IsElement(c)
  PROVE  /\ IsElement(NormalForm(c, ns)) /\ Reducible(NormalForm(c, ns), ns) = {}
         /\ Same(Vect(NormalForm(c, ns)), Vect(c), Ideal(ns, Words))
<1>1. /\ IsSystem(ns) /\ IsSpace(Ideal(ns, Words)) /\ IsLower(Words)
      /\ FirstIn(ns, Words, Ideal(ns, Words))
  BY IsCompleteFacts
<1>2. /\ IsElement(NormalForm(c, ns)) /\ Reduces(c, NormalForm(c, ns), ns)
      /\ Reducible(NormalForm(c, ns), ns) = {}
  BY <1>1, ReductionEnds
<1>3. IsOver(c, Words)
  BY DEF IsOver, IsElement
<1>4. Same(Vect(NormalForm(c, ns)), Vect(c), Ideal(ns, Words))
  BY <1>1, <1>2, <1>3, ReducesSame
<1> QED
  BY <1>2, <1>4

\* reduce_comb decides equality in the algebra, for any rules whose ambiguities
\* resolve: two elements of kQ have the same normal form exactly when they differ
\* by a member of the ideal of the rules.
THEOREM NormalFormsDecide ==
  ASSUME NEW rs, NEW bound, IsComplete(rs, bound), NEW ns, ns = MinimizeLeads(rs),
         NEW c, IsElement(c), NEW d, IsElement(d)
  PROVE  NormalForm(c, ns) = NormalForm(d, ns) <=> Same(Vect(c), Vect(d), Ideal(ns, Words))
<1> DEFINE e == NormalForm(c, ns)
           f == NormalForm(d, ns)
           I == Ideal(ns, Words)
<1>1. IsElement(e) /\ Reducible(e, ns) = {} /\ Same(Vect(e), Vect(c), I)
  BY NormalFormSame
<1>2. IsElement(f) /\ Reducible(f, ns) = {} /\ Same(Vect(f), Vect(d), I)
  BY NormalFormSame
<1>3. IsSpace(I)
  BY IdealIsSpace
<1> HIDE DEF e, f, I
<1>4. Vect(c) \in Vectors /\ Vect(d) \in Vectors /\ Vect(e) \in Vectors /\ Vect(f) \in Vectors
  BY <1>1, <1>2, ElementVector
<1>5. ASSUME Same(Vect(c), Vect(d), I) PROVE e = f
  <2>1. Same(Vect(d), Vect(f), I)
    BY <1>2, <1>3, <1>4, SameIsEquality
  <2>2. Same(Vect(e), Vect(d), I)
    BY <1>1, <1>3, <1>4, <1>5, SameIsEquality
  <2>3. Same(Vect(e), Vect(f), Ideal(ns, Words))
    BY <1>3, <1>4, <2>1, <2>2, SameIsEquality DEF I
  <2> QED
    BY <1>1, <1>2, <2>3, IrreduciblesDiffer
<1>6. ASSUME e = f PROVE Same(Vect(c), Vect(d), I)
  <2>1. Same(Vect(c), Vect(e), I)
    BY <1>1, <1>3, <1>4, SameIsEquality
  <2> QED
    BY <1>2, <1>3, <1>4, <1>6, <2>1, SameIsEquality
<1> QED
  BY <1>5, <1>6 DEF e, f, I

LEMMA CertifiedIsComplete ==
  ASSUME IInv, CertInv, pc = "certified"
  PROVE  \E rs : IsComplete(rs, input.bound) /\ rules = MinimizeLeads(rs)
<1>1. input.bound \in Nat
  BY SystemFacts
<1>2. BoundSuffices(rules, input.bound)
  BY DEF CertInv, CertifiedFits
<1>3. PICK rs : /\ IsSystem(rs) /\ rules = MinimizeLeads(rs)
                /\ \A amb \in AllAmbiguities(rs, input.bound) : Resolves(amb, rs)
  BY DEF CertInv, CleanedResolve
<1> QED
  BY <1>1, <1>2, <1>3 DEF IsComplete

\* One word, with coefficient one.
LEMMA OneWord ==
  ASSUME NEW w \in Words
  PROVE  IsElement([v \in {w} |-> 1]) /\ w \in DOMAIN [v \in {w} |-> 1]
<1> DEFINE one == [v \in {w} |-> 1]
<1>1. DOMAIN one = {w} /\ one[w] = 1 /\ one = [v \in DOMAIN one |-> one[v]]
  OBVIOUS
<1>2. IsFiniteSet({w}) /\ 1 \in 1..(P - 1)
  BY FS_Singleton, PrimeInt
<1> HIDE DEF one
<1>3. IsElement(one) /\ w \in DOMAIN one
  BY <1>1, <1>2 DEF IsElement
<1> QED
  BY <1>3 DEF one

\* The product of two paths in a certified algebra is well defined: whichever
\* rule is applied first to a path, and wherever, its normal form is the same
\* (certificate.py:4), for every quiver, presentation and length of the path.
THEOREM CertifiedConfluence == Spec => []CertifiedIsConfluent
<1>1. IInv /\ CertInv => CertifiedIsConfluent
  <2> SUFFICES ASSUME IInv, CertInv, pc = "certified",
                      NEW w \in Paths(MaxWord),
                      NEW one, one = [v \in {w} |-> 1], NEW m \in Matches(w, rules)
               PROVE  NormalForm(Rewrite(one, w, rules, m), rules) = NormalForm(one, rules)
    BY DEF CertifiedIsConfluent
  <2>1. w \in Words
    <3>1. PICK k \in 0..MaxWord : w \in [1..k -> Arrows]
      BY DEF Paths
    <3>2. k \in Nat
      BY <3>1, ConfluenceAssumption
    <3> QED
      BY <3>1, <3>2, FunctionIsSeq DEF Words
  <2>2. IsElement(one) /\ w \in DOMAIN one
    BY <2>1, OneWord
  <2>3. PICK rs : IsComplete(rs, input.bound) /\ rules = MinimizeLeads(rs)
    BY CertifiedIsComplete
  <2>4. /\ IsSystem(rules) /\ IsSpace(Ideal(rules, Words))
        /\ Place(w, rules, m) \in Ideal(rules, Words)
    BY <2>1, <2>3, IsCompleteFacts
  <2>5. Same(Vect(Rewrite(one, w, rules, m)), Vect(one), Ideal(rules, Words))
    BY <2>2, <2>4, RewriteSame
  <2>6. IsElement(Rewrite(one, w, rules, m))
    BY <2>2, <2>4, RewriteDescends
  <2> QED
    BY <2>2, <2>3, <2>5, <2>6, NormalFormsDecide
<1> QED
  BY <1>1, CertificateInvariant, PTL

-----------------------------------------------------------------------------
(* The relations vanish. *)

\* A relation is its leading coefficient times the rule made of it, modulo P.
LEMMA RuleIsRelation ==
  ASSUME NEW c, IsElement(c), c # Zero
  PROVE  Equal(Vect(c), Plus(Null, c[Leading(c)], Relator(RuleFromComb(c))))
         /\ c[Leading(c)] \in Int
<1> DEFINE lead == Leading(c)
           a == c[lead]
           inv == CHOOSE k \in 1..(P - 1) : (k * a) % P = 1
           rest == Without(c, lead)
           tail == Scale(-inv, rest)
           r == RuleFromComb(c)
<1>1. lead \in DOMAIN c /\ lead \in Words /\ a \in 1..(P - 1)
  BY LeadingWord DEF IsElement
<1>2. P \in Int /\ P > 1
  BY PrimeInt
<1>3. r = [lead |-> lead, tail |-> tail]
  BY DEF RuleFromComb
<1>4. r.lead = lead /\ r.tail = tail
  BY <1>3
<1>5. inv \in 1..(P - 1) /\ (inv * a) % P = 1
  <2> HIDE DEF a
  <2> QED
    BY <1>1, GroebnerAssumption
<1> HIDE DEF lead, a, inv, rest, tail, r
<1>6. IsElement(rest)
  BY WithoutElement DEF rest
<1>7. inv \in Int /\ -inv \in Int /\ a \in Int
  BY <1>1, <1>2, <1>5
<1>8. IsElement(tail)
  BY <1>6, <1>7, ScaleElement DEF tail
<1>9. PICK h \in Vectors : Vect(tail) = Plus(Plus(Null, -inv, Vect(rest)), P, h)
  <2>1. Equal(Vect(tail), Plus(Null, -inv, Vect(rest)))
    BY <1>6, <1>7, ScaleVector DEF tail
  <2> QED
    BY <2>1 DEF Equal
<1>10. Vect(rest) = Plus(Vect(c), -a, Unit(lead))
  <2>1. Vect(Without(c, lead)) = Plus(Vect(c), -Coeff(c, lead), Unit(lead))
    BY <1>1, WithoutVector
  <2>2. Coeff(c, lead) = a
    BY <1>1 DEF Coeff, a
  <2> QED
    BY <2>1, <2>2 DEF rest
<1>11. PICK s \in Int : inv * a = 1 + P * s
  <2>1. inv * a \in Int
    BY <1>7
  <2>2. PICK q \in Int : (inv * a) % P = inv * a + P * q
    BY <2>1, RemainderIsEqual
  <2>3. inv * a = 1 + P * (-q)
    <3>1. \A x, y \in Int : 1 = x + y => x = 1 + (-y)
      OBVIOUS
    <3>2. P * q \in Int /\ P * (-q) = -(P * q)
      <4>1. \A x, y \in Int : x * y \in Int /\ x * (-y) = -(x * y)
        OBVIOUS
      <4> QED
        BY <1>2, <4>1
    <3>3. 1 = inv * a + P * q
      BY <1>5, <2>2
    <3> QED
      BY <2>1, <3>1, <3>2, <3>3
  <2> QED
    BY <2>3
<1>12. Relator(r) = Plus(Unit(lead), -1, Vect(tail))
  BY <1>4 DEF Relator
<1>13. /\ Vect(c) \in Vectors /\ Vect(rest) \in Vectors /\ Vect(tail) \in Vectors
       /\ Unit(lead) \in Vectors /\ Null \in Vectors
  BY <1>6, <1>8, ElementVector, UnitVectors
<1>14. Plus(Null, a, Relator(r)) \in Vectors
  <2>1. Plus(Unit(lead), -1, Vect(tail)) \in Vectors
    BY <1>13, PlusVector
  <2> QED
    BY <1>7, <1>12, <1>13, <2>1, PlusVector
<1>15. ASSUME NEW w \in Words
       PROVE  \E q \in Int : Vect(c)[w] = Plus(Null, a, Relator(r))[w] + P * q
  <2> DEFINE cw == Vect(c)[w]
             uw == Unit(lead)[w]
             hw == h[w]
             tw == Vect(tail)[w]
  <2>1. cw \in Int /\ uw \in Int /\ hw \in Int
    BY <1>13, ValueInt
  <2>2. Vect(rest)[w] = cw + (-a) * uw
    BY <1>10, PlusAt
  <2>3. Plus(Null, -inv, Vect(rest))[w] = 0 + (-inv) * Vect(rest)[w]
    BY PlusAt DEF Null
  <2>4. tw = (0 + (-inv) * (cw + (-a) * uw)) + P * hw
    BY <1>9, <2>2, <2>3, PlusAt
  <2>5. Plus(Null, a, Relator(r))[w] = 0 + a * (uw + (-1) * tw)
    <3>1. Relator(r)[w] = uw + (-1) * tw
      BY <1>12, PlusAt
    <3> QED
      BY <3>1, PlusAt DEF Null
  <2> HIDE DEF cw, uw, hw, tw
  <2>6. cw = (0 + a * (uw + (-1) * tw)) + P * (a * hw + (-s) * (cw + (-a) * uw))
    <3>1. \A A, V, C, U, H, Q, S \in Int :
             0 + A * (U + (-1) * ((0 + (-V) * (C + (-A) * U)) + Q * H))
               = A * U + (V * A) * (C + (-A) * U) + (-1) * (A * (Q * H))
      OBVIOUS
    <3>2. \A A, C, U, H, Q, S \in Int :
             (A * U + (1 + Q * S) * (C + (-A) * U) + (-1) * (A * (Q * H)))
                + Q * (A * H + (-S) * (C + (-A) * U)) = C
      OBVIOUS
    <3>3. 0 + a * (uw + (-1) * tw)
            = a * uw + (inv * a) * (cw + (-a) * uw) + (-1) * (a * (P * hw))
      BY <1>2, <1>7, <2>1, <2>4, <3>1
    <3>4. 0 + a * (uw + (-1) * tw)
            = a * uw + (1 + P * s) * (cw + (-a) * uw) + (-1) * (a * (P * hw))
      BY <1>11, <3>3
    <3>5. (a * uw + (1 + P * s) * (cw + (-a) * uw) + (-1) * (a * (P * hw)))
             + P * (a * hw + (-s) * (cw + (-a) * uw)) = cw
      BY <1>2, <1>7, <2>1, <3>2
    <3> QED
      BY <3>4, <3>5
  <2>7. a * hw + (-s) * (cw + (-a) * uw) \in Int
    <3>1. \A A, C, U, H, S \in Int : A * H + (-S) * (C + (-A) * U) \in Int
      OBVIOUS
    <3> QED
      BY <1>7, <2>1, <3>1
  <2>8. \E q \in Int : cw = (0 + a * (uw + (-1) * tw)) + P * q
    BY <2>6, <2>7
  <2> QED
    BY <2>5, <2>8 DEF cw
<1>16. Equal(Vect(c), Plus(Null, a, Relator(r)))
  BY <1>13, <1>14, <1>15, EqualByWord
<1> QED
  BY <1>7, <1>16 DEF a, lead, r

\* The rules that completion starts from are made of the relations, and no step
\* takes one away before the cleanup.
HoldsRels(rs) == \A k \in DOMAIN Rels : k \in DOMAIN rs /\ rs[k] = RuleFromComb(Rels[k])

RelsAreRules == pc \in {"completing", "reducing"} => Usable /\ HoldsRels(rules)

RelsWereRules ==
    pc \in {"cleaned", "certified"} =>
        /\ Usable
        /\ \E rs : /\ IsSystem(rs) /\ rules = MinimizeLeads(rs) /\ HoldsRels(rs)
                   /\ \A amb \in AllAmbiguities(rs, input.bound) : Resolves(amb, rs)

OriginInv == RelsAreRules /\ RelsWereRules

LEMMA OriginInit == Init => OriginInv
BY DEF Init, OriginInv, RelsAreRules, RelsWereRules

LEMMA SameRels ==
  ASSUME input' = input
  PROVE  Rels' = Rels /\ Usable' = Usable
BY DEF Rels, Usable

LEMMA OriginStep == IInv /\ CertInv /\ OriginInv /\ [Next]_vars => OriginInv'
<1> SUFFICES ASSUME IInv, CertInv, OriginInv, [Next]_vars PROVE OriginInv'
  OBVIOUS
<1>1. CASE Orient
  <2>1. /\ input' = input /\ Usable /\ pc' = "completing"
        /\ rules' = [k \in DOMAIN Rels |-> RuleFromComb(Rels[k])]
    BY <1>1 DEF Orient
  <2>2. Rels' = Rels /\ Usable' = Usable
    BY <2>1, SameRels
  <2>3. \A k \in DOMAIN Rels : k \in DOMAIN rules' /\ rules'[k] = RuleFromComb(Rels[k])
    BY <2>1
  <2>4. RelsAreRules'
    BY <2>1, <2>2, <2>3 DEF RelsAreRules, HoldsRels
  <2>5. RelsWereRules'
    BY <2>1 DEF RelsWereRules
  <2> QED
    BY <2>4, <2>5 DEF OriginInv
<1>2. CASE Extend
  <2>1. pc = "reducing" /\ input' = input /\ pc' \in {"completing", "refused"}
    BY <1>2 DEF Extend
  <2>2. Rels' = Rels /\ Usable' = Usable
    BY <2>1, SameRels
  <2>3. Usable /\ \A k \in DOMAIN Rels : k \in DOMAIN rules /\ rules[k] = RuleFromComb(Rels[k])
    BY <2>1 DEF OriginInv, RelsAreRules, HoldsRels
  <2>4. /\ Len(rules) \in Nat /\ DOMAIN rules = 1..Len(rules)
        /\ DOMAIN rules' = 1..(Len(rules) + 1)
        /\ \A n \in DOMAIN rules' :
               rules'[n] = IF n = Len(rules) + 1 THEN RuleFromComb(work) ELSE rules[n]
    BY <1>2, ExtendFacts, ListDomain
  <2>5. \A k \in DOMAIN Rels : k \in DOMAIN rules' /\ rules'[k] = RuleFromComb(Rels[k])
    <3>1. ASSUME NEW k \in DOMAIN Rels
          PROVE  k \in DOMAIN rules' /\ rules'[k] = RuleFromComb(Rels[k])
      <4>1. k \in 1..Len(rules)
        BY <2>3, <2>4
      <4>2. k \in 1..(Len(rules) + 1) /\ k # Len(rules) + 1
        BY <2>4, <4>1
      <4>3. k \in DOMAIN rules' /\ rules'[k] = rules[k]
        BY <2>4, <4>2
      <4> QED
        BY <2>3, <4>3
    <3> QED
      BY <3>1
  <2>6. RelsAreRules'
    BY <2>2, <2>3, <2>5 DEF RelsAreRules, HoldsRels
  <2>7. RelsWereRules'
    BY <2>1 DEF RelsWereRules
  <2> QED
    BY <2>6, <2>7 DEF OriginInv
<1>3. CASE Compare \/ Reduce \/ Resolve
  <2>1. /\ pc \in {"completing", "reducing"} /\ pc' \in {"completing", "reducing"}
        /\ input' = input /\ rules' = rules
    BY <1>3 DEF Compare, Reduce, Resolve
  <2>2. Rels' = Rels /\ Usable' = Usable
    BY <2>1, SameRels
  <2>3. RelsAreRules'
    BY <2>1, <2>2 DEF OriginInv, RelsAreRules, HoldsRels
  <2>4. RelsWereRules'
    BY <2>1 DEF RelsWereRules
  <2> QED
    BY <2>3, <2>4 DEF OriginInv
<1>4. CASE CleanUp
  <2>1. /\ pc = "completing" /\ todo = {} /\ pc' = "cleaned"
        /\ rules' = MinimizeLeads(rules) /\ input' = input
    BY <1>4 DEF CleanUp
  <2>2. Rels' = Rels /\ Usable' = Usable
    BY <2>1, SameRels
  <2>3. IsSystem(rules)
    BY SystemFacts
  <2>4. \A amb \in AllAmbiguities(rules, input.bound) : Resolves(amb, rules)
    BY <2>1 DEF CertInv, DoneResolve
  <2>5. Usable /\ HoldsRels(rules)
    BY <2>1 DEF OriginInv, RelsAreRules
  <2>6. RelsWereRules'
    <3>1. /\ rules' = MinimizeLeads(rules)
          /\ \A k \in DOMAIN Rels' : k \in DOMAIN rules /\ rules[k] = RuleFromComb(Rels'[k])
          /\ \A amb \in AllAmbiguities(rules, input'.bound) : Resolves(amb, rules)
      BY <2>1, <2>2, <2>4, <2>5 DEF HoldsRels
    <3> QED
      BY <2>2, <2>3, <2>5, <3>1 DEF RelsWereRules, HoldsRels
  <2>7. RelsAreRules'
    BY <2>1 DEF RelsAreRules
  <2> QED
    BY <2>6, <2>7 DEF OriginInv
<1>5. CASE Certify
  <2>1. pc = "cleaned" /\ pc' \in {"certified", "refused"} /\ input' = input /\ rules' = rules
    BY <1>5 DEF Certify, Stop
  <2>2. Rels' = Rels /\ Usable' = Usable
    BY <2>1, SameRels
  <2>3. RelsWereRules'
    BY <2>1, <2>2 DEF OriginInv, RelsWereRules, HoldsRels
  <2>4. RelsAreRules'
    BY <2>1 DEF RelsAreRules
  <2> QED
    BY <2>3, <2>4 DEF OriginInv
<1>6. CASE RefuseRelation
  <2>1. pc' = "refused"
    BY <1>6 DEF RefuseRelation, Stop
  <2> QED
    BY <2>1 DEF OriginInv, RelsAreRules, RelsWereRules
<1>7. CASE UNCHANGED vars
  <2>1. pc' = pc /\ input' = input /\ rules' = rules
    BY <1>7 DEF vars
  <2>2. Rels' = Rels /\ Usable' = Usable
    BY <2>1, SameRels
  <2> QED
    BY <2>1, <2>2 DEF OriginInv, RelsAreRules, RelsWereRules, HoldsRels
<1> QED
  BY <1>1, <1>2, <1>3, <1>4, <1>5, <1>6, <1>7 DEF Next

LEMMA OriginInvariant == Spec => [](IInv /\ CertInv /\ OriginInv)
BY InitInv, StepInv, CertInit, CertStep, OriginInit, OriginStep, PTL DEF Spec

\* The rule of an element of the ideal makes the element vanish.
LEMMA RelationVanishes ==
  ASSUME NEW rs, NEW bound, IsComplete(rs, bound), NEW ns, ns = MinimizeLeads(rs),
         NEW c, IsElement(c), c # Zero, Relator(RuleFromComb(c)) \in Ideal(ns, Words)
  PROVE  NormalForm(c, ns) = Zero
<1> DEFINE I == Ideal(ns, Words)
           R == Relator(RuleFromComb(c))
           a == c[Leading(c)]
           e == NormalForm(c, ns)
<1>1. IsSpace(I) /\ R \in I
  BY IdealIsSpace
<1>2. Equal(Vect(c), Plus(Null, a, R)) /\ a \in Int /\ Vect(c) \in Vectors
  BY RuleIsRelation, ElementVector
<1>3. IsElement(e) /\ Reducible(e, ns) = {} /\ Same(Vect(e), Vect(c), I)
  BY NormalFormSame
<1>4. Vect(e) \in I
  <2> HIDE DEF I, R, a, e
  <2>1. Plus(Null, a, R) \in I
    BY <1>1, <1>2, SpaceFacts
  <2>2. Vect(c) \in I
    BY <1>1, <1>2, <2>1, SpaceIsClosed
  <2>3. Vect(e) \in Vectors
    BY <1>3, ElementVector
  <2> QED
    BY <1>1, <1>2, <1>3, <2>2, <2>3, SameIsEquality
<1>5. IsElement(Zero) /\ Reducible(Zero, ns) = {}
  <2>1. DOMAIN Zero = {}
    BY DEF Zero
  <2> QED
    BY <2>1, ZeroElement DEF Reducible
<1>6. Same(Vect(e), Vect(Zero), Ideal(ns, Words))
  <2>1. Same(Vect(e), Null, I)
    <3> HIDE DEF I, R, a, e
    <3> QED
      BY <1>1, <1>3, <1>4, ElementVector, UnitVectors, SameIsEquality
  <2> QED
    BY <2>1, ZeroVector
<1>7. e = Zero
  <2> HIDE DEF I, R, a, e
  <2> QED
    BY <1>3, <1>5, <1>6, IrreduciblesDiffer
<1> QED
  BY <1>7

\* The leading words of the relations differ and fit the bound.
RelationsApart ==
    /\ \A j, k \in DOMAIN Rels : j # k => InitialLead(j) # InitialLead(k)
    /\ \A k \in DOMAIN Rels : Len(InitialLead(k)) <= input.bound

LEMMA CertifiedRelations ==
  ASSUME IInv, CertInv, OriginInv, pc = "certified", RelationsApart
  PROVE  \E rs : /\ IsComplete(rs, input.bound) /\ rules = MinimizeLeads(rs)
                 /\ \A k \in DOMAIN Rels :
                        /\ IsElement(Rels[k]) /\ Rels[k] # Zero
                        /\ Relator(RuleFromComb(Rels[k])) \in Ideal(rules, Words)
<1>1. input.bound \in Nat /\ input \in Presentations
  BY SystemFacts
<1>2. BoundSuffices(rules, input.bound)
  BY DEF CertInv, CertifiedFits
<1>3. Usable
  BY DEF OriginInv, RelsWereRules
<1>4. PICK rs : /\ IsSystem(rs) /\ rules = MinimizeLeads(rs) /\ HoldsRels(rs)
                /\ \A amb \in AllAmbiguities(rs, input.bound) : Resolves(amb, rs)
  BY DEF OriginInv, RelsWereRules
<1>5. IsComplete(rs, input.bound)
  BY <1>1, <1>2, <1>4 DEF IsComplete
<1>6. DOMAIN Rels = DOMAIN input.rels /\ \A j \in DOMAIN Rels : Rels[j] = Coerced(input.rels[j])
  BY DEF Rels
<1>7. ASSUME NEW j \in DOMAIN Rels
      PROVE  /\ IsElement(Rels[j]) /\ Rels[j] # Zero
             /\ j \in DOMAIN rs /\ rs[j] = RuleFromComb(Rels[j])
             /\ rs[j].lead = InitialLead(j)
  <2>1. IsElement(Rels[j]) /\ DOMAIN Rels[j] \subseteq DOMAIN input.rels[j]
    BY <1>1, <1>6, InputFacts, CoercedElement
  <2>2. Rels[j] # Zero /\ \A w \in DOMAIN input.rels[j] : Len(w) >= 2
    BY <1>3, <1>6 DEF Usable
  <2>3. RuleFromComb(Rels[j]).lead = Leading(Rels[j])
    BY <2>1, <2>2, CombRule
  <2> QED
    BY <1>4, <2>1, <2>2, <2>3 DEF HoldsRels, InitialLead
<1>8. ASSUME NEW k \in DOMAIN Rels
      PROVE  Relator(rs[k]) \in Ideal(rules, Words)
  <2>1. IsFirst(k, rs, input.bound)
    <3>1. ASSUME NEW m \in DOMAIN rs, m < k PROVE rs[m].lead # rs[k].lead
      <4>1. DOMAIN Rels = 1..Len(input.rels) /\ Len(input.rels) \in Nat
        BY <1>1, <1>6, InputFacts, ListDomain
      <4>2. m \in Nat \ {0}
        BY <1>4 DEF IsSystem
      <4>3. m \in DOMAIN Rels /\ m # k
        BY <3>1, <4>1, <4>2
      <4> QED
        BY <1>7, <4>3 DEF RelationsApart
    <3>2. k \in DOMAIN rs /\ Len(rs[k].lead) <= input.bound
      BY <1>7 DEF RelationsApart
    <3> QED
      BY <3>1, <3>2 DEF IsFirst
  <2>2. Relator(rs[k]) \in Ideal(rules, Words)
    <3>1. Relator(rs[k]) \in Ideal(rules, DownTo(rs[k].lead))
      <4>1. \A n \in DOMAIN rs : IsFirst(n, rs, input.bound)
                => Relator(rs[n]) \in Ideal(MinimizeLeads(rs), DownTo(rs[n].lead))
        BY <1>1, <1>4, KeptRelators
      <4>2. k \in DOMAIN rs /\ rules = MinimizeLeads(rs)
        BY <1>4, <1>7
      <4> QED
        BY <2>1, <4>1, <4>2
    <3>2. IsSystem(rules)
      BY SystemFacts
    <3>3. DownTo(rs[k].lead) \subseteq Words
      <4>1. rs[k].lead \in Words
        BY <1>4, <1>7 DEF IsSystem, IsRule
      <4> QED
        BY <4>1, LowerSets
    <3> QED
      BY <3>1, <3>2, <3>3, IdealGrows
  <2> QED
    BY <2>2
<1>9. \A k \in DOMAIN Rels : /\ IsElement(Rels[k]) /\ Rels[k] # Zero
                             /\ Relator(RuleFromComb(Rels[k])) \in Ideal(rules, Words)
  BY <1>7, <1>8
<1> QED
  BY <1>4, <1>5, <1>9

\* No relation is lost: a relation whose leading word is no other's and fits the
\* bound is zero in the certified algebra, even when the cleanup has dropped its
\* rule (complete.py:79), for every presentation and bound.
THEOREM NoRelationIsLost == Spec => []DistinctLeadsVanish
<1>1. IInv /\ CertInv /\ OriginInv => DistinctLeadsVanish
  <2> SUFFICES ASSUME IInv, CertInv, OriginInv, pc = "certified", RelationsApart,
                      NEW k \in DOMAIN Rels
               PROVE  NormalForm(Rels[k], rules) = Zero
    BY DEF DistinctLeadsVanish, Vanish, RelationsApart
  <2>1. PICK rs : /\ IsComplete(rs, input.bound) /\ rules = MinimizeLeads(rs)
                  /\ \A j \in DOMAIN Rels :
                         /\ IsElement(Rels[j]) /\ Rels[j] # Zero
                         /\ Relator(RuleFromComb(Rels[j])) \in Ideal(rules, Words)
    BY CertifiedRelations
  <2> QED
    BY <2>1, RelationVanishes
<1> QED
  BY <1>1, OriginInvariant, PTL

-----------------------------------------------------------------------------
(* Completion adds consequences of the relations, and nothing else. *)

\* A two-sided ideal of kQ.
IsTwoSided(J) == IsSpace(J) /\ \A a, b \in Words : \A f \in J : Shift(a, f, b) \in J

\* The ideal that the relations generate.
RelGens == {f \in Vectors : \E k \in DOMAIN Rels : \E u, v \in Words : f = Shift(u, Vect(Rels[k]), v)}

RelIdeal == Span(RelGens)

LEMMA CutInTwo ==
  ASSUME NEW w \in Words, NEW k \in Nat, k <= Len(w)
  PROVE  /\ SubSeq(w, 1, k) \in Words /\ SubSeq(w, k + 1, Len(w)) \in Words
         /\ Cat(SubSeq(w, 1, k), SubSeq(w, k + 1, Len(w))) = w
<1>1. Len(w) \in Nat
  BY WordConcat
<1>2. SubSeq(w, 1, k) \o SubSeq(w, k + 1, Len(w)) = SubSeq(w, 1, Len(w))
  <2>1. 1 \in 1..(Len(w) + 1) /\ k \in (1 - 1)..Len(w) /\ Len(w) \in k..Len(w)
    BY <1>1
  <2> QED
    BY <2>1, ConcatAdjacentSubSeq DEF Words
<1>3. SubSeq(w, 1, Len(w)) = w
  BY SubSeqFull DEF Words
<1>4. \A i, j \in Nat : i <= j /\ j <= Len(w) => SubSeq(w, i + 1, j) \in Words
  BY SubSeqWord
<1>5. SubSeq(w, 0 + 1, k) \in Words
  <2>1. 0 \in Nat /\ 0 <= k
    OBVIOUS
  <2> QED
    BY <1>4, <2>1, Zenon
<1>6. SubSeq(w, k + 1, Len(w)) \in Words
  <2>1. Len(w) <= Len(w)
    BY <1>1
  <2> QED
    BY <1>1, <1>4, <2>1, Zenon
<1>7. SubSeq(w, 1, k) \in Words
  <2>1. 0 + 1 = 1
    OBVIOUS
  <2> QED
    BY <1>5, <2>1
<1> QED
  BY <1>2, <1>3, <1>6, <1>7 DEF Cat

\* The word of an overlap, read in the two ways.
Front(l, at) == SubSeq(l, 1, Len(l) - at)
Back(k, at) == SubSeq(k, at + 1, Len(k))

LEMMA OverlapWord ==
  ASSUME NEW l \in Words, NEW k \in Words, NEW bound \in Nat, NEW at \in Overlaps(l, k, bound)
  PROVE  /\ Front(l, at) \in Words /\ Back(k, at) \in Words
         /\ Cat(l, Back(k, at)) = Cat(Front(l, at), k)
<1> DEFINE front == Front(l, at)
           back == Back(k, at)
<1>a. front = SubSeq(l, 1, Len(l) - at) /\ back = SubSeq(k, at + 1, Len(k))
  BY DEF Front, Back
<1> HIDE DEF front, back
<1>1. Len(l) \in Nat /\ Len(k) \in Nat
  BY WordConcat
<1>2. /\ at \in Nat /\ at < Len(l) /\ at < Len(k)
      /\ SubSeq(l, Len(l) - at + 1, Len(l)) = SubSeq(k, 1, at)
  BY <1>1 DEF Overlaps
<1>3. front \in Words /\ Cat(front, SubSeq(k, 1, at)) = l
  <2>1. Len(l) - at \in Nat /\ Len(l) - at <= Len(l)
    BY <1>1, <1>2
  <2>2. /\ SubSeq(l, 1, Len(l) - at) \in Words
        /\ Cat(SubSeq(l, 1, Len(l) - at), SubSeq(l, Len(l) - at + 1, Len(l))) = l
    BY <2>1, CutInTwo
  <2> QED
    BY <1>a, <1>2, <2>2
<1>4. SubSeq(k, 1, at) \in Words /\ back \in Words /\ Cat(SubSeq(k, 1, at), back) = k
  <2>1. at \in Nat /\ at <= Len(k)
    BY <1>1, <1>2
  <2> QED
    BY <1>a, <2>1, CutInTwo
<1> DEFINE q == SubSeq(k, 1, at)
<1>5. q \in Words /\ Cat(front, q) = l /\ Cat(q, back) = k
  BY <1>3, <1>4
<1> HIDE DEF q
<1>6. Cat(Cat(front, q), back) = Cat(front, Cat(q, back))
  BY <1>3, <1>4, <1>5, CatFacts
<1>7. front \in Words /\ back \in Words /\ Cat(l, back) = Cat(front, k)
  BY <1>3, <1>4, <1>5, <1>6
<1> QED
  BY <1>7 DEF front, back

\* Two ways to rewrite a word differ by a member of the ideal of the rules.
LEMMA TwoWays ==
  ASSUME NEW J, IsTwoSided(J), NEW r, IsRule(r), Relator(r) \in J,
         NEW s, IsRule(s), Relator(s) \in J,
         NEW u \in Words, NEW v \in Words, NEW a \in Words, NEW b \in Words,
         Cat(Cat(u, r.lead), v) = Cat(Cat(a, s.lead), b),
         NEW A, IsElement(A), Vect(A) = Shift(u, Vect(r.tail), v),
         NEW B, IsElement(B), Vect(B) = Shift(a, Vect(s.tail), b)
  PROVE  Vect(LcSub(A, B)) \in J
<1> DEFINE o == Unit(u \o r.lead \o v)
           f == Vect(A)
           g == Vect(B)
<1>1. IsSpace(J)
  BY DEF IsTwoSided
<1>2. /\ Shift(u, Relator(r), v) = Plus(o, -1, f)
      /\ Shift(a, Relator(s), b) = Plus(o, -1, g)
  <2>1. Shift(u, Relator(r), v) = Plus(Unit(u \o r.lead \o v), -1, Shift(u, Vect(r.tail), v))
    BY RelatorVector
  <2>2. Shift(a, Relator(s), b) = Plus(Unit(a \o s.lead \o b), -1, Shift(a, Vect(s.tail), b))
    BY RelatorVector
  <2>3. u \o r.lead \o v = a \o s.lead \o b
    BY DEF Cat
  <2> QED
    BY <2>1, <2>2, <2>3
<1>3. Shift(u, Relator(r), v) \in J /\ Shift(a, Relator(s), b) \in J
  BY DEF IsTwoSided
<1>4. f \in Vectors /\ g \in Vectors /\ o \in Vectors
  BY ElementVector, UnitVectors
<1>5. Equal(Vect(LcSub(A, B)), Plus(f, -1, g)) /\ Vect(LcSub(A, B)) \in Vectors
  BY SumVector, AddElement, ElementVector
<1> HIDE DEF o, f, g
<1>6. Same(o, f, J) /\ Same(o, g, J)
  BY <1>2, <1>3 DEF Same
<1>7. Same(f, g, J)
  <2>1. Same(f, o, J)
    BY <1>1, <1>4, <1>6, SameIsEquality
  <2> QED
    BY <1>1, <1>4, <1>6, <2>1, SameIsEquality
<1> QED
  BY <1>1, <1>5, <1>7, SpaceIsClosed DEF Same

LEMMA AmbiguityIsConsequence ==
  ASSUME NEW J, IsTwoSided(J), NEW rs, IsSystem(rs),
         \A n \in DOMAIN rs : Relator(rs[n]) \in J,
         NEW bound \in Nat, NEW amb \in AllAmbiguities(rs, bound)
  PROVE  Vect(SPolynomial(amb, rs)) \in J
<1>1. PICK r, s, at : r = rs[amb[1]] /\ s = rs[amb[2]] /\ at = amb[4]
  OBVIOUS
<1>2. /\ IsRule(r) /\ IsRule(s) /\ Relator(r) \in J /\ Relator(s) \in J
      /\ \/ amb[3] = Overlap /\ at \in Overlaps(r.lead, s.lead, bound)
         \/ amb[3] = Inclusion /\ at \in Inclusions(r.lead, s.lead, bound)
  BY <1>1, AmbiguityFacts DEF IsSystem
<1>3. /\ r.lead \in Words /\ s.lead \in Words /\ IsElement(r.tail) /\ IsElement(s.tail)
      /\ Vect(r.tail) \in Vectors /\ Vect(s.tail) \in Vectors /\ <<>> \in Words
  BY <1>2, ElementVector, WordConcat DEF IsRule
<1>4. CASE amb[3] = Overlap
  <2>1. at \in Overlaps(r.lead, s.lead, bound)
    BY <1>2, <1>4 DEF Overlap, Inclusion
  <2>2. PICK front, back : front = Front(r.lead, at) /\ back = Back(s.lead, at)
    OBVIOUS
  <2>3. front \in Words /\ back \in Words /\ Cat(r.lead, back) = Cat(front, s.lead)
    BY <1>3, <2>1, <2>2, OverlapWord
  <2>4. Cat(Cat(<<>>, r.lead), back) = Cat(Cat(front, s.lead), <<>>)
    <3>1. Cat(<<>>, r.lead) = r.lead
      BY <1>3, CatNothing
    <3>2. Cat(front, s.lead) \in Words
      BY <1>3, <2>3, CatFacts
    <3>3. Cat(Cat(front, s.lead), <<>>) = Cat(front, s.lead)
      BY <3>2, CatNothing
    <3> QED
      BY <2>3, <3>1, <3>3
  <2> DEFINE A == InContext(<<>>, r.tail, back)
             B == InContext(front, s.tail, <<>>)
  <2>5. /\ IsElement(A) /\ Vect(A) = Shift(<<>>, Vect(r.tail), back)
        /\ IsElement(B) /\ Vect(B) = Shift(front, Vect(s.tail), <<>>)
    BY <1>3, <2>3, ContextElement, ShiftVect
  <2>6. SPolynomial(amb, rs) = LcSub(A, B)
    BY <1>1, <1>4, <2>2 DEF SPolynomial, Front, Back
  <2> HIDE DEF A, B
  <2> QED
    BY <1>2, <1>3, <2>3, <2>4, <2>5, <2>6, TwoWays
<1>5. CASE amb[3] # Overlap
  <2>1. at \in Inclusions(r.lead, s.lead, bound)
    BY <1>2, <1>5
  <2>2. PICK a, b : /\ a = SubSeq(r.lead, 1, at)
                    /\ b = SubSeq(r.lead, at + Len(s.lead) + 1, Len(r.lead))
    OBVIOUS
  <2>3. a \in Words /\ b \in Words /\ a \o s.lead \o b = r.lead
    BY <1>3, <2>1, <2>2, Factored DEF Inclusions
  <2>4. Cat(Cat(<<>>, r.lead), <<>>) = Cat(Cat(a, s.lead), b)
    <3>1. Cat(<<>>, r.lead) = r.lead /\ Cat(r.lead, <<>>) = r.lead
      BY <1>3, CatNothing
    <3>2. Cat(Cat(a, s.lead), b) = r.lead
      BY <2>3 DEF Cat
    <3> QED
      BY <3>1, <3>2
  <2> DEFINE A == r.tail
             B == InContext(a, s.tail, b)
  <2>5. /\ IsElement(A) /\ Vect(A) = Shift(<<>>, Vect(r.tail), <<>>)
        /\ IsElement(B) /\ Vect(B) = Shift(a, Vect(s.tail), b)
    BY <1>3, <2>3, ContextElement, ShiftVect, ShiftNothing
  <2>6. SPolynomial(amb, rs) = LcSub(A, B)
    BY <1>1, <1>5, <2>2 DEF SPolynomial
  <2> HIDE DEF A, B
  <2> QED
    BY <1>2, <1>3, <2>3, <2>4, <2>5, <2>6, TwoWays
<1> QED
  BY <1>4, <1>5

LEMMA RewritingIsConsequence ==
  ASSUME NEW J, IsTwoSided(J), NEW rs, IsSystem(rs),
         \A n \in DOMAIN rs : Relator(rs[n]) \in J,
         NEW c, IsElement(c), Vect(c) \in J, Reducible(c, rs) # {}
  PROVE  Vect(ReduceOnce(c, rs)) \in J
<1>1. IsSpace(J)
  BY DEF IsTwoSided
<1>2. FirstIn(rs, Words, J)
  <2>1. ASSUME NEW w \in Words, ~Irreducible(w, rs)
        PROVE  Place(w, rs, FirstFactor(w, rs)) \in J
    <3> DEFINE m == FirstFactor(w, rs)
               n == m[2]
               u == SubSeq(w, 1, m[1])
               b == SubSeq(w, m[1] + Len(rs[n].lead) + 1, Len(w))
    <3>1. m \in Matches(w, rs)
      BY <2>1, MatchFound
    <3>2. n \in DOMAIN rs /\ u \in Words /\ b \in Words
      BY <3>1, MatchFacts
    <3>3. Place(w, rs, m) = Shift(u, Relator(rs[n]), b)
      BY DEF Place
    <3> HIDE DEF n, u, b
    <3>4. Shift(u, Relator(rs[n]), b) \in J
      BY <3>2 DEF IsTwoSided
    <3> QED
      BY <3>3, <3>4
  <2> QED
    BY <2>1 DEF FirstIn
<1>3. IsOver(c, Words) /\ IsLower(Words)
  BY LowerSets, WordConcat DEF IsOver, IsElement
<1>4. IsOver(ReduceOnce(c, rs), Words) /\ Same(Vect(ReduceOnce(c, rs)), Vect(c), J)
  BY <1>1, <1>2, <1>3, ReduceOnceSame
<1>5. Vect(ReduceOnce(c, rs)) \in Vectors /\ Vect(c) \in Vectors
  BY <1>4, ElementVector DEF IsOver
<1> QED
  BY <1>1, <1>4, <1>5, SameIsEquality

\* The rule made of a member of an ideal is in the ideal, too.
LEMMA RuleIsConsequence ==
  ASSUME NEW J, IsSpace(J), NEW c, IsElement(c), c # Zero, Vect(c) \in J,
         IsRule(RuleFromComb(c))
  PROVE  Relator(RuleFromComb(c)) \in J
<1> DEFINE R == Relator(RuleFromComb(c))
           a == c[Leading(c)]
<1>1. Equal(Vect(c), Plus(Null, a, R)) /\ a \in Int
  BY RuleIsRelation
<1>2. a \in 1..(P - 1)
  BY LeadingWord DEF IsElement
<1> HIDE DEF a
<1>3. R \in Vectors /\ Vect(c) \in Vectors
  BY RelatorVector, ElementVector, WordConcat
<1> HIDE DEF R
<1>4. PICK inv \in 1..(P - 1) : (inv * a) % P = 1
  BY <1>2, GroebnerAssumption
<1>5. P \in Int /\ inv \in Int /\ inv * a \in Int
  <2>1. P \in Int /\ inv \in Int
    BY PrimeInt
  <2>2. \A x, y \in Int : x * y \in Int
    OBVIOUS
  <2> QED
    BY <1>1, <2>1, <2>2
<1>6. PICK q \in Int : (inv * a) % P = inv * a + P * q
  BY <1>5, RemainderIsEqual
<1>7. PICK h \in Vectors : Vect(c) = Plus(Plus(Null, a, R), P, h)
  BY <1>1 DEF Equal
<1>8. Plus(Null, inv, Vect(c)) \in J
  BY <1>5, SpaceFacts
<1>9. Plus(Null, inv, Vect(c)) \in Vectors
  BY <1>3, <1>5, PlusVector, UnitVectors
<1>10. ASSUME NEW w \in Words
       PROVE  \E x \in Int : R[w] = Plus(Null, inv, Vect(c))[w] + P * x
  <2> DEFINE rw == R[w]
             hw == h[w]
  <2>1. rw \in Int /\ hw \in Int
    BY <1>3, ValueInt
  <2>2. Plus(Null, a, R)[w] = 0 + a * rw
    BY PlusAt DEF Null
  <2>3. Vect(c)[w] = (0 + a * rw) + P * hw
    BY <1>7, <2>2, PlusAt
  <2>4. Plus(Null, inv, Vect(c))[w] = 0 + inv * ((0 + a * rw) + P * hw)
    BY <2>3, PlusAt DEF Null
  <2> HIDE DEF rw, hw
  <2>5. \A I, A, X, Q, H \in Int :
           0 + I * ((0 + A * X) + Q * H) = (I * A) * X + Q * (I * H)
    OBVIOUS
  <2>6. 0 + inv * ((0 + a * rw) + P * hw) = (inv * a) * rw + P * (inv * hw)
    BY <1>1, <1>5, <2>1, <2>5
  <2>7. inv * a = 1 + P * (-q)
    <3>1. \A x, y \in Int : 1 = x + y => x = 1 + (-y)
      OBVIOUS
    <3>2. P * q \in Int /\ P * (-q) = -(P * q)
      <4>1. \A x, y \in Int : x * y \in Int /\ x * (-y) = -(x * y)
        OBVIOUS
      <4> QED
        BY <1>5, <4>1
    <3>3. 1 = inv * a + P * q
      BY <1>4, <1>6
    <3> QED
      BY <1>5, <3>1, <3>2, <3>3
  <2>8. rw = ((1 + P * (-q)) * rw + P * (inv * hw)) + P * (q * rw + (-1) * (inv * hw))
    <3>1. \A I, X, Q, S, H \in Int :
             X = ((1 + Q * (-S)) * X + Q * (I * H)) + Q * (S * X + (-1) * (I * H))
      OBVIOUS
    <3> QED
      BY <1>5, <2>1, <3>1
  <2>9. q * rw + (-1) * (inv * hw) \in Int
    <3>1. \A I, X, S, H \in Int : S * X + (-1) * (I * H) \in Int
      OBVIOUS
    <3> QED
      BY <1>5, <2>1, <3>1
  <2>10. \E x \in Int : rw = (0 + inv * ((0 + a * rw) + P * hw)) + P * x
    BY <2>6, <2>7, <2>8, <2>9
  <2> QED
    BY <2>4, <2>10 DEF rw
<1>11. Equal(R, Plus(Null, inv, Vect(c)))
  BY <1>3, <1>9, <1>10, EqualByWord
<1>12. R \in J
  BY <1>3, <1>8, <1>11, SpaceIsClosed
<1> QED
  BY <1>12 DEF R


LEMMA RelIdealTwoSided ==
  ASSUME input \in Presentations
  PROVE  IsTwoSided(RelIdeal) /\ \A k \in DOMAIN Rels : IsElement(Rels[k]) /\ Vect(Rels[k]) \in RelIdeal
<1>1. IsSpace(RelIdeal)
  BY SpanIsSpace DEF RelIdeal
<1>2. \A k \in DOMAIN Rels : IsElement(Rels[k])
  <2>1. DOMAIN Rels = DOMAIN input.rels /\ \A k \in DOMAIN Rels : Rels[k] = Coerced(input.rels[k])
    BY DEF Rels
  <2> QED
    BY <2>1, InputFacts, CoercedElement
<1>3. RelGens \subseteq RelIdeal
  <2>1. RelGens \subseteq Vectors
    BY DEF RelGens
  <2> QED
    BY <2>1, SpanHolds DEF RelIdeal
<1>4. ASSUME NEW k \in DOMAIN Rels, NEW u \in Words, NEW v \in Words
      PROVE  Shift(u, Vect(Rels[k]), v) \in RelIdeal
  <2>1. Shift(u, Vect(Rels[k]), v) \in Vectors
    BY <1>2, ElementVector, ShiftAt
  <2>2. Shift(u, Vect(Rels[k]), v) \in RelGens
    BY <2>1 DEF RelGens
  <2> QED
    BY <1>3, <2>2
<1>5. ASSUME NEW k \in DOMAIN Rels
      PROVE  Vect(Rels[k]) \in RelIdeal
  <2>1. Vect(Rels[k]) \in Vectors /\ <<>> \in Words
    BY <1>2, ElementVector, WordConcat
  <2>2. Shift(<<>>, Vect(Rels[k]), <<>>) = Vect(Rels[k])
    BY <2>1, ShiftNothing
  <2>3. Shift(<<>>, Vect(Rels[k]), <<>>) \in RelIdeal
    BY <1>4, <2>1
  <2> QED
    BY <2>2, <2>3
<1>6. ASSUME NEW a \in Words, NEW b \in Words
      PROVE  \A f \in RelIdeal : Shift(a, f, b) \in RelIdeal
  <2> DEFINE S == {g \in Vectors : Shift(a, g, b) \in RelIdeal}
  <2>1. /\ RelIdeal \subseteq Vectors /\ Null \in RelIdeal
        /\ \A g, h \in RelIdeal : \A k \in Int : Plus(g, k, h) \in RelIdeal
        /\ \A g \in RelIdeal : \A h \in Vectors : Plus(g, P, h) \in RelIdeal
    BY <1>1, SpaceFacts
  <2>2. S \subseteq Vectors /\ Null \in S
    BY <2>1, UnitVectors, ShiftNull
  <2>3. ASSUME NEW g \in S, NEW h \in S, NEW k \in Int PROVE Plus(g, k, h) \in S
    <3>1. Shift(a, Plus(g, k, h), b) = Plus(Shift(a, g, b), k, Shift(a, h, b))
      BY ShiftPlus
    <3> QED
      BY <2>1, <3>1, PlusVector
  <2>4. ASSUME NEW g \in S, NEW h \in Vectors PROVE Plus(g, P, h) \in S
    <3>1. Shift(a, Plus(g, P, h), b) = Plus(Shift(a, g, b), P, Shift(a, h, b))
      BY ShiftPlus, PrimeInt
    <3>2. Shift(a, h, b) \in Vectors
      BY ShiftAt
    <3>3. Plus(Shift(a, g, b), P, Shift(a, h, b)) \in RelIdeal
      BY <2>1, <3>2
    <3> QED
      BY <3>1, <3>3, PlusVector, PrimeInt
  <2>5. IsSpace(S)
    <3> HIDE DEF S
    <3> QED
      BY <2>2, <2>3, <2>4 DEF IsSpace
  <2>6. RelGens \subseteq S
    <3> SUFFICES ASSUME NEW f \in RelGens PROVE f \in S
      OBVIOUS
    <3>1. f \in Vectors /\ \E k \in DOMAIN Rels : \E u, v \in Words : f = Shift(u, Vect(Rels[k]), v)
      BY DEF RelGens
    <3>2. PICK k \in DOMAIN Rels, u \in Words, v \in Words : f = Shift(u, Vect(Rels[k]), v)
      BY <3>1
    <3>3. Vect(Rels[k]) \in Vectors /\ a \o u \in Words /\ v \o b \in Words
      BY <1>2, ElementVector, WordConcat
    <3>4. Shift(a, f, b) = Shift(a \o u, Vect(Rels[k]), v \o b)
      BY <3>2, <3>3, ShiftTwice
    <3>5. Shift(a, f, b) \in RelIdeal
      BY <1>4, <3>3, <3>4
    <3> QED
      BY <3>1, <3>5
  <2>7. RelIdeal \subseteq S
    <3> HIDE DEF S
    <3> QED
      BY <2>5, <2>6, SpanIsLeast DEF RelIdeal
  <2> QED
    BY <2>7
<1> QED
  BY <1>1, <1>2, <1>5, <1>6 DEF IsTwoSided

\* Every rule, and the element at work, is a combination of the relations in
\* contexts.
AreConsequences == \A n \in DOMAIN rules : Relator(rules[n]) \in RelIdeal
WorkIsConsequence == pc = "reducing" => Vect(work) \in RelIdeal

ConsInv == AreConsequences /\ WorkIsConsequence

LEMMA SameRelIdeal ==
  ASSUME input' = input
  PROVE  RelIdeal' = RelIdeal
<1>1. Rels' = Rels
  BY SameRels
<1>2. RelGens' = RelGens
  BY <1>1 DEF RelGens
<1> QED
  BY <1>2 DEF RelIdeal

LEMMA ConsInit == Init => ConsInv
<1> SUFFICES ASSUME Init PROVE ConsInv
  OBVIOUS
<1>1. DOMAIN rules = {} /\ pc = "parsed"
  BY DEF Init
<1> QED
  BY <1>1 DEF ConsInv, AreConsequences, WorkIsConsequence

LEMMA OrientConsequences == IInv /\ Orient => ConsInv'
<1> SUFFICES ASSUME IInv, Orient PROVE ConsInv'
  OBVIOUS
<1>1. /\ input' = input /\ Usable /\ pc' = "completing"
      /\ rules' = [k \in DOMAIN Rels |-> RuleFromComb(Rels[k])]
  BY DEF Orient
<1>2. IsTwoSided(RelIdeal) /\ \A k \in DOMAIN Rels : IsElement(Rels[k]) /\ Vect(Rels[k]) \in RelIdeal
  BY SystemFacts, RelIdealTwoSided
<1>3. DOMAIN Rels = DOMAIN input.rels /\ \A k \in DOMAIN Rels : Rels[k] = Coerced(input.rels[k])
  BY DEF Rels
<1>4. ASSUME NEW k \in DOMAIN Rels
      PROVE  Relator(RuleFromComb(Rels[k])) \in RelIdeal
  <2>1. DOMAIN Rels[k] \subseteq DOMAIN input.rels[k]
    BY <1>3, SystemFacts, InputFacts, CoercedElement
  <2>2. Rels[k] # Zero /\ \A w \in DOMAIN input.rels[k] : Len(w) >= 2
    BY <1>1, <1>3 DEF Usable
  <2>3. IsRule(RuleFromComb(Rels[k]))
    BY <1>2, <2>1, <2>2, CombRule
  <2>4. IsSpace(RelIdeal)
    BY <1>2 DEF IsTwoSided
  <2> QED
    BY <1>2, <2>2, <2>3, <2>4, RuleIsConsequence
<1>5. RelIdeal' = RelIdeal
  BY <1>1, SameRelIdeal
<1>6. \A n \in DOMAIN rules' : Relator(rules'[n]) \in RelIdeal'
  BY <1>1, <1>4, <1>5
<1> QED
  BY <1>1, <1>6 DEF ConsInv, AreConsequences, WorkIsConsequence

LEMMA CompareConsequences == IInv /\ ConsInv /\ Compare => ConsInv'
<1> SUFFICES ASSUME IInv, ConsInv, Compare PROVE ConsInv'
  OBVIOUS
<1> DEFINE amb == Smallest(todo)
<1>1. /\ input' = input /\ rules' = rules /\ pc = "completing" /\ todo # {}
      /\ work' = SPolynomial(amb, rules)
  BY DEF Compare
<1>2. IsTwoSided(RelIdeal) /\ IsSystem(rules) /\ input.bound \in Nat
  BY SystemFacts, RelIdealTwoSided
<1>3. amb \in AllAmbiguities(rules, input.bound)
  <2>1. todo \subseteq AllAmbiguities(rules, input.bound)
    BY <1>1 DEF IInv, TodoIsMade
  <2>2. \A a \in todo : a \in Seq(Nat)
    BY <1>2, <2>1, AmbiguityFacts
  <2>3. Smallest(todo) \in todo
    BY <1>1, <2>2, SmallestIsLeast
  <2> QED
    BY <2>1, <2>3
<1>4. \A n \in DOMAIN rules : Relator(rules[n]) \in RelIdeal
  BY DEF ConsInv, AreConsequences
<1> HIDE DEF amb
<1>5. Vect(SPolynomial(amb, rules)) \in RelIdeal
  BY <1>2, <1>3, <1>4, AmbiguityIsConsequence
<1>6. RelIdeal' = RelIdeal
  BY <1>1, SameRelIdeal
<1>7. Vect(work') \in RelIdeal' /\ \A n \in DOMAIN rules' : Relator(rules'[n]) \in RelIdeal'
  BY <1>1, <1>4, <1>5, <1>6
<1> QED
  BY <1>7 DEF ConsInv, AreConsequences, WorkIsConsequence

LEMMA ReduceConsequences == IInv /\ ConsInv /\ Reduce => ConsInv'
<1> SUFFICES ASSUME IInv, ConsInv, Reduce PROVE ConsInv'
  OBVIOUS
<1>1. /\ input' = input /\ rules' = rules /\ pc = "reducing"
      /\ Reducible(work, rules) # {} /\ work' = ReduceOnce(work, rules)
  BY DEF Reduce
<1>2. IsTwoSided(RelIdeal) /\ IsSystem(rules) /\ IsElement(work)
  BY SystemFacts, RelIdealTwoSided
<1>3. Vect(work) \in RelIdeal /\ \A n \in DOMAIN rules : Relator(rules[n]) \in RelIdeal
  BY <1>1 DEF ConsInv, AreConsequences, WorkIsConsequence
<1>4. Vect(ReduceOnce(work, rules)) \in RelIdeal
  BY <1>1, <1>2, <1>3, RewritingIsConsequence
<1>5. RelIdeal' = RelIdeal
  BY <1>1, SameRelIdeal
<1>6. Vect(work') \in RelIdeal' /\ \A n \in DOMAIN rules' : Relator(rules'[n]) \in RelIdeal'
  BY <1>1, <1>3, <1>4, <1>5
<1> QED
  BY <1>6 DEF ConsInv, AreConsequences, WorkIsConsequence

LEMMA ExtendConsequences == IInv /\ ConsInv /\ Extend => ConsInv'
<1> SUFFICES ASSUME IInv, ConsInv, Extend PROVE ConsInv'
  OBVIOUS
<1>1. /\ input' = input /\ pc = "reducing" /\ work # Zero /\ pc' # "reducing"
  BY DEF Extend
<1>2. IsSpace(RelIdeal) /\ IsElement(work)
  BY SystemFacts, RelIdealTwoSided DEF IsTwoSided
<1>3. Vect(work) \in RelIdeal /\ \A n \in DOMAIN rules : Relator(rules[n]) \in RelIdeal
  BY <1>1 DEF ConsInv, AreConsequences, WorkIsConsequence
<1>4. /\ IsRule(RuleFromComb(work))
      /\ \A n \in DOMAIN rules' :
             rules'[n] = IF n = Len(rules) + 1 THEN RuleFromComb(work) ELSE rules[n]
      /\ \A n \in DOMAIN rules' : n = Len(rules) + 1 \/ n \in DOMAIN rules
  BY ExtendFacts
<1>5. Relator(RuleFromComb(work)) \in RelIdeal
  BY <1>1, <1>2, <1>3, <1>4, RuleIsConsequence
<1>6. ASSUME NEW n \in DOMAIN rules'
      PROVE  Relator(rules'[n]) \in RelIdeal
  <2>1. CASE n = Len(rules) + 1
    <3>1. rules'[n] = RuleFromComb(work)
      BY <1>4, <2>1
    <3> QED
      BY <1>5, <3>1
  <2>2. CASE n # Len(rules) + 1
    <3>1. rules'[n] = rules[n] /\ n \in DOMAIN rules
      BY <1>4, <2>2
    <3> QED
      BY <1>3, <3>1
  <2> QED
    BY <2>1, <2>2
<1>7. RelIdeal' = RelIdeal
  BY <1>1, SameRelIdeal
<1>8. \A n \in DOMAIN rules' : Relator(rules'[n]) \in RelIdeal'
  BY <1>6, <1>7
<1> QED
  BY <1>1, <1>8 DEF ConsInv, AreConsequences, WorkIsConsequence

LEMMA CleanUpConsequences == IInv /\ ConsInv /\ CleanUp => ConsInv'
<1> SUFFICES ASSUME IInv, ConsInv, CleanUp PROVE ConsInv'
  OBVIOUS
<1>1. input' = input /\ rules' = MinimizeLeads(rules) /\ pc' = "cleaned"
  BY DEF CleanUp
<1>2. /\ DOMAIN rules' \subseteq DOMAIN rules
      /\ \A n \in DOMAIN rules' : rules'[n] = rules[n]
  BY <1>1, SystemFacts, MinimalSystem
<1>3. \A n \in DOMAIN rules : Relator(rules[n]) \in RelIdeal
  BY DEF ConsInv, AreConsequences
<1>4. RelIdeal' = RelIdeal
  BY <1>1, SameRelIdeal
<1>5. \A n \in DOMAIN rules' : Relator(rules'[n]) \in RelIdeal'
  BY <1>2, <1>3, <1>4
<1> QED
  BY <1>1, <1>5 DEF ConsInv, AreConsequences, WorkIsConsequence

LEMMA ConsStep == IInv /\ ConsInv /\ [Next]_vars => ConsInv'
<1> SUFFICES ASSUME IInv, ConsInv, [Next]_vars PROVE ConsInv'
  OBVIOUS
<1>1. CASE Orient
  BY <1>1, OrientConsequences
<1>2. CASE Compare
  BY <1>2, CompareConsequences
<1>3. CASE Reduce
  BY <1>3, ReduceConsequences
<1>4. CASE Extend
  BY <1>4, ExtendConsequences
<1>5. CASE CleanUp
  BY <1>5, CleanUpConsequences
<1>6. CASE RefuseRelation \/ Resolve \/ Certify \/ UNCHANGED vars
  <2>1. /\ input' = input /\ rules' = rules /\ work' = work
        /\ pc' = "reducing" => pc = "reducing"
    BY <1>6 DEF RefuseRelation, Resolve, Certify, Stop, vars
  <2>2. RelIdeal' = RelIdeal
    BY <2>1, SameRelIdeal
  <2> QED
    BY <2>1, <2>2 DEF ConsInv, AreConsequences, WorkIsConsequence
<1> QED
  BY <1>1, <1>2, <1>3, <1>4, <1>5, <1>6 DEF Next

LEMMA ConsInvariant == Spec => [](IInv /\ CertInv /\ OriginInv /\ ConsInv)
BY InitInv, StepInv, CertInit, CertStep, OriginInit, OriginStep, ConsInit, ConsStep, PTL DEF Spec

\* Completion never leaves the ideal of the relations: every rule, the ones made
\* of ambiguities included, is a combination of the relations in contexts
\* (complete.py:68), in every state, certified or not.
THEOREM CompletionStaysInIdeal == Spec => []AreConsequences
<1>1. ConsInv => AreConsequences
  BY DEF ConsInv
<1> QED
  BY <1>1, ConsInvariant, PTL


\* An element is in an ideal when the relator of its rule is.
LEMMA ElementOfItsRule ==
  ASSUME NEW S, IsSpace(S), NEW c, IsElement(c), c # Zero, Relator(RuleFromComb(c)) \in S
  PROVE  Vect(c) \in S
<1> DEFINE R == Relator(RuleFromComb(c))
           a == c[Leading(c)]
<1>1. Equal(Vect(c), Plus(Null, a, R)) /\ a \in Int /\ Vect(c) \in Vectors
  BY RuleIsRelation, ElementVector
<1>2. R \in S
  OBVIOUS
<1> HIDE DEF R, a
<1>3. Plus(Null, a, R) \in S
  BY <1>1, <1>2, SpaceFacts
<1> QED
  BY <1>1, <1>3, SpaceIsClosed

LEMMA SameIdeal ==
  ASSUME IInv, ConsInv,
         \A k \in DOMAIN Rels : Rels[k] # Zero /\ Relator(RuleFromComb(Rels[k])) \in Ideal(rules, Words)
  PROVE  Ideal(rules, Words) = RelIdeal
<1>1. /\ IsSystem(rules) /\ input \in Presentations /\ IsTwoSided(RelIdeal)
      /\ \A k \in DOMAIN Rels : IsElement(Rels[k])
  BY SystemFacts, RelIdealTwoSided
<1>2. Ideal(rules, Words) \subseteq RelIdeal
  <2>1. \A n \in DOMAIN rules : \A u, v \in Words : Shift(u, Relator(rules[n]), v) \in RelIdeal
    BY <1>1 DEF IsTwoSided, ConsInv, AreConsequences
  <2>2. IsSpace(RelIdeal)
    BY <1>1 DEF IsTwoSided
  <2> QED
    BY <2>1, <2>2, IdealIsLeast
<1>3. \A k \in DOMAIN Rels : Vect(Rels[k]) \in Ideal(rules, Words)
  <2>1. IsSpace(Ideal(rules, Words))
    BY IdealIsSpace
  <2> QED
    BY <1>1, <2>1, ElementOfItsRule
<1>4. RelGens \subseteq Ideal(rules, Words)
  <2> SUFFICES ASSUME NEW f \in RelGens PROVE f \in Ideal(rules, Words)
    OBVIOUS
  <2>1. PICK k \in DOMAIN Rels, u \in Words, v \in Words : f = Shift(u, Vect(Rels[k]), v)
    BY DEF RelGens
  <2>2. \A x \in Words : x \in Words => u \o x \o v \in Words
    BY WordConcat
  <2>3. Vect(Rels[k]) \in Ideal(rules, Words)
    BY <1>3
  <2>4. Shift(u, Vect(Rels[k]), v) \in Ideal(rules, Words)
    BY <1>1, <2>2, <2>3, IdealShift
  <2> QED
    BY <2>1, <2>4
<1>5. RelIdeal \subseteq Ideal(rules, Words)
  BY <1>4, IdealIsSpace, SpanIsLeast DEF RelIdeal
<1> QED
  BY <1>2, <1>5

\* Until the cleanup the rules generate the ideal of the relations, no more and no
\* less: the cleanup is the only step that can lose a relation (complete.py:46).
THEOREM CompletionKeepsIdeal ==
  Spec => [](pc \in {"completing", "reducing"} => Ideal(rules, Words) = RelIdeal)
<1>1. IInv /\ OriginInv /\ ConsInv
        => (pc \in {"completing", "reducing"} => Ideal(rules, Words) = RelIdeal)
  <2> SUFFICES ASSUME IInv, OriginInv, ConsInv, pc \in {"completing", "reducing"}
               PROVE  Ideal(rules, Words) = RelIdeal
    OBVIOUS
  <2>1. Usable /\ HoldsRels(rules)
    BY DEF OriginInv, RelsAreRules
  <2>2. IsSystem(rules)
    BY SystemFacts
  <2>3. ASSUME NEW k \in DOMAIN Rels
        PROVE  Rels[k] # Zero /\ Relator(RuleFromComb(Rels[k])) \in Ideal(rules, Words)
    <3>1. k \in DOMAIN rules /\ rules[k] = RuleFromComb(Rels[k]) /\ Rels[k] # Zero
      BY <2>1 DEF HoldsRels, Usable, Rels
    <3>2. IsRule(rules[k]) /\ <<>> \in Words
      BY <2>2, <3>1, WordConcat DEF IsSystem
    <3>3. Relator(rules[k]) \in Vectors /\ <<>> \o rules[k].lead \o <<>> \in Words
      BY <3>2, RelatorVector
    <3>4. Shift(<<>>, Relator(rules[k]), <<>>) \in Ideal(rules, Words)
      BY <2>2, <3>1, <3>2, <3>3, IdealGenerator
    <3>5. Relator(rules[k]) \in Ideal(rules, Words)
      BY <3>3, <3>4, ShiftNothing
    <3> QED
      BY <3>1, <3>5
  <2> QED
    BY <2>3, SameIdeal
<1> QED
  BY <1>1, ConsInvariant, PTL

\* Two elements with the same normal form are equal in kQ/I, and only those: the
\* irreducible words span kQ/I and are independent in it.
NormalFormsAreABasis ==
    \A c, d : IsElement(c) /\ IsElement(d) =>
        /\ IsElement(NormalForm(c, rules)) /\ Reducible(NormalForm(c, rules), rules) = {}
        /\ Same(Vect(NormalForm(c, rules)), Vect(c), RelIdeal)
        /\ NormalForm(c, rules) = NormalForm(d, rules) <=> Same(Vect(c), Vect(d), RelIdeal)

\* What the certificate says of the presentation that was put in
\* (certificate.py:6, "the system is confluent and the irreducible words are a
\* genuine k-basis of kQ/I"), I the ideal of the relations themselves and not of
\* the rules that completion and cleanup have left; for relations whose leading
\* words differ and fit the bound.
THEOREM CertifiedBasis == Spec => [](pc = "certified" /\ RelationsApart => NormalFormsAreABasis)
<1>1. IInv /\ CertInv /\ OriginInv /\ ConsInv
        => (pc = "certified" /\ RelationsApart => NormalFormsAreABasis)
  <2> SUFFICES ASSUME IInv, CertInv, OriginInv, ConsInv, pc = "certified", RelationsApart,
                      NEW c, NEW d, IsElement(c), IsElement(d)
               PROVE  /\ IsElement(NormalForm(c, rules)) /\ Reducible(NormalForm(c, rules), rules) = {}
                      /\ Same(Vect(NormalForm(c, rules)), Vect(c), RelIdeal)
                      /\ NormalForm(c, rules) = NormalForm(d, rules)
                           <=> Same(Vect(c), Vect(d), RelIdeal)
    BY DEF NormalFormsAreABasis
  <2>1. Ideal(rules, Words) = RelIdeal
    BY CertifiedRelations, SameIdeal
  <2>2. PICK rs : IsComplete(rs, input.bound) /\ rules = MinimizeLeads(rs)
    BY CertifiedRelations
  <2>3. /\ IsElement(NormalForm(c, rules)) /\ Reducible(NormalForm(c, rules), rules) = {}
        /\ Same(Vect(NormalForm(c, rules)), Vect(c), Ideal(rules, Words))
    BY <2>2, NormalFormSame
  <2>4. NormalForm(c, rules) = NormalForm(d, rules)
          <=> Same(Vect(c), Vect(d), Ideal(rules, Words))
    BY <2>2, NormalFormsDecide
  <2> QED
    BY <2>1, <2>3, <2>4
<1> QED
  BY <1>1, ConsInvariant, PTL

-----------------------------------------------------------------------------
(* Finiteness: the automaton of windows decides whether the basis is finite *)
(* (core/monomial.py, irreducible_paths).                                   *)

\* The arrows of w compose, and no rule applies to it: with the vertices, the
\* basis (irreducible_paths).  The empty word stands here for the vertices.
IsPath(w) == \A i \in 1..(Len(w) - 1) : Target[w[i]] = Source[w[i + 1]]

BasisPaths(rs) == {w \in Words : IsPath(w) /\ Irreducible(w, rs)}

\* r, the number of arrows a state is to remember plus one.
Reach(rs) == IF DOMAIN rs = {} THEN 1 ELSE Longest(rs)

\* Where a walk that has read w may be.
Ends(s, w, rs) ==
    /\ w \in BasisPaths(rs)
    /\ s \in Vertices \X Words /\ Len(s[2]) < Reach(rs)
    /\ w # <<>> => Target[w[Len(w)]] = s[1]
    /\ \E p \in Words : w = Cat(p, s[2]) /\ (p = <<>> \/ Len(s[2]) = Reach(rs) - 1)

LEMMA ReachFacts ==
  ASSUME NEW rs, IsSystem(rs)
  PROVE  /\ Reach(rs) \in Nat \ {0}
         /\ \A n \in DOMAIN rs : Len(rs[n].lead) <= Reach(rs)
<1>1. Longest(rs) \in Nat /\ \A k \in DOMAIN rs : Len(rs[k].lead) <= Longest(rs)
  BY LongestLead
<1>2. CASE DOMAIN rs = {}
  BY <1>2 DEF Reach
<1>3. CASE DOMAIN rs # {}
  <2>1. PICK n \in DOMAIN rs : TRUE
    BY <1>3
  <2>2. Len(rs[n].lead) >= 2 /\ Len(rs[n].lead) \in Nat
    BY DEF IsSystem, IsRule, Words
  <2>3. Longest(rs) \in Nat \ {0}
    BY <1>1, <2>2
  <2> QED
    BY <1>1, <1>3, <2>3 DEF Reach
<1> QED
  BY <1>2, <1>3

LEMMA ArrowEnds ==
  /\ \A a \in Arrows : Source[a] \in Vertices /\ Target[a] \in Vertices
  /\ \A w \in Words : \A i \in 1..Len(w) : w[i] \in Arrows
<1>1. \A a \in Arrows : Source[a] \in Vertices /\ Target[a] \in Vertices
  BY GroebnerAssumption DEF Arrows
<1> QED
  BY <1>1 DEF Words

LEMMA AppendWord ==
  ASSUME NEW w \in Words, NEW b \in Arrows
  PROVE  /\ <<b>> \in Words /\ Len(<<b>>) = 1
         /\ Append(w, b) \in Words /\ Append(w, b) # <<>> /\ Append(w, b) = Cat(w, <<b>>)
         /\ Len(Append(w, b)) = Len(w) + 1 /\ Append(w, b)[Len(w) + 1] = b
         /\ \A i \in 1..Len(w) : Append(w, b)[i] = w[i]
<1>1. <<b>> \in Seq(Arrows) /\ Len(<<b>>) = 1
  OBVIOUS
<1> QED
  BY <1>1, AppendProperties, AppendIsConcat DEF Words, Cat

\* Words that reach the same end.
LEMMA LastArrow ==
  ASSUME NEW w \in Words, w # <<>>
  PROVE  \E v \in Words, b \in Arrows : w = Append(v, b)
BY SequenceEmptyOrAppend DEF Words

LEMMA CatOccurs ==
  ASSUME NEW p \in Words, NEW f \in Words, NEW s \in Words
  PROVE  Occurrences(f, Cat(Cat(p, f), s)) # {}
<1>1. Cat(Cat(p, f), s) = p \o f \o s
  BY DEF Cat
<1>2. Occurrences(f, p \o f \o s) # {}
  BY OccursInside
<1> QED
  BY <1>1, <1>2

LEMMA CatFactor ==
  ASSUME NEW w \in Words, NEW f \in Words, Occurrences(f, w) # {}
  PROVE  \E p, s \in Words : w = Cat(Cat(p, f), s)
<1>1. PICK i \in Occurrences(f, w) : TRUE
  OBVIOUS
<1>2. PICK p, s : p = SubSeq(w, 1, i) /\ s = SubSeq(w, i + Len(f) + 1, Len(w))
  OBVIOUS
<1>3. p \in Words /\ s \in Words /\ p \o f \o s = w
  BY <1>2, Factored
<1>4. Cat(Cat(p, f), s) = w
  BY <1>3 DEF Cat
<1> QED
  BY <1>3, <1>4

\* Every factor of an irreducible word is irreducible.
LEMMA FactorIrreducible ==
  ASSUME NEW rs, IsSystem(rs), NEW p \in Words, NEW f \in Words, NEW s \in Words,
         Irreducible(Cat(Cat(p, f), s), rs)
  PROVE  Irreducible(f, rs)
<1> DEFINE w == Cat(Cat(p, f), s)
<1>1. w \in Words /\ Occurrences(f, w) # {} /\ Irreducible(w, rs)
  <2>1. Cat(p, f) \in Words
    BY CatFacts
  <2> QED
    BY <2>1, CatFacts, CatOccurs
<1> HIDE DEF w
<1>2. \A n \in DOMAIN rs : rs[n].lead \in Words
  BY DEF IsSystem, IsRule
<1>3. \A n \in DOMAIN rs : Occurrences(rs[n].lead, w) = {}
  BY <1>1, IrreducibleMeans
<1>4. \A n \in DOMAIN rs : Occurrences(rs[n].lead, f) = {}
  BY <1>1, <1>2, <1>3, FactorOfFactor
<1> QED
  BY <1>4, IrreducibleMeans

\* An arrow more: the window knows all there is to know.
LEMMA WindowDecides ==
  ASSUME NEW rs, IsSystem(rs), NEW w, NEW s, Ends(s, w, rs), NEW b \in Arrows
  PROVE  Irreducible(Append(w, b), rs) <=> Irreducible(Append(s[2], b), rs)
<1> DEFINE q == s[2]
           r == Reach(rs)
<1>1. /\ w \in Words /\ Irreducible(w, rs) /\ q \in Words /\ Len(q) < r
      /\ \E p \in Words : w = Cat(p, q) /\ (p = <<>> \/ Len(q) = r - 1)
  BY DEF Ends, BasisPaths
<1>2. r \in Nat /\ \A n \in DOMAIN rs : Len(rs[n].lead) <= r
  BY ReachFacts
<1> HIDE DEF q, r
<1>3. PICK p \in Words : w = Cat(p, q) /\ (p = <<>> \/ Len(q) = r - 1)
  BY <1>1
<1> DEFINE q1 == Append(q, b)
           w1 == Append(w, b)
<1>4. /\ q1 \in Words /\ w1 \in Words /\ Len(q1) = Len(q) + 1 /\ <<>> \in Words
      /\ q1 = Cat(q, <<b>>) /\ w1 = Cat(w, <<b>>) /\ <<b>> \in Words
  BY <1>1, AppendWord, WordConcat
<1> HIDE DEF q1, w1
<1>5. w1 = Cat(p, q1)
  BY <1>1, <1>3, <1>4, CatFacts
<1>6. ASSUME Irreducible(w1, rs) PROVE Irreducible(q1, rs)
  <2>1. w1 = Cat(Cat(p, q1), <<>>)
    BY <1>4, <1>5, CatNothing
  <2> QED
    BY <1>4, <1>6, <2>1, FactorIrreducible
<1>7. ASSUME Irreducible(q1, rs), ~Irreducible(w1, rs) PROVE FALSE
  <2>1. PICK n \in DOMAIN rs : Occurrences(rs[n].lead, w1) # {}
    BY <1>4, <1>7, IrreducibleMeans
  <2> DEFINE l == rs[n].lead
  <2>2. /\ l \in Words /\ Len(l) <= r /\ Occurrences(l, w1) # {}
        /\ Occurrences(l, w) = {} /\ Occurrences(l, q1) = {}
    BY <1>1, <1>2, <1>4, <1>7, <2>1, IrreducibleMeans DEF IsSystem, IsRule
  <2> HIDE DEF l
  <2>3. PICK u, v \in Words : w1 = Cat(Cat(u, l), v)
    BY <1>4, <2>2, CatFactor
  <2>4. Cat(u, l) \in Words
    BY <2>2, CatFacts
  <2>5. v = <<>>
    <3>1. SUFFICES ASSUME v # <<>> PROVE FALSE
      OBVIOUS
    <3>2. PICK x \in Words, a \in Arrows : v = Append(x, a)
      BY <3>1, LastArrow
    <3>3. v = Cat(x, <<a>>) /\ <<a>> \in Words
      BY <3>2, AppendWord
    <3>4. w1 = Cat(Cat(Cat(u, l), x), <<a>>)
      BY <2>3, <2>4, <3>3, CatFacts
    <3>5. Cat(Cat(u, l), x) \in Words
      BY <2>4, CatFacts
    <3>6. w1 = Append(Cat(Cat(u, l), x), a)
      BY <3>4, <3>5, AppendWord
    <3>7. w = Cat(Cat(u, l), x)
      <4>1. Append(w, b) = Append(Cat(Cat(u, l), x), a)
        BY <3>6 DEF w1
      <4>2. w \in Seq(Arrows) /\ Cat(Cat(u, l), x) \in Seq(Arrows)
        BY <1>1, <3>5 DEF Words
      <4> QED
        BY <4>1, <4>2, AppendInjective
    <3> QED
      BY <2>2, <3>7, CatOccurs
  <2>6. Cat(u, l) = Cat(p, q1)
    BY <1>5, <2>3, <2>4, <2>5, CatNothing
  <2>7. Len(p) <= Len(u)
    <3>1. Len(u) + Len(l) = Len(p) + Len(q1) /\ Len(u) \in Nat /\ Len(l) \in Nat /\ Len(p) \in Nat
      <4>1. Len(Cat(u, l)) = Len(u) + Len(l) /\ Len(u) \in Nat
        BY <2>2, CatFacts
      <4>2. Len(Cat(p, q1)) = Len(p) + Len(q1) /\ Len(p) \in Nat
        BY <1>4, CatFacts
      <4>3. Len(l) \in Nat
        BY <2>2, WordConcat
      <4> QED
        BY <2>6, <4>1, <4>2, <4>3
    <3>2. CASE p = <<>>
      BY <3>1, <3>2
    <3>3. CASE Len(q) = r - 1
      BY <1>2, <1>4, <2>2, <3>1, <3>3
    <3> QED
      BY <1>3, <3>2, <3>3
  <2>8. PICK t \in Words : u = Cat(p, t) /\ q1 = Cat(t, l)
    BY <1>4, <2>2, <2>6, <2>7, CatCuts
  <2>9. q1 = Cat(Cat(t, l), <<>>)
    BY <1>4, <2>8, CatNothing
  <2> QED
    BY <1>4, <2>2, <2>9, CatOccurs
<1> QED
  BY <1>6, <1>7 DEF q1, w1, q

\* A word is its first arrow and the rest.
LEMMA FirstArrow ==
  ASSUME NEW v \in Words, v # <<>>
  PROVE  \E b \in Arrows : /\ Tail(v) \in Words /\ Len(Tail(v)) = Len(v) - 1
                           /\ v = Cat(<<b>>, Tail(v)) /\ <<b>> \in Words /\ b = v[1]
<1>1. v \in Seq(Arrows) /\ Len(v) \in Nat /\ Len(v) # 0
  BY DEF Words
<1>2. 1 \in 1..Len(v) /\ Len(v) \in 1..Len(v)
  BY <1>1
<1>3. v[1] \in Arrows
  BY <1>2, ArrowEnds
<1>4. SubSeq(v, 1, Len(v)) = <<v[1]>> \o SubSeq(v, 1 + 1, Len(v))
  BY <1>1, <1>2, SubSeqRecursiveFirst
<1>5. SubSeq(v, 1, Len(v)) = v
  BY <1>1, SubSeqFull
<1>6. Tail(v) = SubSeq(v, 2, Len(v)) /\ 1 + 1 = 2
  BY <1>1, TailIsSubSeq
<1>7. v = Cat(<<v[1]>>, Tail(v))
  BY <1>4, <1>5, <1>6 DEF Cat
<1>8. Tail(v) \in Words /\ Len(Tail(v)) = Len(v) - 1
  BY <1>1, HeadTailProperties DEF Words
<1> QED
  BY <1>3, <1>7, <1>8, AppendWord

LEMMA PathGrows ==
  ASSUME NEW w \in Words, IsPath(w), NEW b \in Arrows, w # <<>> => Target[w[Len(w)]] = Source[b]
  PROVE  IsPath(Append(w, b))
<1> DEFINE w1 == Append(w, b)
<1>1. /\ Len(w) \in Nat /\ Len(w1) = Len(w) + 1 /\ w1[Len(w) + 1] = b
      /\ \A i \in 1..Len(w) : w1[i] = w[i]
  BY AppendWord, WordConcat
<1> HIDE DEF w1
<1>2. ASSUME NEW i \in 1..(Len(w1) - 1)
      PROVE  Target[w1[i]] = Source[w1[i + 1]]
  <2>1. i \in 1..Len(w) /\ w1[i] = w[i]
    BY <1>1
  <2>2. CASE i = Len(w)
    <3>1. w # <<>> /\ w1[i + 1] = b
      BY <1>1, <2>1, <2>2, WordConcat
    <3> QED
      BY <2>1, <2>2, <3>1
  <2>3. CASE i # Len(w)
    <3>1. i \in 1..(Len(w) - 1) /\ i + 1 \in 1..Len(w)
      BY <1>1, <2>1, <2>3
    <3>2. w1[i + 1] = w[i + 1]
      BY <1>1, <3>1
    <3> QED
      BY <2>1, <3>1, <3>2 DEF IsPath
  <2> QED
    BY <2>2, <2>3
<1> QED
  BY <1>2 DEF IsPath, w1

LEMMA EndsStep ==
  ASSUME NEW rs, IsSystem(rs), NEW w, NEW s, Ends(s, w, rs),
         NEW b \in Arrows, Source[b] = s[1], Irreducible(Append(s[2], b), rs)
  PROVE  Ends(<<Target[b], Window(Append(s[2], b), rs)>>, Append(w, b), rs)
<1> DEFINE q == s[2]
           r == Reach(rs)
           q1 == Append(q, b)
           w1 == Append(w, b)
<1>1. /\ w \in Words /\ IsPath(w) /\ q \in Words /\ Len(q) < r
      /\ w # <<>> => Target[w[Len(w)]] = Source[b]
      /\ \E p \in Words : w = Cat(p, q) /\ (p = <<>> \/ Len(q) = r - 1)
  BY DEF Ends, BasisPaths
<1>2. r \in Nat /\ Window(q1, rs) = IF Len(q1) < r THEN q1 ELSE Tail(q1)
  BY ReachFacts DEF Window, Reach
<1>3. w1 \in BasisPaths(rs)
  <2>1. IsPath(w1)
    BY <1>1, PathGrows
  <2>2. Irreducible(w1, rs)
    BY WindowDecides
  <2> QED
    BY <1>1, <2>1, <2>2, AppendWord DEF BasisPaths
<1> HIDE DEF q, r
<1>4. /\ q1 \in Words /\ w1 \in Words /\ Len(q1) = Len(q) + 1 /\ q1 # <<>> /\ Len(q) \in Nat
      /\ q1 = Cat(q, <<b>>) /\ w1 = Cat(w, <<b>>) /\ <<b>> \in Words
      /\ w1[Len(w1)] = b
  <2>1. Len(w1) = Len(w) + 1 /\ w1[Len(w) + 1] = b
    BY <1>1, AppendWord
  <2> QED
    BY <1>1, <2>1, AppendWord, WordConcat
<1>5. PICK p \in Words : w = Cat(p, q) /\ (p = <<>> \/ Len(q) = r - 1)
  BY <1>1
<1> HIDE DEF q1, w1
<1>6. w1 = Cat(p, q1)
  BY <1>1, <1>4, <1>5, CatFacts
<1>7. PICK x : x = Window(q1, rs)
  OBVIOUS
<1>8. x \in Words /\ Len(x) < r /\ \E y \in Words : w1 = Cat(y, x) /\ (y = <<>> \/ Len(x) = r - 1)
  <2>1. CASE Len(q1) < r
    <3>1. x = q1 /\ p = <<>>
      BY <1>1, <1>2, <1>4, <1>5, <1>7, <2>1
    <3> QED
      BY <1>4, <1>6, <2>1, <3>1
  <2>2. CASE ~(Len(q1) < r)
    <3>1. Len(q1) = r /\ x = Tail(q1)
      BY <1>1, <1>2, <1>4, <1>7, <2>2
    <3>2. PICK h \in Arrows :
                 /\ x \in Words /\ Len(x) = Len(q1) - 1
                 /\ q1 = Cat(<<h>>, x) /\ <<h>> \in Words
      BY <1>4, <3>1, FirstArrow
    <3>3. Cat(p, <<h>>) \in Words /\ w1 = Cat(Cat(p, <<h>>), x)
      BY <1>6, <3>2, CatFacts
    <3>4. Len(x) = r - 1 /\ Len(x) < r
      BY <1>2, <3>1, <3>2
    <3> QED
      BY <3>2, <3>3, <3>4
  <2> QED
    BY <2>1, <2>2
<1>9. PICK t : t = <<Target[b], x>>
  OBVIOUS
<1>10. t[1] = Target[b] /\ t[2] = x /\ t \in Vertices \X Words
  BY <1>8, <1>9, ArrowEnds
<1>11. Ends(t, w1, rs)
  BY <1>3, <1>4, <1>8, <1>10 DEF Ends, r
<1> QED
  BY <1>7, <1>9, <1>11 DEF q, q1, w1

LEMMA CatPlace ==
  ASSUME NEW p \in Words, NEW q \in Words, NEW i \in 1..Len(q)
  PROVE  Cat(p, q)[Len(p) + i] = q[i] /\ Len(p) + i \in 1..Len(Cat(p, q))
<1>1. Len(p) \in Nat /\ Len(q) \in Nat /\ Len(Cat(p, q)) = Len(p) + Len(q)
  BY CatFacts, WordConcat
<1>2. Len(p) + i \in 1..(Len(p) + Len(q)) /\ ~(Len(p) + i <= Len(p)) /\ (Len(p) + i) - Len(p) = i
  BY <1>1
<1>3. \A j \in 1..(Len(p) + Len(q)) : (p \o q)[j] = IF j <= Len(p) THEN p[j] ELSE q[j - Len(p)]
  BY ConcatProperties DEF Words
<1>4. (p \o q)[Len(p) + i] = q[(Len(p) + i) - Len(p)]
  BY <1>2, <1>3, Zenon
<1> QED
  BY <1>1, <1>2, <1>4 DEF Cat

\* The ends of walks are the states.
LEMMA EndIsState ==
  ASSUME NEW rs, IsSystem(rs), NEW w, NEW s, Ends(s, w, rs)
  PROVE  s \in States(rs)
<1> DEFINE q == s[2]
           r == Reach(rs)
<1>1. /\ w \in Words /\ IsPath(w) /\ Irreducible(w, rs) /\ q \in Words /\ Len(q) < r
      /\ s \in Vertices \X Words
      /\ w # <<>> => Target[w[Len(w)]] = s[1]
  BY DEF Ends, BasisPaths
<1>2. r \in Nat /\ Len(q) \in Nat /\ <<>> \in Words /\ Len(<<>>) = 0
  BY <1>1, ReachFacts, WordConcat
<1>3. PICK p \in Words : w = Cat(p, q)
  BY DEF Ends
<1> HIDE DEF q, r
<1>4. w = Cat(Cat(p, q), <<>>)
  BY <1>1, <1>3, CatNothing
<1>5. Irreducible(q, rs)
  BY <1>1, <1>2, <1>4, FactorIrreducible
<1>6. \A i \in 1..Len(q) : w[Len(p) + i] = q[i] /\ Len(p) + i \in 1..Len(w)
  BY <1>1, <1>3, CatPlace
<1>7. Len(w) = Len(p) + Len(q) /\ Len(p) \in Nat
  BY <1>1, <1>3, CatFacts
<1>8. ASSUME NEW i \in 1..(Len(q) - 1)
      PROVE  Target[q[i]] = Source[q[i + 1]]
  <2>1. i \in 1..Len(q) /\ i + 1 \in 1..Len(q)
    BY <1>2
  <2>2. w[Len(p) + i] = q[i] /\ w[Len(p) + (i + 1)] = q[i + 1]
    BY <1>6, <2>1
  <2>3. PICK j : j = Len(p) + i
    OBVIOUS
  <2>4. j \in 1..(Len(w) - 1) /\ j + 1 = Len(p) + (i + 1)
    BY <1>2, <1>7, <2>3
  <2>5. Target[w[j]] = Source[w[j + 1]]
    BY <1>1, <2>4 DEF IsPath
  <2> QED
    BY <2>2, <2>3, <2>4, <2>5
<1>9. q # <<>> => Target[q[Len(q)]] = s[1]
  <2> SUFFICES ASSUME q # <<>> PROVE Target[q[Len(q)]] = s[1]
    OBVIOUS
  <2>1. Len(q) \in 1..Len(q)
    <3>1. Len(q) # 0
      BY <1>1 DEF Words
    <3> QED
      BY <1>2, <3>1
  <2>2. w[Len(w)] = q[Len(q)] /\ Len(w) # 0
    BY <1>2, <1>6, <1>7, <2>1
  <2>3. w # <<>>
    BY <1>2, <2>2
  <2> QED
    BY <1>1, <2>2, <2>3
<1>10. q \in Paths(r - 1)
  <2>1. Len(q) \in 0..(r - 1) /\ q \in [1..Len(q) -> Arrows]
    BY <1>1, <1>2 DEF Words
  <2>2. PICK k : k = Len(q)
    OBVIOUS
  <2>3. k \in 0..(r - 1) /\ q \in [1..k -> Arrows]
    BY <2>1, <2>2
  <2>4. q \in UNION {[1..j -> Arrows] : j \in 0..(r - 1)}
    BY <2>3
  <2> QED
    BY <1>8, <2>4 DEF Paths
<1>11. (IF DOMAIN rs = {} THEN 0 ELSE Longest(rs) - 1) = r - 1
  BY DEF r, Reach
<1>12. s \in Vertices \X Paths(IF DOMAIN rs = {} THEN 0 ELSE Longest(rs) - 1)
  BY <1>1, <1>10, <1>11 DEF q
<1> QED
  BY <1>5, <1>9, <1>12 DEF States, q

LEMMA StateIsEnd ==
  ASSUME NEW rs, IsSystem(rs), NEW s \in States(rs)
  PROVE  Ends(s, s[2], rs)
<1> DEFINE q == s[2]
           r == Reach(rs)
<1>1. (IF DOMAIN rs = {} THEN 0 ELSE Longest(rs) - 1) = r - 1
  BY DEF Reach
<1>2. /\ s \in Vertices \X Paths(r - 1) /\ Irreducible(q, rs)
      /\ q # <<>> => Target[q[Len(q)]] = s[1]
  BY <1>1 DEF States
<1>3. r \in Nat /\ q \in Paths(r - 1) /\ s[1] \in Vertices
  BY <1>2, ReachFacts
<1> HIDE DEF r
<1>4. PICK k \in 0..(r - 1) : q \in [1..k -> Arrows]
  BY <1>3 DEF Paths
<1>5. q \in Words /\ Len(q) = k /\ k < r
  BY <1>3, <1>4 DEF Words
<1>6. IsPath(q)
  BY <1>3 DEF Paths, IsPath
<1>7. <<>> \in Words /\ q = Cat(<<>>, q)
  BY <1>5, CatNothing
<1>8. q \in BasisPaths(rs) /\ s \in Vertices \X Words
  BY <1>2, <1>5, <1>6 DEF BasisPaths
<1> QED
  BY <1>2, <1>5, <1>7, <1>8 DEF Ends, r


\* The states of B with a move into B.
Onward(B, rs) == {s \in B : Moves(s, rs) \cap B # {}}

IsGoOn(f, n, rs) == f = [k \in 0..n |-> IF k = 0 THEN States(rs) ELSE Onward(f[k - 1], rs)]

LEMMA GoOnExists ==
  ASSUME NEW rs, NEW n \in Nat
  PROVE  \E f : IsGoOn(f, n, rs)
<1> DEFINE Bad == {i \in Nat : ~\E f : IsGoOn(f, i, rs)}
<1>1. SUFFICES ASSUME Bad # {} PROVE FALSE
  OBVIOUS
<1>2. PICK m \in Bad : \A i \in Bad : m <= i
  <2>1. Bad \in SUBSET Nat
    OBVIOUS
  <2> HIDE DEF Bad
  <2> QED
    BY <1>1, <2>1, LeastNumber
<1>3. m \in Nat /\ ~\E f : IsGoOn(f, m, rs)
  OBVIOUS
<1>4. CASE m = 0
  <2> DEFINE f == [k \in 0..0 |-> States(rs)]
  <2>1. f = [k \in 0..0 |-> IF k = 0 THEN States(rs) ELSE Onward(f[k - 1], rs)]
    OBVIOUS
  <2>2. IsGoOn(f, 0, rs)
    BY <2>1 DEF IsGoOn
  <2> QED
    BY <1>3, <1>4, <2>2
<1>5. CASE m > 0
  <2>1. m - 1 \in Nat /\ m - 1 \notin Bad
    <3>1. m - 1 \in Nat /\ ~(m <= m - 1)
      BY <1>3, <1>5
    <3> HIDE DEF Bad
    <3> QED
      BY <1>2, <3>1
  <2>2. PICK f : IsGoOn(f, m - 1, rs)
    BY <2>1
  <2> DEFINE g == [k \in 0..m |-> IF k = m THEN Onward(f[m - 1], rs) ELSE f[k]]
  <2>3. ASSUME NEW k \in 0..m
        PROVE  g[k] = IF k = 0 THEN States(rs) ELSE Onward(g[k - 1], rs)
    <3>1. CASE k = m
      <4>1. m - 1 \in 0..m /\ m - 1 # m
        BY <2>1
      <4>2. g[m - 1] = f[m - 1] /\ g[m] = Onward(f[m - 1], rs)
        BY <1>3, <4>1
      <4> QED
        BY <1>5, <3>1, <4>2
    <3>2. CASE k # m
      <4>1. k \in 0..(m - 1)
        BY <1>3, <3>2
      <4>2. g[k] = f[k]
        BY <3>2
      <4>3. f[k] = IF k = 0 THEN States(rs) ELSE Onward(f[k - 1], rs)
        <5>1. f = [i \in 0..(m - 1) |-> IF i = 0 THEN States(rs) ELSE Onward(f[i - 1], rs)]
          BY <2>2 DEF IsGoOn
        <5> HIDE DEF g
        <5> QED
          BY <4>1, <5>1
      <4>4. k # 0 => g[k - 1] = f[k - 1]
        <5>1. k # 0 => k - 1 \in 0..m /\ k - 1 # m
          BY <1>3, <4>1
        <5> QED
          BY <5>1
      <4> HIDE DEF g
      <4> QED
        BY <4>2, <4>3, <4>4
    <3> QED
      BY <3>1, <3>2
  <2>4. g = [k \in 0..m |-> g[k]]
    OBVIOUS
  <2> HIDE DEF g
  <2>5. g = [k \in 0..m |-> IF k = 0 THEN States(rs) ELSE Onward(g[k - 1], rs)]
    BY <2>3, <2>4
  <2>6. IsGoOn(g, m, rs)
    BY <2>5 DEF IsGoOn
  <2> QED
    BY <1>3, <2>6
<1> QED
  BY <1>3, <1>4, <1>5

LEMMA StatesAreFinite ==
  ASSUME NEW rs, IsSystem(rs)
  PROVE  IsFiniteSet(States(rs)) /\ Cardinality(States(rs)) \in Nat
<1> DEFINE n == IF DOMAIN rs = {} THEN 0 ELSE Longest(rs) - 1
<1>1. n \in Nat
  <2>1. n = Reach(rs) - 1
    BY DEF Reach
  <2> QED
    BY <2>1, ReachFacts
<1> HIDE DEF n
<1>2. Paths(n) \subseteq UpTo(n)
  BY DEF Paths, UpTo
<1>3. IsFiniteSet(Paths(n))
  BY <1>1, <1>2, UpToIsFinite, FS_Subset
<1>4. IsFiniteSet(Vertices \X Paths(n))
  BY <1>3, QuiverAssumption, FS_Product
<1>5. States(rs) \subseteq Vertices \X Paths(n)
  BY DEF States, n
<1>6. IsFiniteSet(States(rs))
  BY <1>4, <1>5, FS_Subset
<1> QED
  BY <1>6, FS_CardinalityType

LEMMA GoOnMeans ==
  ASSUME NEW rs, IsSystem(rs)
  PROVE  /\ GoOn(rs)[0] = States(rs)
         /\ \A k \in 1..Cardinality(States(rs)) : GoOn(rs)[k] = Onward(GoOn(rs)[k - 1], rs)
<1> DEFINE N == Cardinality(States(rs))
           live[k \in 0..N] ==
               IF k = 0 THEN States(rs)
               ELSE LET before == live[k - 1] IN {s \in before : Moves(s, rs) \cap before # {}}
<1>1. N \in Nat
  BY StatesAreFinite
<1>2. GoOn(rs) = live
  BY DEF GoOn
<1>3. live = [k \in 0..N |-> IF k = 0 THEN States(rs) ELSE Onward(live[k - 1], rs)]
  <2>1. \E f : f = [k \in 0..N |->
                      IF k = 0 THEN States(rs)
                      ELSE LET before == f[k - 1] IN {s \in before : Moves(s, rs) \cap before # {}}]
    <3>1. \E f : IsGoOn(f, N, rs)
      BY <1>1, GoOnExists
    <3> HIDE DEF N
    <3> QED
      BY <3>1 DEF IsGoOn, Onward
  <2> HIDE DEF N
  <2>2. live = [k \in 0..N |->
                  IF k = 0 THEN States(rs)
                  ELSE LET before == live[k - 1] IN {s \in before : Moves(s, rs) \cap before # {}}]
    BY <2>1
  <2> HIDE DEF live
  <2> QED
    BY <2>2 DEF Onward
<1> HIDE DEF live, N
<1>4. live[0] = States(rs)
  BY <1>1, <1>3
<1>5. \A k \in 1..N : live[k] = Onward(live[k - 1], rs)
  BY <1>1, <1>3
<1> QED
  BY <1>2, <1>4, <1>5 DEF N


\* A walk that has read u and is to read v.
Goes(s, u, v, rs) ==
    /\ u \in Words /\ v \in Words /\ Cat(u, v) \in BasisPaths(rs)
    /\ Ends(s, u, rs)
    /\ v # <<>> => Source[v[1]] = s[1]

LEMMA GoesOn ==
  ASSUME NEW rs, IsSystem(rs), NEW s, NEW u, NEW v, Goes(s, u, v, rs), v # <<>>
  PROVE  \E t \in Moves(s, rs) : \E x \in Words : Goes(t, x, Tail(v), rs)
<1> DEFINE y == Tail(v)
           w == Cat(u, v)
<1>1. /\ u \in Words /\ v \in Words /\ w \in Words /\ IsPath(w) /\ Irreducible(w, rs)
      /\ Ends(s, u, rs) /\ Source[v[1]] = s[1]
  BY DEF Goes, BasisPaths
<1>2. PICK b \in Arrows : /\ y \in Words /\ Len(y) = Len(v) - 1
                          /\ v = Cat(<<b>>, y) /\ <<b>> \in Words /\ b = v[1]
  BY <1>1, FirstArrow
<1> DEFINE x == Append(u, b)
           t == <<Target[b], Window(Append(s[2], b), rs)>>
<1>3. x \in Words /\ x = Cat(u, <<b>>) /\ Len(x) = Len(u) + 1 /\ <<>> \in Words
  BY <1>1, <1>2, AppendWord, WordConcat, ZenonT(40)
<1>4. w = Cat(x, y) /\ w = Cat(Cat(<<>>, x), y)
  <2> HIDE DEF x, y
  <2>1. Cat(u, Cat(<<b>>, y)) = Cat(Cat(u, <<b>>), y)
    BY <1>1, <1>2, CatFacts
  <2>2. Cat(<<>>, x) = x
    BY <1>3, CatNothing
  <2> QED
    BY <1>2, <1>3, <2>1, <2>2
<1>5. Irreducible(Append(s[2], b), rs)
  <2>1. Irreducible(x, rs)
    <3> HIDE DEF x, y, w
    <3> QED
      BY <1>1, <1>2, <1>3, <1>4, FactorIrreducible
  <2> QED
    BY <1>1, <2>1, WindowDecides
<1>6. Ends(t, x, rs)
  BY <1>1, <1>2, <1>5, EndsStep
<1>7. t \in Moves(s, rs)
  BY <1>1, <1>2, <1>5 DEF Moves
<1>8. y # <<>> => Source[y[1]] = t[1]
  <2> SUFFICES ASSUME y # <<>> PROVE Source[y[1]] = Target[b]
    OBVIOUS
  <2> HIDE DEF x, y, w
  <2>1. Len(y) \in Nat /\ Len(y) # 0 /\ Len(u) \in Nat /\ Len(w) = Len(x) + Len(y)
    <3>1. Len(y) \in Nat /\ Len(y) # 0 /\ Len(u) \in Nat
      BY <1>1, <1>2 DEF Words
    <3>2. Len(Cat(x, y)) = Len(x) + Len(y)
      BY <1>2, <1>3, CatFacts
    <3> QED
      BY <1>4, <3>1, <3>2
  <2>2. w[Len(x) + 1] = y[1]
    <3>1. 1 \in 1..Len(y)
      BY <2>1
    <3>2. Cat(x, y)[Len(x) + 1] = y[1]
      BY <1>2, <1>3, <3>1, CatPlace
    <3> QED
      BY <1>4, <3>2
  <2>3. w[Len(u) + 1] = b
    <3>1. 1 \in 1..Len(v)
      BY <1>1, <1>2, <2>1, WordConcat
    <3> QED
      BY <1>1, <1>2, <3>1, CatPlace DEF w
  <2>4. PICK i : i = Len(u) + 1
    OBVIOUS
  <2>5. i \in 1..(Len(w) - 1) /\ i + 1 = Len(x) + 1
    BY <1>3, <2>1, <2>4
  <2>6. Target[w[i]] = Source[w[i + 1]]
    BY <1>1, <2>5 DEF IsPath
  <2> QED
    BY <2>2, <2>3, <2>4, <2>5, <2>6
<1>9. Goes(t, x, y, rs)
  <2>1. Cat(x, y) \in BasisPaths(rs)
    BY <1>4 DEF Goes
  <2> HIDE DEF x, y, w, t
  <2> QED
    BY <1>2, <1>3, <1>6, <1>8, <2>1 DEF Goes
<1> QED
  BY <1>3, <1>7, <1>9

\* Where k arrows are left to read the walk goes on for k steps.
LEMMA WalkGoesOn ==
  ASSUME NEW rs, IsSystem(rs), NEW k \in 0..Cardinality(States(rs)),
         NEW s, NEW u, NEW v, Goes(s, u, v, rs), Len(v) >= k
  PROVE  s \in GoOn(rs)[k]
<1> DEFINE N == Cardinality(States(rs))
           Fails(i) == \E z, a, c : Goes(z, a, c, rs) /\ Len(c) >= i /\ z \notin GoOn(rs)[i]
           Bad == {i \in 0..N : Fails(i)}
<1>1. SUFFICES Bad = {}
  OBVIOUS
<1>2. SUFFICES ASSUME Bad # {} PROVE FALSE
  OBVIOUS
<1>3. N \in Nat
  BY StatesAreFinite
<1>4. GoOn(rs)[0] = States(rs) /\ \A i \in 1..N : GoOn(rs)[i] = Onward(GoOn(rs)[i - 1], rs)
  BY GoOnMeans
<1> HIDE DEF N
<1>5. PICK m \in Bad : \A i \in Bad : m <= i
  <2>1. Bad \in SUBSET Nat
    BY <1>3
  <2> HIDE DEF Bad
  <2> QED
    BY <1>2, <2>1, LeastNumber
<1>6. m \in 0..N /\ Fails(m)
  OBVIOUS
<1>7. PICK z, a, c : Goes(z, a, c, rs) /\ Len(c) >= m /\ z \notin GoOn(rs)[m]
  BY <1>6
<1>8. c \in Words /\ Len(c) \in Nat /\ Ends(z, a, rs)
  BY <1>7 DEF Goes, Words
<1>9. CASE m = 0
  BY <1>4, <1>7, <1>8, <1>9, EndIsState
<1>10. CASE m # 0
  <2>1. m \in 1..N /\ m - 1 \in 0..N /\ m - 1 \notin Bad
    BY <1>3, <1>5, <1>6, <1>10
  <2>2. \A x, y, d : Goes(x, y, d, rs) /\ Len(d) >= m - 1 => x \in GoOn(rs)[m - 1]
    BY <2>1
  <2>3. z \in GoOn(rs)[m - 1]
    BY <1>3, <1>7, <1>8, <2>1, <2>2
  <2>4. c # <<>>
    BY <1>3, <1>7, <1>8, <1>10, <2>1
  <2>5. PICK t \in Moves(z, rs), x \in Words : Goes(t, x, Tail(c), rs)
    BY <1>7, <2>4, GoesOn
  <2>6. Len(Tail(c)) = Len(c) - 1
    BY <1>8, <2>4, FirstArrow
  <2>7. t \in GoOn(rs)[m - 1]
    <3>1. Len(Tail(c)) >= m - 1
      BY <1>3, <1>7, <1>8, <2>1, <2>6
    <3> QED
      BY <2>2, <2>5, <3>1
  <2>8. z \in Onward(GoOn(rs)[m - 1], rs)
    BY <2>3, <2>5, <2>7 DEF Onward
  <2> QED
    BY <1>4, <1>7, <2>1, <2>8
<1> QED
  BY <1>9, <1>10

\* No walk of as many steps as there are states: no longer word either.
LEMMA FiniteIfCertified ==
  ASSUME NEW rs, IsSystem(rs), FiniteBasis(rs)
  PROVE  IsFiniteSet(BasisPaths(rs))
<1> DEFINE N == Cardinality(States(rs))
<1>1. N \in Nat /\ GoOn(rs)[N] = {}
  BY StatesAreFinite DEF FiniteBasis
<1>2. ASSUME NEW w \in BasisPaths(rs), ~(Len(w) <= N) PROVE FALSE
  <2>1. w \in Words /\ Irreducible(w, rs) /\ <<>> \in Words /\ Len(<<>>) = 0 /\ Len(w) \in Nat
    BY WordConcat DEF BasisPaths
  <2>2. w # <<>> /\ 1 \in 1..Len(w)
    BY <1>1, <1>2, <2>1
  <2>3. w = Cat(<<>>, w) /\ w = Cat(Cat(<<>>, <<>>), w) /\ Cat(<<>>, <<>>) = <<>>
    BY <2>1, CatNothing
  <2>4. PICK s : s = <<Source[w[1]], <<>>>>
    OBVIOUS
  <2>5. s \in Vertices \X Words /\ s[1] = Source[w[1]] /\ s[2] = <<>>
    BY <2>1, <2>2, <2>4, ArrowEnds
  <2>6. <<>> \in BasisPaths(rs)
    <3>1. Irreducible(<<>>, rs)
      BY <2>1, <2>3, FactorIrreducible
    <3>2. IsPath(<<>>)
      BY <2>1 DEF IsPath
    <3> QED
      BY <2>1, <3>1, <3>2 DEF BasisPaths
  <2>7. Reach(rs) \in Nat \ {0}
    BY ReachFacts
  <2>8. Ends(s, <<>>, rs)
    BY <2>1, <2>3, <2>5, <2>6, <2>7 DEF Ends
  <2>9. Goes(s, <<>>, w, rs)
    BY <2>1, <2>3, <2>5, <2>8 DEF Goes
  <2>10. N \in 0..N /\ Len(w) >= N
    BY <1>1, <1>2, <2>1
  <2>11. s \in GoOn(rs)[N]
    <3> HIDE DEF N
    <3>1. N \in 0..Cardinality(States(rs))
      BY <2>10 DEF N
    <3> QED
      BY <2>9, <2>10, <3>1, WalkGoesOn
  <2> QED
    BY <1>1, <2>11
<1>3. BasisPaths(rs) \subseteq UpTo(N)
  BY <1>1, <1>2, ShortWord DEF BasisPaths
<1> QED
  BY <1>1, <1>3, UpToIsFinite, FS_Subset


\* If a walk of that many steps goes on, some states are never left.
LEMMA SomeGoOn ==
  ASSUME NEW rs, IsSystem(rs), ~FiniteBasis(rs)
  PROVE  \E F \in SUBSET States(rs) : F # {} /\ Onward(F, rs) = F
<1> DEFINE N == Cardinality(States(rs))
           G(k) == GoOn(rs)[k]
<1>1. N \in Nat /\ IsFiniteSet(States(rs)) /\ G(N) # {}
  BY StatesAreFinite DEF FiniteBasis
<1>2. G(0) = States(rs) /\ \A k \in 1..N : G(k) = Onward(G(k - 1), rs)
  BY GoOnMeans
<1>3. \A k \in 1..N : G(k) \subseteq G(k - 1)
  BY <1>2 DEF Onward
<1>a. N = Cardinality(States(rs))
  OBVIOUS
<1> HIDE DEF N, G
\* They only become fewer.
<1>4. \A i, k \in 0..N : i <= k => G(k) \subseteq G(i)
  <2> SUFFICES ASSUME NEW i \in 0..N PROVE \A k \in 0..N : i <= k => G(k) \subseteq G(i)
    OBVIOUS
  <2> DEFINE Bad == {k \in 0..N : i <= k /\ ~(G(k) \subseteq G(i))}
  <2>1. SUFFICES ASSUME Bad # {} PROVE FALSE
    OBVIOUS
  <2>2. PICK m \in Bad : \A k \in Bad : m <= k
    <3>1. Bad \in SUBSET Nat
      BY <1>1
    <3> HIDE DEF Bad
    <3> QED
      BY <2>1, <3>1, LeastNumber
  <2>3. m \in 0..N /\ i <= m /\ ~(G(m) \subseteq G(i))
    OBVIOUS
  <2>4. m # i
    BY <2>3
  <2>5. m \in 1..N /\ m - 1 \in 0..N /\ i <= m - 1 /\ m - 1 \notin Bad
    BY <1>1, <2>2, <2>3, <2>4
  <2> QED
    BY <1>3, <2>3, <2>5
\* They cannot become fewer as often as there are states.
<1>5. \E k \in 1..N : G(k) = G(k - 1)
  <2> SUFFICES ASSUME \A k \in 1..N : G(k) # G(k - 1) PROVE FALSE
    OBVIOUS
  <2>1. \A k \in 0..N : IsFiniteSet(G(k)) /\ Cardinality(G(k)) \in Nat
    <3>1. \A k \in 0..N : G(k) \subseteq States(rs)
      BY <1>1, <1>2, <1>4
    <3> QED
      BY <1>1, <3>1, FS_Subset, FS_CardinalityType
  <2> DEFINE Bad == {k \in 0..N : ~(Cardinality(G(k)) <= N - k)}
  <2>2. CASE Bad = {}
    <3>1. N \in 0..N
      BY <1>1
    <3>2. Cardinality(G(N)) <= N - N
      BY <2>2, <3>1
    <3>3. Cardinality(G(N)) = 0
      BY <1>1, <2>1, <3>1, <3>2
    <3> QED
      BY <1>1, <2>1, <3>1, <3>3, FS_EmptySet
  <2>3. CASE Bad # {}
    <3>1. PICK m \in Bad : \A k \in Bad : m <= k
      <4>1. Bad \in SUBSET Nat
        BY <1>1
      <4> HIDE DEF Bad
      <4> QED
        BY <2>3, <4>1, LeastNumber
    <3>2. m \in 0..N /\ ~(Cardinality(G(m)) <= N - m)
      OBVIOUS
    <3>3. m # 0
      BY <1>a, <1>1, <1>2, <3>2
    <3>4. m \in 1..N /\ m - 1 \in 0..N /\ m - 1 \notin Bad
      BY <1>1, <3>1, <3>2, <3>3
    <3>5. Cardinality(G(m - 1)) <= N - (m - 1)
      BY <3>4
    <3>6. G(m) \in SUBSET G(m - 1) /\ G(m - 1) # G(m)
      BY <1>3, <3>4
    <3>7. IsFiniteSet(G(m - 1))
      BY <2>1, <3>4
    <3>8. Cardinality(G(m)) <= Cardinality(G(m - 1)) /\ Cardinality(G(m)) # Cardinality(G(m - 1))
      BY <3>6, <3>7, FS_Subset
    <3>9. Cardinality(G(m)) \in Nat /\ Cardinality(G(m - 1)) \in Nat /\ m \in Nat
      BY <1>1, <2>1, <3>2, <3>4
    <3> HIDE DEF Bad
    <3> QED
      BY <1>1, <3>2, <3>5, <3>8, <3>9
  <2> QED
    BY <2>2, <2>3
<1>6. PICK k \in 1..N : G(k) = G(k - 1)
  BY <1>5
<1>7. k - 1 \in 0..N /\ k \in 0..N /\ N \in 0..N /\ 0 \in 0..N /\ k <= N /\ 0 <= k
  BY <1>1
<1>8. G(k) \subseteq States(rs) /\ G(k) # {}
  BY <1>1, <1>2, <1>4, <1>7
<1>9. Onward(G(k), rs) = G(k)
  BY <1>2, <1>6
<1> QED
  BY <1>8, <1>9

\* From there a walk goes on for ever.
LEMMA LongWalks ==
  ASSUME NEW rs, IsSystem(rs), NEW F \in SUBSET States(rs), F # {}, Onward(F, rs) = F, NEW n \in Nat
  PROVE  \E s \in F : \E w \in Words : Ends(s, w, rs) /\ Len(w) >= n
<1> DEFINE Long(i) == \E s \in F : \E w \in Words : Ends(s, w, rs) /\ Len(w) >= i
           Bad == {i \in Nat : ~Long(i)}
<1>1. SUFFICES ASSUME Bad # {} PROVE FALSE
  OBVIOUS
<1>2. PICK m \in Bad : \A i \in Bad : m <= i
  <2>1. Bad \in SUBSET Nat
    OBVIOUS
  <2> HIDE DEF Bad
  <2> QED
    BY <1>1, <2>1, LeastNumber
<1>3. m \in Nat /\ ~Long(m)
  OBVIOUS
<1>4. CASE m = 0
  <2>1. PICK s \in F : s \in States(rs)
    OBVIOUS
  <2>2. Ends(s, s[2], rs)
    BY <2>1, StateIsEnd
  <2>3. s[2] \in Words /\ Len(s[2]) >= 0
    BY <2>2, WordConcat DEF Ends, BasisPaths
  <2> QED
    BY <1>3, <1>4, <2>2, <2>3
<1>5. CASE m # 0
  <2>1. m - 1 \in Nat /\ m - 1 \notin Bad
    <3>1. m - 1 \in Nat /\ ~(m <= m - 1)
      BY <1>3, <1>5
    <3> HIDE DEF Bad
    <3> QED
      BY <1>2, <3>1
  <2>2. PICK s \in F, w \in Words : Ends(s, w, rs) /\ Len(w) >= m - 1
    BY <2>1
  <2>3. PICK t \in F : t \in Moves(s, rs)
    BY DEF Onward
  <2>4. PICK b \in Arrows : /\ Source[b] = s[1] /\ Irreducible(Append(s[2], b), rs)
                            /\ t = <<Target[b], Window(Append(s[2], b), rs)>>
    BY <2>3 DEF Moves
  <2>5. Ends(t, Append(w, b), rs)
    BY <2>2, <2>4, EndsStep
  <2>6. Append(w, b) \in Words /\ Len(Append(w, b)) = Len(w) + 1 /\ Len(w) \in Nat
    BY AppendWord, WordConcat
  <2>7. Len(Append(w, b)) >= m
    BY <1>3, <2>2, <2>6
  <2> QED
    BY <1>3, <2>5, <2>6, <2>7
<1> QED
  BY <1>4, <1>5

\* The automaton decides: irreducible_paths raises its error just when there are
\* infinitely many (core/monomial.py:4, "Finiteness is decided by a suffix-window
\* automaton"), for any rules.
THEOREM FiniteBasisDecides ==
  ASSUME NEW rs, IsSystem(rs)
  PROVE  FiniteBasis(rs) <=> IsFiniteSet(BasisPaths(rs))
<1>1. ASSUME FiniteBasis(rs) PROVE IsFiniteSet(BasisPaths(rs))
  BY <1>1, FiniteIfCertified
<1>2. ASSUME ~FiniteBasis(rs), IsFiniteSet(BasisPaths(rs)) PROVE FALSE
  <2>1. PICK F \in SUBSET States(rs) : F # {} /\ Onward(F, rs) = F
    BY <1>2, SomeGoOn
  <2>2. \A n \in Nat : \E w \in BasisPaths(rs) : Len(w) >= n
    <3> SUFFICES ASSUME NEW n \in Nat PROVE \E w \in BasisPaths(rs) : Len(w) >= n
      OBVIOUS
    <3>1. PICK s \in F, w \in Words : Ends(s, w, rs) /\ Len(w) >= n
      BY <2>1, LongWalks
    <3> QED
      BY <3>1 DEF Ends
  <2>3. BasisPaths(rs) \in SUBSET Seq(Nat) /\ \A w \in BasisPaths(rs) : Len(w) \in Nat
    BY WordFacts, WordConcat DEF BasisPaths
  <2>4. BasisPaths(rs) # {}
    BY <2>2
  <2>5. PICK w \in BasisPaths(rs) : \A v \in BasisPaths(rs) : ~Less(w, v)
    BY <1>2, <2>3, <2>4, FiniteHasLargest
  <2>6. Len(w) \in Nat /\ Len(w) + 1 \in Nat
    BY <2>3
  <2>7. PICK v \in BasisPaths(rs) : Len(v) >= Len(w) + 1
    BY <2>2, <2>6
  <2>8. Len(w) < Len(v)
    BY <2>3, <2>6, <2>7
  <2> QED
    BY <2>5, <2>8 DEF Less
<1> QED
  BY <1>1, <1>2

\* A certified algebra has a finite basis (certificate.py:8, "finitely many ->
\* certified finite-dimensional"): the irreducible paths are finitely many.
THEOREM CertifiedIsFinite == Spec => [](pc = "certified" => IsFiniteSet(BasisPaths(rules)))
<1> DEFINE Finite == pc = "certified" => IsFiniteSet(BasisPaths(rules))
<1>1. Init => Finite
  BY DEF Init
<1>2. IInv /\ Finite /\ [Next]_vars => Finite'
  <2> SUFFICES ASSUME IInv, Finite, [Next]_vars, pc' = "certified"
               PROVE  IsFiniteSet(BasisPaths(rules))'
    OBVIOUS
  <2>1. CASE Certify
    <3>1. rules' = rules /\ FiniteBasis(rules)
      BY <2>1 DEF Certify, Stop
    <3>2. IsFiniteSet(BasisPaths(rules))
      BY <3>1, SystemFacts, FiniteBasisDecides
    <3>3. BasisPaths(rules') = BasisPaths(rules)
      BY <3>1
    <3> QED
      BY <3>2, <3>3
  <2>2. CASE ~Certify
    <3>1. UNCHANGED vars
      BY <2>2 DEF Next, RefuseRelation, Orient, Compare, Reduce, Resolve, Extend, CleanUp, Stop
    <3>2. pc = "certified" /\ BasisPaths(rules') = BasisPaths(rules)
      BY <3>1 DEF vars
    <3> QED
      BY <3>2
  <2> QED
    BY <2>1, <2>2
<1> QED
  BY <1>1, <1>2, CompletionInvariant, PTL DEF Spec

=============================================================================
