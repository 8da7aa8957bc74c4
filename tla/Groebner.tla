------------------------------ MODULE Groebner ------------------------------
(***************************************************************************)
(* Presenting an algebra kQ/I (src/src/quiverlab/groebner): the relations  *)
(* become rewriting rules, Buchberger-Mora completion adds a rule for each *)
(* ambiguity that does not resolve, the leading words are cleaned up, and  *)
(* a certificate accepts the rules or refuses them.                        *)
(*                                                                         *)
(* A word is the sequence of the ranks of its arrows, read left to right.  *)
(* An element of kQ is a function from its words to nonzero coefficients;  *)
(* the field is GF(P).  What the user typed is data: Presentations holds   *)
(* the lists of relations, with their coefficients not yet reduced, and    *)
(* the degree bounds tried.                                                *)
(***************************************************************************)
EXTENDS Integers, Sequences, FiniteSets

CONSTANTS P,              \* a prime: coefficients are 0..P-1
          Vertices,
          Source, Target, \* of each arrow; the arrows are 1, 2, ...
          Presentations,  \* records [rels, bound]
          MaxRules        \* max_rules

Arrows == DOMAIN Source
Words  == Seq(Arrows)

IsList(f) == f \in Seq({f[k] : k \in DOMAIN f})

ASSUME GroebnerAssumption ==
    /\ P \in Nat \ {0, 1}
    /\ \A c \in 1..(P - 1) : \E k \in 1..(P - 1) : (k * c) % P = 1
    /\ Source \in Seq(Vertices) /\ Target \in Seq(Vertices)
    /\ Len(Source) = Len(Target)
    /\ MaxRules \in Nat
    /\ \A p \in Presentations :
          /\ p.bound \in Nat
          /\ IsList(p.rels)
          /\ \A k \in DOMAIN p.rels : LET rel == p.rels[k] IN
                /\ IsFiniteSet(DOMAIN rel) /\ DOMAIN rel \subseteq Words
                /\ \A w \in DOMAIN rel : rel[w] \in Int

ASSUME QuiverAssumption == IsFiniteSet(Vertices)

VARIABLES input,    \* the presentation
          pc,       \* "parsed", "completing", "reducing", "cleaned", "certified", "refused"
          rules,    \* records [lead, tail], in the order they were made
          todo,     \* the ambiguities this pass has yet to look at
          work      \* the element being reduced

vars == <<input, pc, rules, todo, work>>

-----------------------------------------------------------------------------
(* The order on words and the arithmetic of elements. *)

Less(u, v) ==
    \/ Len(u) < Len(v)
    \/ /\ Len(u) = Len(v)
       /\ \E i \in DOMAIN u : u[i] < v[i] /\ \A j \in 1..(i - 1) : u[j] = v[j]

Largest(words)  == CHOOSE w \in words : \A v \in words : ~Less(w, v)
Smallest(words) == CHOOSE w \in words : \A v \in words : ~Less(v, w)

\* Mutant of Leading: the smallest word leads.
Trailing(c) == Smallest(DOMAIN c)

Leading(c) == Largest(DOMAIN c)

Zero == [w \in {} |-> 0]

Coeff(c, w) == IF w \in DOMAIN c THEN c[w] ELSE 0

\* The element with the coefficients C(w), w \in words.
Element(words, C(_)) == [w \in {v \in words : C(v) % P # 0} |-> C(w) % P]

LcAdd(a, b)   == Element(DOMAIN a \cup DOMAIN b, LAMBDA w : Coeff(a, w) + Coeff(b, w))
LcSub(a, b)   == Element(DOMAIN a \cup DOMAIN b, LAMBDA w : Coeff(a, w) - Coeff(b, w))
Scale(k, a)   == Element(DOMAIN a, LAMBDA w : k * a[w])
Without(a, w) == [v \in DOMAIN a \ {w} |-> a[v]]

\* prefix * c * suffix
InContext(u, c, v) ==
    [w \in {u \o t \o v : t \in DOMAIN c} |-> c[SubSeq(w, Len(u) + 1, Len(w) - Len(v))]]

\* lead -> tail, where tail = -(c - LC lead) / LC.
RuleFromComb(c) ==
    LET lead == Leading(c)
        inv  == CHOOSE k \in 1..(P - 1) : (k * c[lead]) % P = 1
    IN  [lead |-> lead, tail |-> Scale(-inv, Without(c, lead))]

-----------------------------------------------------------------------------
(* Reduction. *)

\* Where f occurs in w: the number of arrows before it.
Occurrences(f, w) == {i \in 0..(Len(w) - Len(f)) : SubSeq(w, i + 1, i + Len(f)) = f}

\* The places where a rule applies to w, each with the rule.
Matches(w, rs) == {m \in (0..Len(w)) \X (DOMAIN rs) : m[1] \in Occurrences(rs[m[2]].lead, w)}

Irreducible(w, rs) == Matches(w, rs) = {}

Reducible(c, rs) == {w \in DOMAIN c : ~Irreducible(w, rs)}

\* Leftmost, then the first such rule.
FirstFactor(w, rs) == Smallest(Matches(w, rs))

\* One rewriting of w, which occurs in c, at the match m.
Rewrite(c, w, rs, m) ==
    LET rule == rs[m[2]]
        u    == SubSeq(w, 1, m[1])
        v    == SubSeq(w, m[1] + Len(rule.lead) + 1, Len(w))
    IN  LcAdd(Without(c, w), Scale(c[w], InContext(u, rule.tail, v)))

\* The largest reducible word is rewritten first.
ReduceOnce(c, rs) ==
    LET w == Largest(Reducible(c, rs)) IN Rewrite(c, w, rs, FirstFactor(w, rs))

-----------------------------------------------------------------------------
(* Ambiguities, and completion. *)

\* Mutant of Fits: one arrow more.
AlmostFits(length, bound) == length <= bound + 1

Fits(length, bound) == length <= bound

\* The lengths of the suffixes of w1 that are prefixes of w2, shorter than both.
Overlaps(w1, w2, bound) ==
    {b \in 1..(Len(w1) - 1) :
        /\ b < Len(w2)
        /\ SubSeq(w1, Len(w1) - b + 1, Len(w1)) = SubSeq(w2, 1, b)
        /\ Fits(Len(w1) + Len(w2) - b, bound)}

\* Mutant of Inclusions: a lead inside another one is no ambiguity.
NoInclusions(outer, inner, bound) == {}

\* The places where inner is a proper factor of outer.
Inclusions(outer, inner, bound) ==
    {i \in Occurrences(inner, outer) : Len(inner) < Len(outer) /\ Fits(Len(outer), bound)}

\* An ambiguity names its left or outer rule, its right or inner rule, its kind
\* and its place: all_ambiguities lists them in the order of Less.
Overlap   == 0
Inclusion == 1

AllAmbiguities(rs, bound) ==
    LET Of(n, m) == {<<n, m, Overlap, b>> : b \in Overlaps(rs[n].lead, rs[m].lead, bound)}
                      \cup {<<n, m, Inclusion, i>> :
                               i \in Inclusions(rs[n].lead, rs[m].lead, bound)}
    IN  UNION {Of(n, m) : n, m \in DOMAIN rs}

\* The two ways to rewrite the word of the ambiguity, compared.
SPolynomial(amb, rs) ==
    LET left  == rs[amb[1]]
        right == rs[amb[2]]
        at    == amb[4]
    IN  IF amb[3] = Overlap
          THEN LcSub(InContext(<<>>, left.tail, SubSeq(right.lead, at + 1, Len(right.lead))),
                     InContext(SubSeq(left.lead, 1, Len(left.lead) - at), right.tail, <<>>))
          ELSE LcSub(left.tail,
                     InContext(SubSeq(left.lead, 1, at), right.tail,
                               SubSeq(left.lead, at + Len(right.lead) + 1, Len(left.lead))))

\* The rules whose lead holds no other lead as a proper factor, the first of
\* those with the same lead.
MinimizeLeads(rs) ==
    LET Repeats(n) == \E m \in DOMAIN rs : m < n /\ rs[m].lead = rs[n].lead
        Holds(n)   == \E m \in DOMAIN rs : /\ Len(rs[m].lead) < Len(rs[n].lead)
                                           /\ Occurrences(rs[m].lead, rs[n].lead) # {}
    IN  [n \in {k \in DOMAIN rs : ~Repeats(k) /\ ~Holds(k)} |-> rs[n]]

-----------------------------------------------------------------------------
(* The certificate. *)

Longest(rs) ==
    CHOOSE n \in {0} \cup {Len(rs[k].lead) : k \in DOMAIN rs} :
        \A k \in DOMAIN rs : Len(rs[k].lead) <= n

\* Mutant of BoundSuffices: overlaps as long as the longest lead.
BoundAlmost(rs, bound) == Longest(rs) <= bound

\* check_degree_bound: every overlap of the leads was looked at.
BoundSuffices(rs, bound) == 2 * Longest(rs) - 1 <= bound

\* The states of the automaton: a vertex and the last arrows read.
Window(w, rs)  == LET r == IF DOMAIN rs = {} THEN 1 ELSE Longest(rs)
                  IN  IF Len(w) < r THEN w ELSE Tail(w)

Paths(n) ==
    {w \in UNION {[1..k -> Arrows] : k \in 0..n} :
        \A i \in 1..(Len(w) - 1) : Target[w[i]] = Source[w[i + 1]]}

States(rs) ==
    {s \in Vertices \X Paths(IF DOMAIN rs = {} THEN 0 ELSE Longest(rs) - 1) :
        /\ Irreducible(s[2], rs)
        /\ s[2] # <<>> => Target[s[2][Len(s[2])]] = s[1]}

Moves(s, rs) ==
    {<<Target[a], Window(Append(s[2], a), rs)>> :
        a \in {b \in Arrows : Source[b] = s[1] /\ Irreducible(Append(s[2], b), rs)}}

\* The states from which irreducible words go on for k arrows more.
GoOn(rs) ==
    LET live[k \in 0..Cardinality(States(rs))] ==
            IF k = 0 THEN States(rs)
            ELSE LET before == live[k - 1] IN {s \in before : Moves(s, rs) \cap before # {}}
    IN  live

\* A walk of as many steps as there are states runs into a cycle.
FiniteBasis(rs) == GoOn(rs)[Cardinality(States(rs))] = {}

-----------------------------------------------------------------------------
(* build_reduction_system. *)

Coerced(rel) == Element(DOMAIN rel, LAMBDA w : rel[w])

Init ==
    /\ input \in Presentations
    /\ pc    = "parsed"
    /\ rules = <<>>
    /\ todo  = {}
    /\ work  = Zero

Rels   == [k \in DOMAIN input.rels |-> Coerced(input.rels[k])]
Usable == \A k \in DOMAIN input.rels :
              /\ \A w \in DOMAIN input.rels[k] : Len(w) >= 2
              /\ Rels[k] # Zero

Stop(verdict) ==
    /\ pc' = verdict
    /\ UNCHANGED <<input, rules, todo, work>>

\* A relation with an arrow in it, or one that vanishes in the field.
RefuseRelation ==
    /\ pc = "parsed"
    /\ ~Usable
    /\ Stop("refused")

Orient ==
    /\ pc = "parsed"
    /\ Usable
    /\ rules' = [k \in DOMAIN Rels |-> RuleFromComb(Rels[k])]
    /\ todo'  = AllAmbiguities(rules', input.bound)
    /\ pc'    = "completing"
    /\ UNCHANGED <<input, work>>

\* The next ambiguity of the pass.
Compare ==
    /\ pc = "completing"
    /\ todo # {}
    /\ LET amb == Smallest(todo) IN
          /\ work' = SPolynomial(amb, rules)
          /\ todo' = todo \ {amb}
    /\ pc' = "reducing"
    /\ UNCHANGED <<input, rules>>

Reduce ==
    /\ pc = "reducing"
    /\ Reducible(work, rules) # {}
    /\ work' = ReduceOnce(work, rules)
    /\ UNCHANGED <<input, pc, rules, todo>>

\* The ambiguity resolves.
Resolve ==
    /\ pc = "reducing"
    /\ work = Zero
    /\ pc' = "completing"
    /\ UNCHANGED <<input, rules, todo, work>>

\* It does not: one more rule, and a new pass.
Extend ==
    /\ pc = "reducing"
    /\ work # Zero
    /\ Reducible(work, rules) = {}
    /\ rules' = Append(rules, RuleFromComb(work))
    /\ todo'  = AllAmbiguities(rules', input.bound)
    /\ work'  = Zero
    /\ pc'    = IF Len(rules') > MaxRules THEN "refused" ELSE "completing"
    /\ UNCHANGED input

CleanUp ==
    /\ pc = "completing"
    /\ todo = {}
    /\ rules' = MinimizeLeads(rules)
    /\ pc'    = "cleaned"
    /\ UNCHANGED <<input, todo, work>>

Certify ==
    /\ pc = "cleaned"
    /\ Stop(IF BoundSuffices(rules, input.bound) /\ FiniteBasis(rules)
              THEN "certified" ELSE "refused")

Next == RefuseRelation \/ Orient \/ Compare \/ Reduce \/ Resolve \/ Extend \/ CleanUp \/ Certify

Spec == Init /\ [][Next]_vars

-----------------------------------------------------------------------------
(* Properties. *)

IsElement(c) ==
    /\ IsFiniteSet(DOMAIN c) /\ DOMAIN c \subseteq Words
    /\ c = [w \in DOMAIN c |-> c[w]]
    /\ \A w \in DOMAIN c : c[w] \in 1..(P - 1)

\* The tail of a rule is smaller than its lead, and no path shorter than two
\* arrows takes part (reduction.py:38).
IsRule(r) ==
    /\ r.lead \in Words /\ Len(r.lead) >= 2
    /\ IsElement(r.tail)
    /\ \A w \in DOMAIN r.tail : Less(w, r.lead) /\ Len(w) >= 2

TypeOK ==
    /\ input \in Presentations
    /\ pc \in {"parsed", "completing", "reducing", "cleaned", "certified", "refused"}
    /\ IsFiniteSet(DOMAIN rules) /\ DOMAIN rules \subseteq Nat \ {0}
    /\ \A n \in DOMAIN rules : IsRule(rules[n])
    /\ pc \in {"parsed", "completing", "reducing"} => IsList(rules)
    /\ IsElement(work)

\* Why completion ends: each new rule has a leading word within the bound that
\* no rule could reduce before (complete.py:9, "completion ALWAYS TERMINATES
\* under a fixed bound").
EachRuleIsNew ==
    [][Extend => LET lead == rules'[Len(rules')].lead IN
                 /\ Irreducible(lead, rules)
                 /\ Len(lead) <= input.bound]_vars

\* Why a reduction ends: a word that can be rewritten after a step is smaller
\* than the one that the step has rewritten, in an order without infinite
\* descent (reduction.py:76, "Terminates because every rewrite replaces a word
\* by strictly smaller ones in a well-founded order").
RewritingDescends ==
    [][Reduce => \A w \in Reducible(work', rules) : Less(w, Largest(Reducible(work, rules)))]_vars

\* No relation may rewrite an arrow or a vertex: the ideal stays in the square
\* of the arrow ideal through every rule that completion adds (system.py:57).
ArrowsAreIrreducible ==
    \A w \in UNION {[1..k -> Arrows] : k \in 0..1} : Irreducible(w, rules)

\* What complete.py:44 says of the cleanup: "The remaining leads form an
\* antichain under the factor relation, each appearing once".
LeadsAreAntichain ==
    pc \in {"cleaned", "certified"} =>
        \A n, m \in DOMAIN rules :
            n # m => Occurrences(rules[n].lead, rules[m].lead) = {}
=============================================================================
