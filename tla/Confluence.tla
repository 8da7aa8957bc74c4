----------------------------- MODULE Confluence -----------------------------
(***************************************************************************)
(* What a certified reduction system promises to the algebra that is built *)
(* on it (src/src/quiverlab/groebner/system.py): normal forms do not       *)
(* depend on the order of the rewritings, and the relations vanish.        *)
(***************************************************************************)
EXTENDS Groebner

CONSTANT MaxWord    \* the paths looked at have up to this length

ASSUME ConfluenceAssumption == MaxWord \in Nat

\* The words of up to n arrows.
UpTo(n) == UNION {[1..k -> Arrows] : k \in 0..n}

\* A rewriting, unless there is nothing left to rewrite.
Once(c, rs) == IF Reducible(c, rs) = {} THEN c ELSE ReduceOnce(c, rs)

\* Each rewriting is at a smaller word than the one before, and none is longer
\* than the longest word of c: the number of those words bounds the reduction.
Enough(c) == Cardinality(UpTo(Len(Largest(DOMAIN c \cup {<<>>}))))

\* reduce_comb: the rewritings one after the other, up to an irreducible element.
NormalForm(c, rs) ==
    LET chain[k \in 0..Enough(c)] == IF k = 0 THEN c ELSE Once(chain[k - 1], rs)
    IN  chain[CHOOSE k \in 0..Enough(c) : Reducible(chain[k], rs) = {}]

\* A certified system is confluent: whichever rule is applied first to a path,
\* and wherever, the normal form is the same.  The products of the algebra are
\* well defined only then (certificate.py:4, "if 2L-1 <= D EVERY ambiguity was
\* formed and reduced to 0").
CertifiedIsConfluent ==
    pc = "certified" =>
        \A w \in Paths(MaxWord) : LET one == [v \in {w} |-> 1] IN
            \A m \in Matches(w, rules) :
                NormalForm(Rewrite(one, w, rules, m), rules) = NormalForm(one, rules)

Vanish == \A k \in DOMAIN Rels : NormalForm(Rels[k], rules) = Zero

InitialLead(k) == Leading(Rels[k])

\* No relation is lost on the way to the certificate: each is zero in the
\* algebra, when their leading words differ and fit the bound.  A rule dropped
\* by the cleanup must have been made superfluous by an ambiguity before
\* (complete.py:79).
DistinctLeadsVanish ==
    pc = "certified"
      /\ (\A j, k \in DOMAIN Rels : j # k => InitialLead(j) # InitialLead(k))
      /\ (\A k \in DOMAIN Rels : Len(InitialLead(k)) <= input.bound)
    => Vanish

\* What complete.py:46 says of the cleanup, "This does not change the ideal":
\* every relation that was put in still vanishes.
CleanupKeepsIdeal == pc = "certified" => Vanish
=============================================================================
