----------------------------- MODULE MCGroebner -----------------------------
(* Two loops x (1) and y (2) at one vertex, over the field of three elements. *)
EXTENDS Confluence, Functions, SequencesExt, TLC

MCSource == <<1, 1>>
MCTarget == <<1, 1>>

xx == <<1, 1>>
xy == <<1, 2>>
yx == <<2, 1>>
yy == <<2, 2>>

Mono(w)      == w :> 1
Bin(w, k, v) == w :> 1 @@ v :> k

\* Monomials, commutation and anticommutation, a relation with an inclusion,
\* one with three terms, one that vanishes, one with an arrow in it.
Pool == { Mono(xx), Mono(yy), Mono(<<1, 1, 1>>), Mono(<<2, 2, 2>>), Mono(<<1, 2, 1>>),
          Bin(yx, -1, xy), Bin(yx, 1, xy), Bin(yy, -1, xx), Bin(yy, 2, yx),
          Bin(<<2, 1, 2>>, -1, <<1, 2, 1>>),
          Bin(yx, 1, xy) @@ xx :> 4,
          xy :> 3, Bin(xx, 1, <<2>>) }

Lists == {<<a, b>> : a, b \in Pool} \cup {<<a, b, c>> : a, b, c \in Pool}

\* The lead of the last holds the lead of the first: the algebra loses a
\* dimension, and the rule goes.
Nested == {Mono(yy), Bin(yx, -1, xy), Mono(<<1, 1, 1>>), Bin(<<2, 2, 1>>, -1, <<1, 1, 2>>)}

MCPresentations ==
    {[rels |-> list, bound |-> d] :
        list \in {l \in Lists : IsInjective(l)} \cup SetToSeqs(Nested), d \in {3, 5}}

\* Two relations with the leading word yy.
TwoOfALead ==
    {[rels |-> list, bound |-> 8] :
        list \in SetToSeqs({Bin(yy, -1, xx), Bin(yy, -1, xy), Mono(yx), Mono(<<1, 1, 1>>)})}
=============================================================================
