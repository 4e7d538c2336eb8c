----------------------------- MODULE MCCollation -----------------------------
\* Small geographies for checking Collation with TLC.
EXTENDS Collation, TLC

CONSTANTS p1, p2, w1, l1, s1

\* Two polling units in the only ward of an LGA.
OneWard == (p1 :> w1) @@ (p2 :> w1) @@ (w1 :> l1) @@ (l1 :> s1)

\* The only polling unit of its LGA.
OneUnit == (p1 :> w1) @@ (w1 :> l1) @@ (l1 :> s1)

\* Requests are interchangeable, and so are figures.
Symmetry == Permutations(Slots) \cup Permutations(Figures)
=============================================================================
