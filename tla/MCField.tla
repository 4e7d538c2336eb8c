------------------------------ MODULE MCField ------------------------------
\* A field for Triage: one state with one LGA, and the situations in which its
\* wards are.
EXTENDS Integers

CONSTANTS w1, l1, s1

Grave == [severity |-> "CRITICAL", urgent |-> TRUE, age |-> 0]
GraveOld == [severity |-> "CRITICAL", urgent |-> TRUE, age |-> 2]
Minor == [severity |-> "NONE", urgent |-> FALSE, age |-> 0]

Kind3 == {Grave, GraveOld, Minor}

\* The only ward of the only LGA.
OneWard == [x \in {w1, l1} |-> IF x = w1 THEN l1 ELSE s1]

At(reported, client, rival, flagged, silence, incidents) ==
    [total |-> 10, reported |-> reported, client |-> client, rival |-> rival,
     votes |-> client + rival, registered |-> 200, accredited |-> client + rival,
     scored |-> reported, flagged |-> flagged, checkPhoto |-> 0,
     silence |-> silence, incidents |-> [k \in Kind3 |-> incidents[k]]]

Few(n, kind) == [k \in Kind3 |-> IF k = kind THEN n ELSE 0]

\* Scores of a whole LGA in the comment: 0, 428, 759, and 653 when the
\* incidents of the crisis have grown old.
Calm == At(10, 60, 40, 0, 10, Few(0, Minor))
Behind == At(5, 30, 70, 2, 240, Few(0, Minor))
Crisis == At(2, 30, 70, 2, 240, Few(10, Grave))
Aged == At(2, 30, 70, 2, 240, Few(10, GraveOld))

Pair == {Calm, Behind}
Four == {Calm, Behind, Crisis, Aged}
=============================================================================
