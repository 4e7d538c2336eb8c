------------------------------- MODULE MCBoards -------------------------------
\* One state, one LGA, two wards with two units and one; sheets that together put the
\* client ahead, level or behind; one contest and one dashboard.
EXTENDS Boards, TLC

CONSTANTS p1, p2, p3, w1, w2, l1, s1

MCWithin == (p1 :> w1) @@ (p2 :> w1) @@ (p3 :> w2) @@ (w1 :> l1) @@ (w2 :> l1) @@ (l1 :> s1)

Says(x, y) == [client |-> x, rival |-> y]
MCVotes == (p1 :> {Says(2, 1)}) @@ (p2 :> {Says(1, 2)}) @@ (p3 :> {Says(1, 1)})

=============================================================================
