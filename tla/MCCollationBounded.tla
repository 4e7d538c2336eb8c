-------------------------- MODULE MCCollationBounded --------------------------
\* Collation with a bound on the number of requests, for the instances that
\* serve two at once and let them fail.
EXTENDS MCCollation

CONSTANT MaxRequests
VARIABLE served

BoundedNext ==
    \/ /\ served < MaxRequests
       /\ served' = served + 1
       /\ \E r \in Slots : Arrive(r)
    \/ /\ UNCHANGED served
       /\ \E r \in Slots : Proceed(r)
    \/ /\ UNCHANGED served
       /\ \E r \in Slots : Fail(r)

BoundedSpec == Init /\ served = 0 /\ [][BoundedNext]_<<vars, served>>
=============================================================================
