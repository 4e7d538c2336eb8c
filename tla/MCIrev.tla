-------------------------------- MODULE MCIrev --------------------------------
\* Small instances of Irev, on an evening that some time settles: from then on
\* the portal and the agents change nothing, nobody asks, and nothing fails.
EXTENDS Irev

CONSTANTS p1, d0, d1, d2

CONSTANT MaxEvents    \* moves of the portal, the agents and the operators, and
                      \* faults, before the evening settles (bound)

VARIABLE events

\* The scans of one unit differ in the figures they show.
Differing == [d \in Docs |-> IF d = d1 THEN "a" ELSE "b"]

SettlingNext ==
    \/ /\ events < MaxEvents /\ events' = events + 1
       /\ Environment \/ Faults \/ UNCHANGED vars
    \/ UNCHANGED events /\ Timers
    \/ UNCHANGED events /\ \E w \in Slots : Work(w)

SettlingInit == Init /\ events = 0

SettlingSpec == SettlingInit /\ [][SettlingNext]_<<vars, events>> /\ Fairness

\* The timers are the backstop: whatever was lost, limited or unreadable
\* before, in the end every readable scan has been read ...
ScansAreRead == <>[]AllRead

\* ... and no result that was told to wait for a scan waits for one that is there.
WaitersAnswered == <>[]NobodyWaits

\* A scan that replaced one already read comes to be shown as replaced.
ReplacementComesShown == <>[]ReplacementShown
=============================================================================
