--------------------------- MODULE MCTriageSettling ---------------------------
\* Triage in a field that some day settles: from then on nothing changes, no
\* operator asks for anything and nothing fails.
EXTENDS MCTriage

VARIABLE settled

SettlingNext ==
    \/ ~settled /\ UNCHANGED settled /\ World
    \/ ~settled /\ UNCHANGED settled /\ Faults
    \/ UNCHANGED settled /\ Timers
    \/ UNCHANGED settled /\ \E v \in Workers : Work(v)
    \/ ~settled /\ settled' = TRUE /\ UNCHANGED vars

SettlingSpec ==
    Init /\ settled = FALSE /\ [][SettlingNext]_<<vars, settled>> /\ Fairness

\* "The full sweep is the backstop": once the field has settled, the whole board
\* comes to show the signals and stays so, although jobs overlapped, marks
\* were lost and locks outlived their holders.
CatchesUp == [](settled => <>[]BoardIsCurrent)
=============================================================================
