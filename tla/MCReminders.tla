----------------------------- MODULE MCReminders -----------------------------
\* Small instances of Reminders, in a field that some day settles: from the
\* turn of some hour on no report arrives, nobody opens the app, nothing fails.
EXTENDS Reminders

CONSTANTS r1, o1, i1

CONSTANT MaxFailures  \* failures before the field settles (bound)

VARIABLES settled, failures

AllKeys == {KeyFor(h, a) : h \in 0 .. MaxHour, a \in Audiences}

SettlingNext ==
    \/ ~settled /\ UNCHANGED <<settled, failures>> /\ Field
    \/ ~settled /\ UNCHANGED <<settled, failures>> /\ Opening
    \/ ~settled /\ settled' \in BOOLEAN /\ UNCHANGED failures /\ HourTurns
    \/ ~settled /\ failures < MaxFailures /\ failures' = failures + 1 /\ UNCHANGED settled /\ Faults
    \/ UNCHANGED <<settled, failures>> /\ Clock
    \/ UNCHANGED <<settled, failures>> /\ Delivery

SettlingInit == Init /\ settled = FALSE /\ failures = 0

SettlingSpec ==
    /\ SettlingInit
    /\ [][SettlingNext]_<<vars, settled, failures>>
    /\ Fairness

\* Whatever failed before, and however many instances tick: in an hour from
\* which on nothing fails, every agent who is due comes to have a reminder.
ReachesAll == [](settled => <>[]AllReminded)
=============================================================================
