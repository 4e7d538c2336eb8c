------------------------------- MODULE MCIntake -------------------------------
\* Small instances of Intake: a message of each kind that the worker treats in its
\* own way is one of these, and the dashboard's typed and spoken reports.
EXTENDS Intake, TLC

CONSTANTS text, spoken, empty, typed, clip,
          MaxReports    \* how many of them come in (bound)

Inbound(words, link) ==
    [event |-> "inbound", from |-> TRUE, id |-> TRUE, text |-> words, url |-> link,
     mime |-> "none", caption |-> FALSE, place |-> FALSE]

\* Words; a recording sent with words; an event of no content.
Posted ==
    (text :> Inbound("words", "none")) @@ (spoken :> Inbound("words", "audio")) @@
    (empty :> Inbound("none", "none"))

Arrived == {m \in Messages : inbound[m] # "ABSENT"} \cup {x \in Forms : report[x] # NoReport}

\* Officers deal with the report of the recording that was sent (bound).
BoundedIntake ==
    /\ IntakeNext
    /\ Cardinality(Arrived') <= MaxReports
    /\ \A o \in Officers : desk'[o].of \subseteq {spoken}

BoundedIntakeSpec == IntakeInit /\ [][BoundedIntake]_intakeVars /\ IntakeFairness
=============================================================================
