-------------------------------- MODULE Pulse --------------------------------
(***************************************************************************)
(* The election-day pulse of the polling units (modules/situation-room):   *)
(* one row per unit with its phase and what was last said of it.  Agents   *)
(* check in, report and beat; a submitted sheet and an incident report on  *)
(* their behalf.  Every request reads the row, computes the merged row and *)
(* writes it, and other requests may write in between.                     *)
(*                                                                         *)
(* Every row written also goes to an append-only log that no handler here  *)
(* reads; it is left out.  Party totals are represented by who leads.      *)
(***************************************************************************)
EXTENDS Integers

CONSTANTS
    Units,      \* polling units with an agent
    Fields,     \* what can be said of a unit
    Alarming,   \* the fields with a value that alarms: bvas, atmosphere, rivals
    Reports,    \* the reports that can arrive
    Slots       \* requests served at once

ASSUME AlarmsAreFields == Alarming \subseteq Fields

Phases == {"CHECKED_IN", "MATERIALS_READY", "OPENED", "VOTING", "CLOSED", "COUNTING"}
Values == {"FINE", "ALARM"}
Leads == {"US", "RIVAL", "UNCLEAR"}
Sources == {"MANUAL", "CHECK_IN", "HEARTBEAT", "INCIDENT", "RESULT"}

\* "NONE" is a value that is not given.
Report == [source : Sources, phase : Phases \cup {"NONE"},
           says : [Fields -> Values \cup {"NONE"}], observed : Leads \cup {"NONE"}]

ASSUME ReportsAreReports == Reports \subseteq Report /\ Reports # {} /\ Units # {}

\* Ages of the last word from a unit, to the grain the reminders need.
MaxAge == 2

VARIABLES
    pulse,    \* the PollingUnitPulse row of each unit, NoPulse when there is none
    pc, req,  \* the next step of each request, and its local variables
    said      \* what the last step wrote: the reports and whether it notified

pulseVars == <<pulse, pc, req, said>>

NoPulse == [phase |-> "NONE", says |-> [f \in Fields |-> "NONE"],
            observed |-> "NONE", age |-> 0]

Rank(phase) ==
    CASE phase = "NONE" -> 0 [] phase = "CHECKED_IN" -> 1 [] phase = "MATERIALS_READY" -> 2
      [] phase = "OPENED" -> 3 [] phase = "VOTING" -> 4 [] phase = "CLOSED" -> 5
      [] OTHER -> 6

Idle == [unit |-> CHOOSE u \in Units : TRUE, report |-> CHOOSE x \in Reports : TRUE,
         previous |-> NoPulse]

PulseInit ==
    /\ pulse = [u \in Units |-> NoPulse]
    /\ pc = [r \in Slots |-> "idle"]
    /\ req = [r \in Slots |-> Idle]
    /\ said = {}

Goto(r, step, q) ==
    /\ pc' = [pc EXCEPT ![r] = step]
    /\ req' = [req EXCEPT ![r] = q]

Given(new, old) == IF new # "NONE" THEN new ELSE old

\* laterElectionDayPhase: the phase only advances.
Later(current, next) == IF Rank(next) >= Rank(current) THEN next ELSE current

\* (Mutant: a report that names no phase starts the day again.)
PhaseAfterRestarting(x, previous) ==
    IF x.source = "MANUAL" /\ x.phase # "NONE" THEN x.phase
    ELSE IF x.phase # "NONE" THEN Later(previous.phase, x.phase) ELSE "CHECKED_IN"

\* Only an agent who says so takes a unit back to an earlier phase.
PhaseAfter(x, previous) ==
    IF x.source = "MANUAL" /\ x.phase # "NONE" THEN x.phase
    ELSE IF x.phase # "NONE" THEN Later(previous.phase, x.phase)
    ELSE IF previous # NoPulse THEN previous.phase ELSE "CHECKED_IN"

\* (Mutant: totals seen while counting are kept when the phase is taken back.)
MergedKeepingTotals(x, previous) ==
    [phase |-> PhaseAfter(x, previous), age |-> 0,
     says |-> [f \in Fields |-> Given(x.says[f], previous.says[f])],
     observed |-> Given(x.observed, previous.observed)]

\* The snapshot: what the report gives, and the row it was read over for the rest.
Merged(x, previous) ==
    LET phase == PhaseAfter(x, previous)
    IN  [phase |-> phase, age |-> 0,
         says |-> [f \in Fields |-> Given(x.says[f], previous.says[f])],
         observed |-> IF phase = "COUNTING" THEN Given(x.observed, previous.observed)
                      ELSE "NONE"]

\* Totals are refused before the counting.
Refused(x, previous) == x.observed # "NONE" /\ PhaseAfter(x, previous) # "COUNTING"

Lead(observed) == IF observed = "NONE" THEN "UNCLEAR" ELSE observed

Rises(f, old, new) == new.says[f] = "ALARM" /\ old.says[f] # "ALARM"

\* (Mutant: only a change of phase is material.)
MaterialByPhase(x, previous) ==
    previous = NoPulse \/ previous.phase # PhaseAfter(x, previous)

\* isMaterialPulseChange.
Material(x, previous) ==
    \/ previous = NoPulse
    \/ previous.phase # PhaseAfter(x, previous)
    \/ \E f \in Alarming : Rises(f, previous, Merged(x, previous))
    \/ x.observed # "NONE" /\ Lead(x.observed) # Lead(previous.observed)

-----------------------------------------------------------------------------
\* A request arrives.  checkIn, heartbeat and create look at the row first: a
\* unit checks in once, beats once it has, and a first report needs a phase.
Arrive(r, u, x) ==
    /\ pc[r] = "idle"
    /\ x.source = "CHECK_IN" => pulse[u] = NoPulse
    /\ x.source = "HEARTBEAT" => pulse[u] # NoPulse
    /\ x.source = "MANUAL" => x.phase # "NONE" \/ pulse[u] # NoPulse
    /\ Goto(r, "read", [Idle EXCEPT !.unit = u, !.report = x])
    /\ said' = {}
    /\ UNCHANGED pulse

\* ingestInferredPulse reads the row it will merge with.
Read(r) ==
    LET u == req[r].unit
        x == req[r].report
    IN  /\ pc[r] = "read"
        /\ IF \/ x.source = "HEARTBEAT" /\ pulse[u] = NoPulse
              \/ x.source = "MANUAL" /\ x.phase = "NONE" /\ pulse[u] = NoPulse
              \/ x.source # "HEARTBEAT" /\ Refused(x, pulse[u])
           THEN Goto(r, "idle", Idle)
           ELSE Goto(r, "write", [req[r] EXCEPT !.previous = pulse[u]])
        /\ said' = {}
        /\ UNCHANGED pulse

\* A heartbeat only renews the time; anything else replaces the whole row.
Write(r) ==
    LET u == req[r].unit
        x == req[r].report
        previous == req[r].previous
        beat == x.source = "HEARTBEAT"
    IN  /\ pc[r] = "write"
        /\ pulse' = IF beat THEN [pulse EXCEPT ![u].age = 0]
                    ELSE [pulse EXCEPT ![u] = Merged(x, previous)]
        /\ said' = {[unit |-> u, report |-> x, notified |-> ~beat /\ Material(x, previous)]}
        /\ Goto(r, "idle", Idle)

\* A database error ends a request: a result or an incident goes unpulsed.
Drop(r) ==
    /\ pc[r] # "idle"
    /\ Goto(r, "idle", Idle)
    /\ said' = {}
    /\ UNCHANGED pulse

\* Nothing is heard of a unit for a while.
Silence(u) ==
    /\ pulse[u] # NoPulse
    /\ pulse[u].age < MaxAge
    /\ pulse' = [pulse EXCEPT ![u].age = @ + 1]
    /\ said' = {}
    /\ UNCHANGED <<pc, req>>

PulseWork == \E r \in Slots : Read(r) \/ Write(r)

PulseNext ==
    \/ \E r \in Slots, u \in Units, x \in Reports : Arrive(r, u, x)
    \/ PulseWork
    \/ \E r \in Slots : Drop(r)
    \/ \E u \in Units : Silence(u)

PulseSpec == PulseInit /\ [][PulseNext]_pulseVars

Rows == [phase : Phases \cup {"NONE"}, says : [Fields -> Values \cup {"NONE"}],
         observed : Leads \cup {"NONE"}, age : 0 .. MaxAge]

\* The types; a row that was written has a phase.
PulseTypeOK ==
    /\ pulse \in [Units -> Rows]
    /\ pc \in [Slots -> {"idle", "read", "write"}]
    /\ req \in [Slots -> [unit : Units, report : Reports, previous : Rows]]
    /\ \A u \in Units : pulse[u].phase = "NONE" => pulse[u] = NoPulse

\* Totals are observed by nobody before the counting, and dropped when an agent
\* takes the phase back, whatever requests interleave.
ObservedWhileCounting ==
    \A u \in Units : pulse[u].observed # "NONE" => pulse[u].phase = "COUNTING"

\* "Never lets inferred writes move the phase backwards": an agent alone may.
InferredNeverBack ==
    [][\A s \in said' : s.report.source # "MANUAL" =>
          Rank(pulse'[s.unit].phase) >= Rank(pulse[s.unit].phase)]_pulseVars

\* No report undoes what it does not speak of.
UnspokenStands ==
    [][\A s \in said', f \in Fields : s.report.says[f] = "NONE" =>
          pulse'[s.unit].says[f] = pulse[s.unit].says[f]]_pulseVars

\* Headquarters hear of every change of phase and of every new alarm.
ChangesAnnounced ==
    [][\A u \in Units :
          (\/ pulse'[u].phase # pulse[u].phase
           \/ \E f \in Alarming : Rises(f, pulse[u], pulse'[u])) =>
              \E s \in said' : s.unit = u /\ s.notified]_pulseVars
=============================================================================
