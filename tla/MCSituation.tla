----------------------------- MODULE MCSituation -----------------------------
(***************************************************************************)
(* The situation room: what is known of each unit (Pulse), the reminders   *)
(* sent by the hour (Reminders), the board of risks in a field that        *)
(* settles (Triage).  As modelled they share no variable, so that one      *)
(* instance holds them all: one part is busy and the others rest.  The     *)
(* clocks of Reminders and Triage are fair while their part is busy.       *)
(***************************************************************************)
EXTENDS MCPulse, MCReminders, MCField

CONSTANTS
    Incidents, Wards, LGAs, States, Above, Situations, Instances, Overlap,
    Acknowledged, Opened    \* of Triage

VARIABLES now, row, ack, sweepLock, cooling, dirty, sweepPc, job, alerts, fieldSettled, busy

Board == INSTANCE MCTriageSettling
    WITH lock <- sweepLock, pc <- sweepPc, settled <- fieldSettled

boardVars == <<now, row, ack, sweepLock, cooling, dirty, sweepPc, job, alerts>>
situationVars == <<pulseVars, vars, settled, failures, boardVars, fieldSettled, busy>>

SituationInit ==
    /\ PulseInit /\ SettlingInit
    /\ Board!Init /\ fieldSettled = FALSE
    /\ busy \in {"pulse", "reminders", "board"}
    /\ busy # "reminders" => \A u \in Staffed : standing[u] = "silent"
    /\ busy # "board" => \A w \in Wards : now[w] = Calm

SituationNext ==
    /\ UNCHANGED busy
    /\ \/ busy = "pulse" /\ PulseNext /\ UNCHANGED <<vars, settled, failures, boardVars, fieldSettled>>
       \/ busy = "reminders" /\ SettlingNext /\ UNCHANGED <<pulseVars, boardVars, fieldSettled>>
       \/ busy = "board" /\ Board!SettlingNext /\ UNCHANGED <<pulseVars, vars, settled, failures>>

SituationSpec ==
    /\ SituationInit /\ [][SituationNext]_situationVars
    /\ \A i \in Processes : SF_vars(busy = "reminders" /\ Ticking(i))
    /\ WF_vars(LockExpires) /\ WF_vars(Delivery)
    /\ \A v \in Board!Workers : []<>(sweepPc[v] = "idle")
    /\ SF_boardVars(busy = "board" /\ \E i \in Instances : Board!SweepTick(i))
    /\ WF_boardVars(Board!LockExpires)

\* "The full sweep is the backstop": once the field has settled, the whole board
\* comes to show the signals and stays so, although jobs overlapped, marks
\* were lost and locks outlived their holders.
CatchesUp == Board!CatchesUp
=============================================================================
