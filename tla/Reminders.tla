------------------------------ MODULE Reminders ------------------------------
(***************************************************************************)
(* The hourly reminders (pulse-reminder-scheduler.service.ts), composed of *)
(* a clock and Notifications.  Every API instance ticks; under a Redis     *)
(* lock that only expires, one reads the pulses and reminds the agents     *)
(* whose unit was not heard of lately, then the ward and LGA officers      *)
(* above silent units.  Opening the app puts the same reminder in the      *)
(* inbox.  There is one ward, in one LGA; an agent goes by the name of the *)
(* unit.  How a pulse gets its phase and time is the matter of Pulse.      *)
(***************************************************************************)
EXTENDS Notifications

CONSTANTS
    Staffed, WardOfficers, LgaOfficers,
    HasRedis,
    Openers,       \* users who open the app
    Heard,         \* the standings that are told apart
    MaxHour        \* the hours of the day run from 0 (bound)

\* What the pulse of a unit says now: heard of within the time that is skipped;
\* not heard of since; silent for longer than 45 minutes as well, or never heard
\* of; or closed or counting.
ASSUME Standings == Heard \subseteq {"heard", "due", "silent", "over"}

ASSUME Recipients ==
    /\ Users = Staffed \cup WardOfficers \cup LgaOfficers
    /\ Staffed \cap (WardOfficers \cup LgaOfficers) = {}
    /\ WardOfficers \cap LgaOfficers = {}
    /\ Openers \subseteq Users
    /\ HasRedis \in BOOLEAN /\ MaxHour \in Nat

Audiences == {"agent", "ward", "lga"}

\* The reminder of an hour to an audience: pulseReminderSourceEventId.
KeyFor(h, audience) == <<h, audience>>

ASSUME ReminderKeys == Keys = {KeyFor(h, a) : h \in 0 .. MaxHour, a \in Audiences}

VARIABLES
    standing,    \* of each unit, as its pulse is read
    hour,
    lastHour,    \* the hour each instance has finished, -1 for none
    lock,        \* is the Redis lock set?
    tick, run    \* the next step of each instance's tick, and its local variables

clockVars == <<standing, hour, lastHour, lock, tick, run>>
vars == <<noteVars, clockVars>>

NoRun == [hour |-> -1, silent |-> FALSE]

Init ==
    /\ NotifyInit
    /\ standing \in [Staffed -> Heard]
    /\ hour = 0
    /\ lastHour = [i \in Processes |-> -1]
    /\ lock = FALSE
    /\ tick = [i \in Processes |-> "idle"]
    /\ run = [i \in Processes |-> NoRun]

Due(u) == standing[u] \in {"due", "silent"}

AudienceOf(u) ==
    CASE u \in Staffed -> "agent" [] u \in WardOfficers -> "ward" [] OTHER -> "lga"

Remind(i, h, recipients) ==
    IF recipients = {} THEN UNCHANGED noteVars
    ELSE Dispatch(i, KeyFor(h, AudienceOf(CHOOSE u \in recipients : TRUE)),
                  recipients \X {TRUE})

Step(i, next, local) ==
    /\ tick' = [tick EXCEPT ![i] = next]
    /\ run' = [run EXCEPT ![i] = local]

\* A tick that finds its hour undone and the lock free.
Tick(i) ==
    /\ tick[i] = "idle"
    /\ lastHour[i] # hour
    /\ HasRedis => ~lock
    /\ lock' = HasRedis
    /\ Step(i, "agents", [hour |-> hour, silent |-> FALSE])
    /\ UNCHANGED <<noteVars, standing, hour, lastHour>>

\* The pulses are read, and the agents to remind are known.
RemindAgents(i) ==
    /\ tick[i] = "agents"
    /\ Remind(i, run[i].hour, {u \in Staffed : Due(u)})
    /\ Step(i, "ward", [run[i] EXCEPT !.silent = \E u \in Staffed : standing[u] = "silent"])
    /\ UNCHANGED <<standing, hour, lastHour, lock>>

RemindWard(i) ==
    /\ tick[i] = "ward"
    /\ Remind(i, run[i].hour, IF run[i].silent THEN WardOfficers ELSE {})
    /\ Step(i, "lga", run[i])
    /\ UNCHANGED <<standing, hour, lastHour, lock>>

\* (Mutant: the hour that is done is the one in which the tick ends.)
RemindLgaDoneNow(i) ==
    /\ tick[i] = "lga"
    /\ Remind(i, run[i].hour, IF run[i].silent THEN LgaOfficers ELSE {})
    /\ lastHour' = [lastHour EXCEPT ![i] = hour]
    /\ Step(i, "idle", NoRun)
    /\ UNCHANGED <<standing, hour, lock>>

\* The last reminders; the hour is done.
RemindLga(i) ==
    /\ tick[i] = "lga"
    /\ Remind(i, run[i].hour, IF run[i].silent THEN LgaOfficers ELSE {})
    /\ lastHour' = [lastHour EXCEPT ![i] = run[i].hour]
    /\ Step(i, "idle", NoRun)
    /\ UNCHANGED <<standing, hour, lock>>

\* A tick that fails leaves its hour undone.
TickFails(i) ==
    /\ tick[i] # "idle"
    /\ Step(i, "idle", NoRun)
    /\ UNCHANGED <<noteVars, standing, hour, lastHour, lock>>

\* Somebody opens the app: the reminder of the hour, without a push.
Nudge(i, u) ==
    /\ Dispatch(i, KeyFor(hour, AudienceOf(u)), {<<u, FALSE>>})
    /\ UNCHANGED clockVars

LockExpires ==
    /\ lock
    /\ lock' = FALSE
    /\ UNCHANGED <<noteVars, standing, hour, lastHour, tick, run>>

HourTurns ==
    /\ hour < MaxHour
    /\ hour' = hour + 1
    /\ UNCHANGED <<noteVars, standing, lastHour, lock, tick, run>>

\* An instance restarts: what it remembers and what it dispatches is gone.
Restart(i) ==
    /\ DispatchesDie(i)
    /\ lastHour' = [lastHour EXCEPT ![i] = -1]
    /\ Step(i, "idle", NoRun)
    /\ UNCHANGED <<standing, hour, lock>>

Ticking(i) == Tick(i) \/ RemindAgents(i) \/ RemindWard(i) \/ RemindLga(i)

Delivery == Deliver /\ UNCHANGED clockVars

\* A report comes in, time passes, or the phase moves on.
Hear(u, x) ==
    /\ standing[u] # x
    /\ standing' = [standing EXCEPT ![u] = x]
    /\ UNCHANGED <<noteVars, hour, lastHour, lock, tick, run>>

Field == \E u \in Staffed, x \in Heard : Hear(u, x)

Clock == LockExpires \/ \E i \in Processes : Ticking(i)

Faults ==
    \/ \E i \in Processes : TickFails(i) \/ Restart(i)
    \/ \E t \in Tasks, u \in Users, push \in BOOLEAN :
           StoreFails(t, u, push) /\ UNCHANGED clockVars
    \/ \E t \in Tasks : PushFails(t) /\ UNCHANGED clockVars

Opening == \E i \in Processes, u \in Openers : Nudge(i, u)

Next == Field \/ Opening \/ Clock \/ HourTurns \/ Delivery \/ Faults

Spec == Init /\ [][Next]_vars

\* Ticks come forever, their steps and the dispatches end, and the lock expires
\* so often that an instance with something to do finds it free.
Fairness ==
    /\ \A i \in Processes : SF_vars(Ticking(i))
    /\ WF_vars(LockExpires)
    /\ WF_vars(Delivery)

\* The types; no lock is set without Redis, and a tick under way has its hour.
TypeOK ==
    /\ NotifyTypeOK
    /\ standing \in [Staffed -> Heard]
    /\ hour \in 0 .. MaxHour
    /\ lastHour \in [Processes -> -1 .. MaxHour]
    /\ lock \in BOOLEAN /\ (lock => HasRedis)
    /\ tick \in [Processes -> {"idle", "agents", "ward", "lga"}]
    /\ run \in [Processes -> [hour : -1 .. MaxHour, silent : BOOLEAN]]
    /\ \A i \in Processes : tick[i] # "idle" => run[i].hour \in 0 .. MaxHour

\* Everybody who is due this hour has this hour's reminder.
AllReminded == \A u \in Staffed : Due(u) => <<KeyFor(hour, "agent"), u>> \in inbox
=============================================================================
