--------------------------- MODULE SituationProofs ----------------------------
(***************************************************************************)
(* Proofs about Pulse for every set of units, fields and reports.  What a  *)
(* row is allowed to hold needs no care about interleaving; what a report  *)
(* may do to the row it finds rests on the row it was merged with being    *)
(* that row, which holds when requests are served one at a time.           *)
(***************************************************************************)
EXTENDS Pulse, Reminders, TLAPS

Request == [unit : Units, report : Reports, previous : Rows]

\* A row that was written has a phase.
Real(row) == row.phase = "NONE" => row = NoPulse

\* The rows differ at most in the time of the last word.
Same(a, b) ==
    /\ a.phase = b.phase /\ a.says = b.says /\ a.observed = b.observed
    /\ a = NoPulse <=> b = NoPulse

PulseIInv ==
    /\ PulseTypeOK
    /\ \A r \in Slots : Real(req[r].previous)
    /\ ObservedWhileCounting

\* What a request read is still there when it writes.
Current ==
    \A r \in Slots : pc[r] = "write" => Same(req[r].previous, pulse[req[r].unit])

\* A single step, as the action properties describe it.
Honest ==
    /\ \A s \in said' : s.report.source # "MANUAL" =>
          Rank(pulse'[s.unit].phase) >= Rank(pulse[s.unit].phase)
    /\ \A s \in said', f \in Fields : s.report.says[f] = "NONE" =>
          pulse'[s.unit].says[f] = pulse[s.unit].says[f]
    /\ \A u \in Units :
          (\/ pulse'[u].phase # pulse[u].phase
           \/ \E f \in Alarming : Rises(f, pulse[u], pulse'[u])) =>
              \E s \in said' : s.unit = u /\ s.notified

-----------------------------------------------------------------------------
LEMMA RowTypes ==
    /\ NoPulse \in Rows /\ Real(NoPulse)
    /\ Idle \in Request /\ Idle.previous = NoPulse
    /\ \A x \in Reports : x \in Report
BY ReportsAreReports DEF Rows, NoPulse, MaxAge, Request, Idle, Real

LEMMA RankType == \A phase : Rank(phase) \in 0 .. 6
BY DEF Rank

\* A merged row is a row, has a phase, and holds totals only while counting.
LEMMA MergedRow ==
    ASSUME NEW x \in Report, NEW previous \in Rows, Real(previous)
    PROVE  /\ Merged(x, previous) \in Rows
           /\ Merged(x, previous).phase = PhaseAfter(x, previous)
           /\ Real(Merged(x, previous))
           /\ Merged(x, previous).observed # "NONE" => PhaseAfter(x, previous) = "COUNTING"
<1> DEFINE phase == PhaseAfter(x, previous)
<1>1. phase \in Phases
  <2>1. x.phase # "NONE" => Later(previous.phase, x.phase) \in Phases
    BY DEF Later, Rank, Rows, Report, Phases
  <2>2. QED BY <2>1 DEF PhaseAfter, Rows, Report, Phases, Real
<1>2. Merged(x, previous) \in Rows
  <2>1. phase \in Phases \cup {"NONE"} /\ 0 \in 0 .. MaxAge
    BY <1>1 DEF MaxAge
  <2>2. [f \in Fields |-> Given(x.says[f], previous.says[f])] \in [Fields -> Values \cup {"NONE"}]
    BY DEF Given, Rows, Report
  <2>3. (IF phase = "COUNTING" THEN Given(x.observed, previous.observed) ELSE "NONE")
            \in Leads \cup {"NONE"}
    BY DEF Given, Rows, Report
  <2> HIDE DEF phase
  <2>4. QED BY <2>1, <2>2, <2>3 DEF Merged, Rows, phase
<1>3. QED BY <1>1, <1>2 DEF Merged, Real, Phases

\* An inferred report never lowers the phase of the row it is merged with.
LEMMA InferredForward ==
    ASSUME NEW x \in Report, NEW previous \in Rows, x.source # "MANUAL"
    PROVE  Rank(PhaseAfter(x, previous)) >= Rank(previous.phase)
<1>1. x.phase # "NONE" => Rank(Later(previous.phase, x.phase)) >= Rank(previous.phase)
  BY RankType DEF Later
<1>2. Rank("CHECKED_IN") >= Rank(NoPulse.phase)
  BY DEF Rank, NoPulse
<1>3. Rank(previous.phase) >= Rank(previous.phase)
  BY RankType
<1>4. QED BY <1>1, <1>2, <1>3 DEF PhaseAfter

-----------------------------------------------------------------------------
LEMMA PulseInitIInv == PulseInit => PulseIInv /\ Current
<1> SUFFICES ASSUME PulseInit PROVE PulseIInv /\ Current
  OBVIOUS
<1>1. PulseTypeOK
  BY RowTypes DEF PulseInit, PulseTypeOK, Request
<1>2. (\A r \in Slots : Real(req[r].previous)) /\ Current
  BY RowTypes DEF PulseInit, Current
<1>3. ObservedWhileCounting
  BY DEF PulseInit, ObservedWhileCounting, NoPulse
<1>4. QED BY <1>1, <1>2, <1>3 DEF PulseIInv

\* A step that changes no row and moves one request to a good state.
LEMMA RequestStep ==
    ASSUME PulseIInv, NEW r \in Slots, NEW step \in {"idle", "read", "write"}, NEW q \in Request,
           Real(q.previous), Goto(r, step, q), pulse' = pulse, said' = {}
    PROVE  /\ PulseIInv' /\ Honest
           /\ (Current /\ (step = "write" => Same(q.previous, pulse[q.unit]))) => Current'
<1>1. PulseTypeOK'
  BY DEF PulseIInv, PulseTypeOK, Goto, Request
<1>2. \A a \in Slots : Real(req'[a].previous)
  BY DEF PulseIInv, PulseTypeOK, Goto
<1>3. ObservedWhileCounting'
  BY DEF PulseIInv, ObservedWhileCounting
<1>4. Honest
  BY DEF Honest, Rises
<1>5. Current /\ (step = "write" => Same(q.previous, pulse[q.unit])) => Current'
  BY DEF PulseIInv, PulseTypeOK, Goto, Current, Same
<1>6. QED BY <1>1, <1>2, <1>3, <1>4, <1>5 DEF PulseIInv

\* A row grows older, or is heard of without anything said.
LEMMA Aged ==
    ASSUME PulseIInv, NEW u \in Units, NEW age \in 0 .. MaxAge, pulse[u] # NoPulse \/ age = 0,
           pulse' = [pulse EXCEPT ![u].age = age]
    PROVE  /\ pulse' \in [Units -> Rows]
           /\ \A v \in Units : Real(pulse'[v]) /\ Same(pulse[v], pulse'[v])
<1>1. pulse[u] \in Rows /\ (pulse[u] # NoPulse => pulse[u].phase # "NONE")
  BY DEF PulseIInv, PulseTypeOK
<1>2. pulse'[u] = [pulse[u] EXCEPT !.age = age]
  BY DEF PulseIInv, PulseTypeOK
<1>3. /\ pulse'[u] \in Rows /\ pulse'[u].phase = pulse[u].phase
      /\ pulse'[u].says = pulse[u].says /\ pulse'[u].observed = pulse[u].observed
  BY <1>1, <1>2 DEF Rows
<1>4. pulse[u] = NoPulse <=> pulse'[u] = NoPulse
  <2>1. CASE pulse[u] = NoPulse
    BY <1>2, <2>1 DEF NoPulse
  <2>2. CASE pulse[u] # NoPulse
    BY <1>1, <1>3, <2>2 DEF NoPulse
  <2>3. QED BY <2>1, <2>2
<1>5. \A v \in Units \ {u} : pulse'[v] = pulse[v]
  BY DEF PulseIInv, PulseTypeOK
<1>6. QED BY <1>1, <1>3, <1>4, <1>5 DEF PulseIInv, PulseTypeOK, Real, Same

\* What a write does to the row, and what it says it did.
LEMMA WriteStep ==
    ASSUME PulseIInv, NEW r \in Slots, Write(r)
    PROVE  /\ PulseIInv'
           /\ (Current /\ \A a \in Slots : a = r) => Current' /\ Honest
<1> DEFINE u == req[r].unit
           x == req[r].report
           previous == req[r].previous
           beat == x.source = "HEARTBEAT"
           new == Merged(x, previous)
<1>1. u \in Units /\ x \in Report /\ previous \in Rows /\ Real(previous) /\ pc[r] = "write"
  BY RowTypes DEF PulseIInv, PulseTypeOK, Write
<1>2. /\ pulse' = IF beat THEN [pulse EXCEPT ![u].age = 0] ELSE [pulse EXCEPT ![u] = new]
      /\ said' = {[unit |-> u, report |-> x, notified |-> ~beat /\ Material(x, previous)]}
      /\ Goto(r, "idle", Idle)
  BY DEF Write
<1> HIDE DEF u, x, previous
<1>3. CASE beat
  <2>1. 0 \in 0 .. MaxAge
    BY DEF MaxAge
  <2>2. pulse' \in [Units -> Rows] /\ \A v \in Units : Real(pulse'[v]) /\ Same(pulse[v], pulse'[v])
    BY <1>1, <1>2, <1>3, <2>1, Aged
  <2>3. PulseIInv'
    <3>1. PulseTypeOK'
      BY <1>2, <2>2, RowTypes DEF PulseIInv, PulseTypeOK, Goto, Real, Request
    <3>2. \A a \in Slots : Real(req'[a].previous)
      BY <1>2, RowTypes DEF PulseIInv, PulseTypeOK, Goto
    <3>3. ObservedWhileCounting'
      BY <2>2 DEF PulseIInv, ObservedWhileCounting, Same
    <3>4. QED BY <3>1, <3>2, <3>3 DEF PulseIInv
  <2>4. (\A a \in Slots : a = r) => Current'
    BY <1>2 DEF PulseIInv, PulseTypeOK, Goto, Current
  <2>5. Honest
    BY <1>1, <1>2, <2>2, RankType DEF Honest, Same, Rises
  <2>6. QED BY <2>3, <2>4, <2>5
<1>4. CASE ~beat
  <2>1. pulse' = [pulse EXCEPT ![u] = new]
    BY <1>2, <1>4
  <2>2. /\ new \in Rows /\ Real(new) /\ new.phase = PhaseAfter(x, previous)
        /\ (new.observed # "NONE" => new.phase = "COUNTING")
    BY <1>1, MergedRow
  <2>3. PulseIInv'
    <3>1. PulseTypeOK'
      BY <1>1, <1>2, <2>1, <2>2, RowTypes DEF PulseIInv, PulseTypeOK, Goto, Real, Request
    <3>2. \A a \in Slots : Real(req'[a].previous)
      BY <1>2, RowTypes DEF PulseIInv, PulseTypeOK, Goto
    <3>3. ObservedWhileCounting'
      BY <1>1, <2>1, <2>2 DEF PulseIInv, PulseTypeOK, ObservedWhileCounting
    <3>4. QED BY <3>1, <3>2, <3>3 DEF PulseIInv
  <2>4. (\A a \in Slots : a = r) => Current'
    BY <1>2 DEF PulseIInv, PulseTypeOK, Goto, Current
  <2>5. ASSUME Current PROVE Honest
    <3>1. Same(previous, pulse[u])
      BY <1>1, <2>5 DEF Current, previous, u
    <3>2. pulse'[u] = new /\ \A v \in Units \ {u} : pulse'[v] = pulse[v]
      BY <1>1, <2>1 DEF PulseIInv, PulseTypeOK
    <3>3. x.source # "MANUAL" => Rank(new.phase) >= Rank(pulse[u].phase)
      BY <1>1, <2>2, <3>1, InferredForward DEF Same
    <3>4. \A f \in Fields : x.says[f] = "NONE" => new.says[f] = pulse[u].says[f]
      BY <3>1 DEF Merged, Given, Same
    <3>5. new.phase # pulse[u].phase \/ (\E f \in Alarming : Rises(f, pulse[u], new))
              => Material(x, previous)
      BY <2>2, <3>1 DEF Material, Rises, Same
    <3> HIDE DEF new
    <3>6. \A s \in said' : s.unit = u /\ s.report = x
      BY <1>2
    <3>7. (~beat /\ Material(x, previous)) => \E s \in said' : s.unit = u /\ s.notified
      BY <1>2
    <3>8. \A v \in Units :
             (\/ pulse'[v].phase # pulse[v].phase
              \/ \E f \in Alarming : Rises(f, pulse[v], pulse'[v])) => v = u
      BY <3>2 DEF Rises
    <3>9. QED BY <1>4, <3>2, <3>3, <3>4, <3>5, <3>6, <3>7, <3>8 DEF Honest
  <2>6. QED BY <2>3, <2>4, <2>5
<1>5. QED BY <1>3, <1>4

\* Every step keeps the invariant; when requests are served one at a time, it
\* also does only what its report says.
LEMMA PulseStepIInv ==
    ASSUME PulseIInv, [PulseNext]_pulseVars
    PROVE  /\ PulseIInv'
           /\ (Current /\ \A a, b \in Slots : a = b) => Current' /\ Honest
<1>1. ASSUME NEW r \in Slots, NEW u \in Units, NEW x \in Reports, Arrive(r, u, x)
      PROVE  PulseIInv' /\ Honest /\ (Current => Current')
  <2> DEFINE q == [Idle EXCEPT !.unit = u, !.report = x]
  <2>1. q \in Request /\ q.previous = NoPulse
    BY RowTypes DEF Request
  <2>2. Goto(r, "read", q) /\ pulse' = pulse /\ said' = {}
    BY <1>1 DEF Arrive
  <2> HIDE DEF q
  <2>3. QED BY <2>1, <2>2, RowTypes, RequestStep
<1>2. ASSUME NEW r \in Slots, Read(r)
      PROVE  PulseIInv' /\ Honest /\ (Current => Current')
  <2> DEFINE q == [req[r] EXCEPT !.previous = pulse[req[r].unit]]
  <2>1. /\ q \in Request /\ q.unit = req[r].unit /\ q.previous = pulse[req[r].unit]
        /\ Real(q.previous)
    BY DEF PulseIInv, PulseTypeOK, Request, Real
  <2>2. Goto(r, "idle", Idle) \/ Goto(r, "write", q)
    BY <1>2 DEF Read
  <2>3. pulse' = pulse /\ said' = {}
    BY <1>2 DEF Read
  <2>4. Same(q.previous, pulse[q.unit])
    BY <2>1 DEF Same
  <2> HIDE DEF q
  <2>5. CASE Goto(r, "idle", Idle)
    BY <2>3, <2>5, RowTypes, RequestStep
  <2>6. CASE Goto(r, "write", q)
    BY <2>1, <2>3, <2>4, <2>6, RequestStep
  <2>7. QED BY <2>2, <2>5, <2>6
<1>3. ASSUME NEW r \in Slots, Drop(r)
      PROVE  PulseIInv' /\ Honest /\ (Current => Current')
  <2>1. Goto(r, "idle", Idle) /\ pulse' = pulse /\ said' = {}
    BY <1>3 DEF Drop
  <2>2. QED BY <2>1, RowTypes, RequestStep
<1>4. ASSUME NEW u \in Units, Silence(u)
      PROVE  PulseIInv' /\ Honest /\ (Current => Current')
  <2>1. /\ pulse[u] # NoPulse /\ pulse' = [pulse EXCEPT ![u].age = pulse[u].age + 1]
        /\ said' = {} /\ pc' = pc /\ req' = req
    BY <1>4 DEF Silence, PulseIInv, PulseTypeOK
  <2>2. pulse[u].age + 1 \in 0 .. MaxAge
    BY <1>4 DEF Silence, PulseIInv, PulseTypeOK, Rows, MaxAge
  <2>3. pulse' \in [Units -> Rows] /\ \A v \in Units : Real(pulse'[v]) /\ Same(pulse[v], pulse'[v])
    BY <2>1, <2>2, Aged
  <2>4. PulseIInv'
    BY <2>1, <2>3 DEF PulseIInv, PulseTypeOK, ObservedWhileCounting, Same, Real
  <2>5. Honest
    BY <2>1, <2>3 DEF Honest, Same, Rises
  <2>6. Current => Current'
    BY <2>1, <2>3 DEF Current, Same, PulseIInv, PulseTypeOK
  <2>7. QED BY <2>4, <2>5, <2>6
<1>5. CASE UNCHANGED pulseVars
  <2>1. PulseIInv' /\ (Current => Current')
    BY <1>5 DEF pulseVars, PulseIInv, PulseTypeOK, ObservedWhileCounting, Current
  <2>2. Honest
    BY <1>5, RankType DEF pulseVars, Honest, Rises
  <2>3. QED BY <2>1, <2>2
<1>6. QED
  BY <1>1, <1>2, <1>3, <1>4, <1>5, WriteStep DEF PulseNext, PulseWork

-----------------------------------------------------------------------------
LEMMA PulseInvariance == PulseSpec => []PulseIInv
<1>1. PulseIInv /\ [PulseNext]_pulseVars => PulseIInv'
  BY PulseStepIInv
<1>2. QED BY PulseInitIInv, <1>1, PTL DEF PulseSpec

\* The types, whatever requests interleave.
THEOREM PulseTyped == PulseSpec => []PulseTypeOK
<1>1. PulseIInv => PulseTypeOK
  BY DEF PulseIInv
<1>2. QED BY <1>1, PulseInvariance, PTL

\* Totals are on a row only while its unit counts, whatever requests interleave.
THEOREM ObservedCorrect == PulseSpec => []ObservedWhileCounting
<1>1. PulseIInv => ObservedWhileCounting
  BY DEF PulseIInv
<1>2. QED BY <1>1, PulseInvariance, PTL

\* When requests are served one at a time: inferred reports never take a phase
\* back, no report undoes what it does not speak of, and every change of phase
\* and every new alarm is announced.
THEOREM ReportsCorrect ==
    ASSUME \A a, b \in Slots : a = b
    PROVE  PulseSpec => InferredNeverBack /\ UnspokenStands /\ ChangesAnnounced
<1>1. PulseIInv /\ Current /\ [PulseNext]_pulseVars => (PulseIInv /\ Current)' /\ Honest
  BY PulseStepIInv
<1>2. PulseSpec => [](PulseIInv /\ Current)
  BY PulseInitIInv, <1>1, PTL DEF PulseSpec
<1>3. PulseIInv /\ Current /\ [PulseNext]_pulseVars =>
        /\ \A s \in said' : s.report.source # "MANUAL" =>
              Rank(pulse'[s.unit].phase) >= Rank(pulse[s.unit].phase)
        /\ \A s \in said', f \in Fields : s.report.says[f] = "NONE" =>
              pulse'[s.unit].says[f] = pulse[s.unit].says[f]
        /\ \A u \in Units :
              (\/ pulse'[u].phase # pulse[u].phase
               \/ \E f \in Alarming : Rises(f, pulse[u], pulse'[u])) =>
                  \E s \in said' : s.unit = u /\ s.notified
  BY <1>1 DEF Honest
<1>4. QED BY <1>2, <1>3, PTL DEF PulseSpec, InferredNeverBack, UnspokenStands, ChangesAnnounced

\* Served one at a time, what is inferred of a unit (a check-in, a heartbeat, an incident, a
\* result; ingestInferredPulse) never takes its phase back.
THEOREM NeverBackCorrect ==
    ASSUME \A a, b \in Slots : a = b
    PROVE  PulseSpec => InferredNeverBack
BY ReportsCorrect
-----------------------------------------------------------------------------
(***************************************************************************)
(* Proofs about Reminders for any number of users, hours, API instances    *)
(* and dispatches at once, whatever ticks overlap and whatever dies: a     *)
(* dispatch owes a push only to those whose row it has stored itself, the  *)
(* rows are unique, and no dispatch pays twice.                            *)
(***************************************************************************)

Pairs == Keys \X Users

\* Dispatch t will push the event of pair n to its recipient.
Owes(t, n) == n[1] \in task[t].key /\ n[2] \in task[t].push

\* A dispatch under way has one event, and a free number nothing.
OneEvent(k) ==
    \/ k.key = {} /\ k.left = {} /\ k.push = {}
    \/ \E key \in Keys : k.key = {key}

NoteInv ==
    /\ NotifyTypeOK
    /\ \A t \in Tasks : OneEvent(task[t])
    /\ PushedOnce
    /\ \A t \in Tasks, n \in Pairs : Owes(t, n) => n \in inbox /\ pushes[n] = 0
    /\ \A t, o \in Tasks, n \in Pairs : Owes(t, n) /\ Owes(o, n) => t = o

ClockOK ==
    /\ standing \in [Staffed -> Heard]
    /\ hour \in 0 .. MaxHour
    /\ lastHour \in [Processes -> -1 .. MaxHour]
    /\ lock \in BOOLEAN /\ (lock => HasRedis)
    /\ tick \in [Processes -> {"idle", "agents", "ward", "lga"}]
    /\ run \in [Processes -> [hour : -1 .. MaxHour, silent : BOOLEAN]]
    /\ \A i \in Processes : tick[i] # "idle" => run[i].hour \in 0 .. MaxHour

RemindersIInv == NoteInv /\ ClockOK

-----------------------------------------------------------------------------
(* The dispatches.                                                          *)

LEMMA KeyOfFact == ASSUME NEW t \in Tasks, NEW key \in Keys, task[t].key = {key}
                   PROVE  KeyOf(t) = key
BY DEF KeyOf

LEMMA NotifyInitInv == NotifyInit => NoteInv
<1> SUFFICES ASSUME NotifyInit PROVE NoteInv
  OBVIOUS
<1>1. NotifyTypeOK
  BY DEF NotifyInit, NotifyTypeOK, NoTask
<1>2. \A t \in Tasks : task[t].key = {} /\ task[t].left = {} /\ task[t].push = {}
  BY DEF NotifyInit, NoTask
<1>3. PushedOnce
  BY DEF NotifyInit, PushedOnce
<1>4. QED BY <1>1, <1>2, <1>3 DEF NoteInv, OneEvent, Owes

\* A step after which every dispatch owes nothing that it did not owe before.
LEMMA OwesLess ==
    ASSUME NoteInv, NotifyTypeOK', UNCHANGED <<inbox, pushes>>,
           \A t \in Tasks : OneEvent(task'[t]),
           \A t \in Tasks, n \in Pairs : Owes(t, n)' => Owes(t, n)
    PROVE  NoteInv'
<1>1. PushedOnce'
  BY DEF NoteInv, PushedOnce
<1>2. QED BY <1>1 DEF NoteInv, OneEvent

LEMMA DispatchInv ==
    ASSUME NoteInv, NEW i \in Processes, NEW key \in Keys,
           NEW recipients \in SUBSET (Users \X BOOLEAN), Dispatch(i, key, recipients)
    PROVE  NoteInv'
<1> DEFINE new == [at |-> {i}, key |-> {key}, left |-> recipients, push |-> {}]
<1>1. PICK t \in Tasks : task' = [task EXCEPT ![t] = new] /\ UNCHANGED <<inbox, pushes>>
  BY DEF Dispatch
<1>2. NotifyTypeOK'
  BY <1>1 DEF NoteInv, NotifyTypeOK
<1>3. task'[t] = new /\ \A o \in Tasks \ {t} : task'[o] = task[o]
  BY <1>1 DEF NoteInv, NotifyTypeOK
<1>4. \A o \in Tasks : OneEvent(task'[o])
  BY <1>3 DEF NoteInv, OneEvent
<1>5. \A o \in Tasks, n \in Pairs : Owes(o, n)' => Owes(o, n)
  BY <1>3 DEF Owes
<1>6. QED BY <1>1, <1>2, <1>4, <1>5, OwesLess

LEMMA StoreInv ==
    ASSUME NoteInv, NEW t \in Tasks, NEW u \in Users, NEW push \in BOOLEAN, Store(t, u, push)
    PROVE  NoteInv'
<1>1. PICK key \in Keys : task[t].key = {key}
  BY DEF Store, NoteInv, OneEvent
<1> DEFINE n == <<key, u>>
<1>2. n \in Pairs /\ KeyOf(t) = key
  BY <1>1, KeyOfFact DEF Pairs
<1>3. inbox' = inbox \cup {n} /\ pushes' = pushes
  BY <1>2 DEF Store
<1>4. task[t] \in [at : SUBSET Processes, key : SUBSET Keys,
                   left : SUBSET (Users \X BOOLEAN), push : SUBSET Users]
  BY DEF NoteInv, NotifyTypeOK
<1>5. PICK left \in SUBSET (Users \X BOOLEAN), due \in SUBSET Users :
        /\ task' = [task EXCEPT ![t] = [task[t] EXCEPT !.left = left, !.push = due]]
        /\ due = task[t].push \/ (due = task[t].push \cup {u} /\ n \notin inbox)
  <2> DEFINE left == task[t].left \ {<<u, push>>}
             due == IF push /\ n \notin inbox THEN task[t].push \cup {u} ELSE task[t].push
  <2>1. task' = [task EXCEPT ![t].left = left, ![t].push = due]
    BY <1>2 DEF Store
  <2>2. left \in SUBSET (Users \X BOOLEAN) /\ due \in SUBSET Users
    BY <1>4
  <2>3. task' = [task EXCEPT ![t] = [task[t] EXCEPT !.left = left, !.push = due]]
    BY <2>1 DEF NoteInv, NotifyTypeOK
  <2>4. QED BY <2>2, <2>3
<1>6. /\ task'[t].key = {key} /\ task'[t].push = due
      /\ \A o \in Tasks \ {t} : task'[o] = task[o]
      /\ NotifyTypeOK'
  BY <1>1, <1>2, <1>3, <1>4, <1>5 DEF NoteInv, NotifyTypeOK, Pairs
<1>7. \A o \in Tasks : OneEvent(task'[o])
  BY <1>6 DEF NoteInv, OneEvent
<1>8. \A o \in Tasks, m \in Pairs : Owes(o, m)' => Owes(o, m) \/ (o = t /\ m = n /\ n \notin inbox)
  <2> TAKE o \in Tasks, m \in Pairs
  <2>1. CASE o # t
    BY <1>6, <2>1 DEF Owes
  <2>2. CASE o = t
    <3>1. Owes(o, m)' => m[1] = key /\ m[2] \in due
      BY <1>6, <2>2 DEF Owes
    <3>2. Owes(o, m) <=> m[1] = key /\ m[2] \in task[t].push
      BY <1>1, <2>2 DEF Owes
    <3>3. m = <<m[1], m[2]>>
      BY DEF Pairs
    <3>4. QED BY <1>5, <2>2, <3>1, <3>2, <3>3
  <2>3. QED BY <2>1, <2>2
<1>9. PushedOnce'
  BY <1>3 DEF NoteInv, PushedOnce
<1>10. n \notin inbox => pushes[n] = 0
  BY <1>2 DEF NoteInv, NotifyTypeOK, PushedOnce, Pairs
<1>11. \A o \in Tasks, m \in Pairs : Owes(o, m)' => m \in inbox' /\ pushes'[m] = 0
  BY <1>3, <1>8, <1>10 DEF NoteInv
<1>12. \A o, p \in Tasks, m \in Pairs : Owes(o, m)' /\ Owes(p, m)' => o = p
  BY <1>8 DEF NoteInv
<1>13. QED BY <1>6, <1>7, <1>9, <1>11, <1>12 DEF NoteInv

LEMMA StoreFailsInv ==
    ASSUME NoteInv, NEW t \in Tasks, NEW u \in Users, NEW push \in BOOLEAN, StoreFails(t, u, push)
    PROVE  NoteInv'
<1> DEFINE rest == task[t].left \ {<<u, push>>}
<1>1. task[t] \in [at : SUBSET Processes, key : SUBSET Keys,
                   left : SUBSET (Users \X BOOLEAN), push : SUBSET Users]
  BY DEF NoteInv, NotifyTypeOK
<1>2. task' = [task EXCEPT ![t] = [task[t] EXCEPT !.left = rest]]
  BY DEF StoreFails, NoteInv, NotifyTypeOK
<1>3. rest \in SUBSET (Users \X BOOLEAN)
  BY <1>1
<1>4. NotifyTypeOK'
  <2> HIDE DEF rest
  <2>1. QED BY <1>1, <1>2, <1>3 DEF StoreFails, NoteInv, NotifyTypeOK
<1>5. /\ task'[t].key = task[t].key /\ task'[t].push = task[t].push
      /\ \A o \in Tasks \ {t} : task'[o] = task[o]
  <2> HIDE DEF rest
  <2>1. QED BY <1>1, <1>2 DEF NoteInv, NotifyTypeOK
<1>6. task[t].left # {}
  BY DEF StoreFails
<1>7. \A o \in Tasks : OneEvent(task'[o])
  BY <1>5, <1>6 DEF NoteInv, OneEvent
<1>8. \A o \in Tasks, n \in Pairs : Owes(o, n)' => Owes(o, n)
  BY <1>5 DEF Owes
<1>9. UNCHANGED <<inbox, pushes>>
  BY DEF StoreFails
<1>10. QED BY <1>4, <1>7, <1>8, <1>9, OwesLess

LEMMA PushInv ==
    ASSUME NoteInv, NEW t \in Tasks, Push(t)
    PROVE  NoteInv'
<1>1. CASE \E key \in Keys : task[t].key = {key}
  <2>1. PICK key \in Keys : task[t].key = {key}
    BY <1>1
  <2>2. KeyOf(t) = key
    BY <2>1, KeyOfFact
  <2>3. pushes' = [n \in Pairs |-> IF Owes(t, n) THEN pushes[n] + 1 ELSE pushes[n]]
    BY <2>1, <2>2 DEF Push, Pairs, Owes
  <2>4. \A n \in Pairs : pushes[n] \in 0 .. 2
    BY DEF NoteInv, NotifyTypeOK, Pairs
  <2>5. \A n \in Pairs : pushes'[n] = IF Owes(t, n) THEN 1 ELSE pushes[n]
    BY <2>3 DEF NoteInv
  <2>6. inbox' = inbox /\ task' = [task EXCEPT ![t] = NoTask]
    BY DEF Push
  <2>7. task'[t] = NoTask /\ \A o \in Tasks \ {t} : task'[o] = task[o]
    BY <2>6 DEF NoteInv, NotifyTypeOK
  <2>8. NotifyTypeOK'
    <3>1. pushes' \in [Keys \X Users -> 0 .. 2]
      BY <2>3, <2>4, <2>5 DEF Pairs
    <3>2. QED BY <3>1, <2>6 DEF NoteInv, NotifyTypeOK, NoTask
  <2>9. \A o \in Tasks : OneEvent(task'[o])
    BY <2>7 DEF NoteInv, OneEvent, NoTask
  <2>10. PushedOnce'
    BY <2>5, <2>6 DEF NoteInv, PushedOnce, Pairs
  <2>11. \A o \in Tasks, n \in Pairs : Owes(o, n)' => o # t /\ Owes(o, n)
    BY <2>7 DEF Owes, NoTask
  <2>12. \A o \in Tasks, n \in Pairs : Owes(o, n)' => n \in inbox' /\ pushes'[n] = 0
    BY <2>5, <2>6, <2>11 DEF NoteInv
  <2>13. \A o, p \in Tasks, n \in Pairs : Owes(o, n)' /\ Owes(p, n)' => o = p
    BY <2>11 DEF NoteInv
  <2>14. QED BY <2>8, <2>9, <2>10, <2>12, <2>13 DEF NoteInv
<1>2. CASE task[t].key = {} /\ task[t].left = {} /\ task[t].push = {}
  <2>1. pushes' = pushes
    BY <1>2 DEF Push, NoteInv, NotifyTypeOK
  <2>2. inbox' = inbox /\ task' = [task EXCEPT ![t] = NoTask]
    BY DEF Push
  <2>3. task'[t] = NoTask /\ \A o \in Tasks \ {t} : task'[o] = task[o]
    BY <2>2 DEF NoteInv, NotifyTypeOK
  <2>4. NotifyTypeOK'
    BY <2>1, <2>2 DEF NoteInv, NotifyTypeOK, NoTask
  <2>5. \A o \in Tasks : OneEvent(task'[o])
    BY <2>3 DEF NoteInv, OneEvent, NoTask
  <2>6. \A o \in Tasks, n \in Pairs : Owes(o, n)' => Owes(o, n)
    BY <2>3 DEF Owes, NoTask
  <2>7. QED BY <2>1, <2>2, <2>4, <2>5, <2>6, OwesLess
<1>3. QED BY <1>1, <1>2 DEF NoteInv, OneEvent

LEMMA DispatchesDieInv ==
    ASSUME NoteInv, NEW i \in Processes, DispatchesDie(i)
    PROVE  NoteInv'
<1>1. /\ task' = [t \in Tasks |-> IF i \in task[t].at THEN NoTask ELSE task[t]]
      /\ UNCHANGED <<inbox, pushes>>
  BY DEF DispatchesDie
<1>2. NotifyTypeOK'
  BY <1>1 DEF NoteInv, NotifyTypeOK, NoTask
<1>3. \A t \in Tasks : task'[t] = NoTask \/ task'[t] = task[t]
  BY <1>1
<1>4. \A t \in Tasks : OneEvent(task'[t])
  BY <1>3 DEF NoteInv, OneEvent, NoTask
<1>5. \A t \in Tasks, n \in Pairs : Owes(t, n)' => Owes(t, n)
  BY <1>3 DEF Owes, NoTask
<1>6. QED BY <1>1, <1>2, <1>4, <1>5, OwesLess

LEMMA PushFailsInv ==
    ASSUME NoteInv, NEW t \in Tasks, PushFails(t)
    PROVE  NoteInv'
<1>1. task' = [task EXCEPT ![t] = NoTask] /\ UNCHANGED <<inbox, pushes>>
  BY DEF PushFails
<1>2. NotifyTypeOK'
  BY <1>1 DEF NoteInv, NotifyTypeOK, NoTask
<1>3. task'[t] = NoTask /\ \A o \in Tasks \ {t} : task'[o] = task[o]
  BY <1>1 DEF NoteInv, NotifyTypeOK
<1>4. \A o \in Tasks : OneEvent(task'[o])
  BY <1>3 DEF NoteInv, OneEvent, NoTask
<1>5. \A o \in Tasks, n \in Pairs : Owes(o, n)' => Owes(o, n)
  BY <1>3 DEF Owes, NoTask
<1>6. QED BY <1>1, <1>2, <1>4, <1>5, OwesLess

LEMMA NoteStutter == NoteInv /\ UNCHANGED noteVars => NoteInv'
BY DEF NoteInv, noteVars, NotifyTypeOK, OneEvent, PushedOnce, Owes

-----------------------------------------------------------------------------
(* The ticks.                                                               *)

LEMMA AnyKey == ASSUME NEW h \in 0 .. MaxHour, NEW u PROVE KeyFor(h, AudienceOf(u)) \in Keys
<1>1. AudienceOf(u) \in Audiences
  BY DEF AudienceOf, Audiences
<1>2. QED BY <1>1, ReminderKeys

LEMMA RemindInv ==
    ASSUME NoteInv, NEW i \in Processes, NEW h \in 0 .. MaxHour,
           NEW recipients \in SUBSET Users, Remind(i, h, recipients)
    PROVE  NoteInv'
<1>1. CASE recipients = {}
  BY <1>1, NoteStutter DEF Remind
<1>2. CASE recipients # {}
  <2> DEFINE key == KeyFor(h, AudienceOf(CHOOSE u \in recipients : TRUE))
  <2>1. Dispatch(i, key, recipients \X {TRUE})
    BY <1>2 DEF Remind
  <2>2. key \in Keys
    BY AnyKey
  <2>3. recipients \X {TRUE} \in SUBSET (Users \X BOOLEAN)
    OBVIOUS
  <2>4. QED
    <3> HIDE DEF key
    <3>1. QED BY <2>1, <2>2, <2>3, DispatchInv
<1>3. QED BY <1>1, <1>2

LEMMA NoRunOK == NoRun \in [hour : -1 .. MaxHour, silent : BOOLEAN]
BY Recipients DEF NoRun

LEMMA InitInv == Init => RemindersIInv
<1> SUFFICES ASSUME Init PROVE RemindersIInv
  OBVIOUS
<1>1. NoteInv
  BY NotifyInitInv DEF Init
<1>2. hour \in 0 .. MaxHour /\ -1 \in -1 .. MaxHour
  BY Recipients DEF Init
<1>3. ClockOK
  BY <1>2, NoRunOK, Recipients DEF Init, ClockOK
<1>4. QED BY <1>1, <1>3 DEF RemindersIInv

\* A step of a tick that keeps the hour, or takes a real one, or gives up.
LEMMA StepOK ==
    ASSUME ClockOK, NEW i \in Processes, NEW next \in {"idle", "agents", "ward", "lga"},
           NEW local \in [hour : -1 .. MaxHour, silent : BOOLEAN],
           next # "idle" => local.hour \in 0 .. MaxHour, Step(i, next, local),
           standing' = standing, hour' = hour, lastHour' \in [Processes -> -1 .. MaxHour],
           lock' \in BOOLEAN /\ (lock' => HasRedis)
    PROVE  ClockOK'
BY DEF ClockOK, Step

LEMMA Types == ClockOK => \A i \in Processes :
                   /\ run[i] \in [hour : -1 .. MaxHour, silent : BOOLEAN]
                   /\ run[i].hour \in -1 .. MaxHour
BY DEF ClockOK

LEMMA TickingInv ==
    ASSUME RemindersIInv, NEW i \in Processes, Ticking(i)
    PROVE  RemindersIInv'
<1> USE DEF RemindersIInv
<1>1. CASE Tick(i)
  <2>1. hour \in 0 .. MaxHour
    BY DEF ClockOK
  <2>2. hour \in -1 .. MaxHour
    BY <2>1, Recipients
  <2>3. [hour |-> hour, silent |-> FALSE] \in [hour : -1 .. MaxHour, silent : BOOLEAN]
    BY <2>2
  <2>4. ClockOK'
    BY <1>1, <2>1, <2>3, StepOK, Recipients DEF Tick, ClockOK
  <2>5. QED BY <1>1, <2>4, NoteStutter DEF Tick
<1>2. CASE RemindAgents(i)
  <2> DEFINE local == [run[i] EXCEPT !.silent = \E u \in Staffed : standing[u] = "silent"]
  <2>1. run[i].hour \in 0 .. MaxHour
    BY <1>2 DEF RemindAgents, ClockOK
  <2>2. {u \in Staffed : Due(u)} \in SUBSET Users
    BY Recipients
  <2>3. NoteInv'
    BY <1>2, <2>1, <2>2, RemindInv DEF RemindAgents
  <2>4. local \in [hour : -1 .. MaxHour, silent : BOOLEAN] /\ local.hour = run[i].hour
    BY Types
  <2>5. Step(i, "ward", local) /\ UNCHANGED <<standing, hour, lastHour, lock>>
    BY <1>2 DEF RemindAgents
  <2>6. ClockOK'
    <3> HIDE DEF local
    <3>1. QED BY <2>1, <2>4, <2>5, StepOK DEF ClockOK
  <2>7. QED BY <2>3, <2>6
<1>3. CASE RemindWard(i)
  <2>1. run[i].hour \in 0 .. MaxHour
    BY <1>3 DEF RemindWard, ClockOK
  <2>2. NoteInv'
    BY <1>3, <2>1, RemindInv, Recipients DEF RemindWard
  <2>3. ClockOK'
    BY <1>3, <2>1, Types, StepOK DEF RemindWard, ClockOK
  <2>4. QED BY <2>2, <2>3
<1>4. CASE RemindLga(i)
  <2>1. run[i].hour \in 0 .. MaxHour
    BY <1>4 DEF RemindLga, ClockOK
  <2>2. NoteInv'
    BY <1>4, <2>1, RemindInv, Recipients DEF RemindLga
  <2>3. lastHour' \in [Processes -> -1 .. MaxHour]
    BY <1>4, <2>1 DEF RemindLga, ClockOK
  <2>4. ClockOK'
    BY <1>4, <2>3, NoRunOK, StepOK DEF RemindLga, ClockOK
  <2>5. QED BY <2>2, <2>4
<1>5. QED BY <1>1, <1>2, <1>3, <1>4 DEF Ticking

LEMMA NextInv == ASSUME RemindersIInv, [Next]_vars PROVE RemindersIInv'
<1> USE DEF RemindersIInv
<1>1. ASSUME UNCHANGED clockVars PROVE ClockOK'
  BY <1>1 DEF ClockOK, clockVars
<1>2. CASE Field
  BY <1>2, NoteStutter DEF Field, Hear, ClockOK
<1>3. CASE Opening
  <2>1. PICK i \in Processes, u \in Openers : Nudge(i, u)
    BY <1>3 DEF Opening
  <2>2. hour \in 0 .. MaxHour
    BY DEF ClockOK
  <2>3. KeyFor(hour, AudienceOf(u)) \in Keys
    BY <2>2, AnyKey
  <2>4. {<<u, FALSE>>} \in SUBSET (Users \X BOOLEAN)
    <3>1. u \in Users
      BY Recipients
    <3>2. <<u, FALSE>> \in Users \X BOOLEAN
      BY <3>1, Zenon
    <3>3. QED BY <3>2, Zenon
  <2>5. NoteInv'
    BY <2>1, <2>3, <2>4, DispatchInv DEF Nudge
  <2>6. QED BY <1>1, <2>1, <2>5 DEF Nudge
<1>4. CASE Clock
  <2>1. CASE LockExpires
    BY <2>1, NoteStutter DEF LockExpires, ClockOK
  <2>2. QED BY <1>4, <2>1, TickingInv DEF Clock
<1>5. CASE HourTurns
  BY <1>5, NoteStutter, Recipients DEF HourTurns, ClockOK
<1>6. CASE Delivery
  BY <1>1, <1>6, StoreInv, PushInv DEF Delivery, Deliver
<1>7. CASE Faults
  <2>1. ASSUME NEW i \in Processes, TickFails(i) PROVE RemindersIInv'
    BY <2>1, NoteStutter, StepOK, NoRunOK DEF TickFails, ClockOK
  <2>2. ASSUME NEW i \in Processes, Restart(i) PROVE RemindersIInv'
    <3>1. lastHour' \in [Processes -> -1 .. MaxHour]
      BY <2>2, Recipients DEF Restart, ClockOK
    <3>2. QED BY <2>2, <3>1, DispatchesDieInv, StepOK, NoRunOK DEF Restart, ClockOK
  <2>3. ASSUME NEW t \in Tasks, NEW u \in Users, NEW push \in BOOLEAN,
               StoreFails(t, u, push), UNCHANGED clockVars
        PROVE  RemindersIInv'
    BY <1>1, <2>3, StoreFailsInv
  <2>4. ASSUME NEW t \in Tasks, PushFails(t), UNCHANGED clockVars PROVE RemindersIInv'
    BY <1>1, <2>4, PushFailsInv
  <2>5. QED BY <1>7, <2>1, <2>2, <2>3, <2>4 DEF Faults
<1>8. CASE UNCHANGED vars
  BY <1>1, <1>8, NoteStutter DEF vars
<1>9. QED BY <1>2, <1>3, <1>4, <1>5, <1>6, <1>7, <1>8 DEF Next

\* The inductive invariant: of all dispatches at most one owes a recipient the
\* push of an event, it has stored the row, and nobody has pushed it yet.
THEOREM RemindersInvariance == Spec => []RemindersIInv
<1>1. RemindersIInv /\ [Next]_vars => RemindersIInv'
  BY NextInv
<1>2. QED BY <1>1, InitInv, PTL DEF Spec

\* The types, and that a tick under way works for an hour of the day.
THEOREM RemindersTyped == Spec => []TypeOK
<1>1. RemindersIInv => TypeOK
  BY DEF RemindersIInv, NoteInv, ClockOK, TypeOK
<1>2. QED BY <1>1, RemindersInvariance, PTL

\* Unique rows absorb overlapping ticks and nudges: nobody is pushed twice for
\* one event, whoever ticks, and whatever fails, restarts or loses the lock.
THEOREM PushedOnceCorrect == Spec => []PushedOnce
<1>1. RemindersIInv => PushedOnce
  BY DEF RemindersIInv, NoteInv
<1>2. QED BY <1>1, RemindersInvariance, PTL
=============================================================================
