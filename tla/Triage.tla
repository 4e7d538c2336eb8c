------------------------------- MODULE Triage -------------------------------
(***************************************************************************)
(* The risk board (modules/ai/triage): every API instance sweeps all       *)
(* states and LGAs on a timer, under a Redis lock nobody releases, drains  *)
(* the places its own events marked, and scores the wards of an LGA for an *)
(* urgent event or an operator who opens it.  All of them write the same   *)
(* rows by one loop, persistScores: collect the signals, read the rows,    *)
(* then write one row after the other.                                     *)
(*                                                                         *)
(* The signals live in the wards; a ward is in one of a few Situations.    *)
(* Social listening is off and the campaign has a party, so two inputs of  *)
(* TriageScoring are fixed.                                                *)
(***************************************************************************)
EXTENDS TriageScoring, SequencesExt

CONSTANTS
    Wards, LGAs, States,
    Above,          \* the LGA of a ward and the state of an LGA
    Situations,     \* the positions a ward can be in
    Instances,      \* API instances
    HasRedis,       \* is a Redis connected?
    Overlap,        \* may two jobs run at once?
    Acknowledged,   \* places somebody takes responsibility for
    Opened          \* LGAs whose wards an operator opens

Board == LGAs \cup States
Scopes == Wards \cup Board

ASSUME Places ==
    /\ Wards \cap Board = {} /\ LGAs \cap States = {}
    /\ DOMAIN Above = Wards \cup LGAs
    /\ \A w \in Wards : Above[w] \in LGAs
    /\ \A l \in LGAs : Above[l] \in States
    /\ Acknowledged \subseteq Scopes /\ Opened \subseteq LGAs

ASSUME Switches == HasRedis \in BOOLEAN /\ Overlap \in BOOLEAN

Kinds == {"sweep", "drain", "pass"}
Workers == Instances \X Kinds

VARIABLES
    now,      \* the situation of each ward
    row,      \* the TriageScore row of each place, NoRow when there is none
    ack,      \* the risk somebody acknowledged, "NONE" when no ack stands
    lock,     \* is the sweep lock set?
    cooling,  \* LGAs whose urgent ward pass is cooling down
    dirty,    \* places each instance has marked
    pc,       \* what each worker does next
    job,      \* what it has in its local variables
    alerts    \* the notifications the last step sent

vars == <<now, row, ack, lock, cooling, dirty, pc, job, alerts>>

\* The fingerprint of a row is in a set, which is empty when there is no row.
NoRow == [print |-> {}, score |-> 0, risk |-> "NONE", outlook |-> "UNKNOWN"]

NoJob == [batches |-> <<>>, inputs |-> <<>>, before |-> <<>>, left |-> {},
          moved |-> {}, hot |-> FALSE]

WardsOf(s) ==
    {w \in Wards : w = s \/ Above[w] = s \/ Above[Above[w]] = s}

WardsUnder(l) == {w \in Wards : Above[w] = l}

LevelOf(s) == IF s \in Wards THEN "WARD" ELSE IF s \in LGAs THEN "LGA" ELSE "STATE"

\* loadPuResultsByLga and countPollingUnitsByLga: a number of the sheets and units of
\* a place.
Total(at, s, field) == MapThenSumSet(LAMBDA w : at[w][field], WardsOf(s))

\* loadOpenIncidentsByChild: how many incidents of each kind are open.
OpenIncidents(at, s) ==
    [k \in Incidents |-> MapThenSumSet(LAMBDA w : at[w].incidents[k], WardsOf(s))]

\* loadLastSignalByLga: the time since the newest submission, Absent without one.
Silence(at, s) ==
    LET heard == {at[w].silence : w \in WardsOf(s)} \ {Absent}
    IN  IF heard = {} THEN Absent ELSE Min(heard)

\* collect and collectChildren: the signals of a place whose wards are in the
\* given situations.
InputsFrom(at, s) ==
    [level |-> LevelOf(s), party |-> TRUE, election |-> TRUE,
     negative |-> Absent, posts |-> 0, silence |-> Silence(at, s),
     total |-> Total(at, s, "total"), reported |-> Total(at, s, "reported"),
     client |-> Total(at, s, "client"), rival |-> Total(at, s, "rival"),
     votes |-> Total(at, s, "votes"), registered |-> Total(at, s, "registered"),
     accredited |-> Total(at, s, "accredited"), scored |-> Total(at, s, "scored"),
     flagged |-> Total(at, s, "flagged"), checkPhoto |-> Total(at, s, "checkPhoto"),
     incidents |-> OpenIncidents(at, s)]

\* Only what is in its own wards reaches a place.
InputsAt(at, s) == InputsFrom([w \in WardsOf(s) |-> at[w]], s)

InputsOf(s) == InputsAt(now, s)

Init ==
    /\ now \in [Wards -> Situations]
    /\ row = [s \in Scopes |-> NoRow]
    /\ ack = [s \in Scopes |-> "NONE"]
    /\ lock = FALSE
    /\ cooling = {}
    /\ dirty = [i \in Instances |-> {}]
    /\ pc = [v \in Workers |-> "idle"]
    /\ job = [v \in Workers |-> NoJob]
    /\ alerts = {}

Quiet == \A v \in Workers : pc[v] = "idle"

Goto(v, step, j) ==
    /\ pc' = [pc EXCEPT ![v] = step]
    /\ job' = [job EXCEPT ![v] = j]

\* Worker v starts on the batches, one persistScores each.
Start(v, batches) ==
    /\ pc[v] = "idle"
    /\ Overlap \/ Quiet
    /\ Goto(v, "collect", [NoJob EXCEPT !.batches = batches])

\* The batch is done: go on with the next, look for hot LGAs once, or end.
EndBatch(v, j) ==
    LET next == [NoJob EXCEPT !.batches = Tail(j.batches), !.hot = j.hot]
    IN  CASE Len(j.batches) > 1 -> Goto(v, "collect", next)
          [] Len(j.batches) = 1 /\ v[2] = "sweep" /\ ~j.hot -> Goto(v, "hot", next)
          [] OTHER -> Goto(v, "idle", NoJob)

-----------------------------------------------------------------------------
(* What happens in the field.                                               *)

Urgent(situation) ==
    \E k \in Incidents : situation.incidents[k] > 0 /\
        (k.urgent \/ k.severity \in {"HIGH", "CRITICAL"})

\* (Mutant: the state above is not marked.)
ReportLgaOnly(i, w, situation) ==
    /\ situation # now[w]
    /\ now' = [now EXCEPT ![w] = situation]
    /\ dirty' = [dirty EXCEPT ![i] = @ \cup {Above[w]}]
    /\ alerts' = {}
    /\ UNCHANGED <<row, ack, lock, cooling, pc, job>>

\* A report or a result reaches instance i, which marks the LGA and the state
\* and, when it is urgent, scores the wards of the LGA at most once a minute.
\* (Bound: an urgent event arrives when its instance has no ward pass running.)
Report(i, w, situation) ==
    LET lga == Above[w]
    IN  /\ situation # now[w]
        /\ now' = [now EXCEPT ![w] = situation]
        /\ dirty' = [dirty EXCEPT ![i] = @ \cup {lga, Above[lga]}]
        /\ IF Urgent(situation) /\ lga \notin cooling
           THEN /\ cooling' = cooling \cup {lga}
                /\ Start(<<i, "pass">>, <<WardsUnder(lga)>>)
           ELSE UNCHANGED <<cooling, pc, job>>
        /\ alerts' = {}
        /\ UNCHANGED <<row, ack, lock>>

\* Time passes: incidents age and places fall silent, without any event.  None
\* of what a fingerprint counts changes, in the ward or above it.
Age(w, situation) ==
    LET later == [now EXCEPT ![w] = situation]
    IN  /\ situation # now[w]
        /\ \A s \in {w, Above[w], Above[Above[w]]} :
               Fingerprint(InputsAt(later, s)) = Fingerprint(InputsOf(s))
        /\ now' = later
        /\ alerts' = {}
        /\ UNCHANGED <<row, ack, lock, cooling, dirty, pc, job>>

\* Something changes whose event is never handled: a returned sheet is edited
\* (upsertResult emits none), or the emitting handler fails before it emits.
ChangeUnseen(w, situation) ==
    /\ situation # now[w]
    /\ now' = [now EXCEPT ![w] = situation]
    /\ alerts' = {}
    /\ UNCHANGED <<row, ack, lock, cooling, dirty, pc, job>>

\* Somebody takes responsibility for a place that has a row.
Acknowledge(s) ==
    /\ row[s] # NoRow
    /\ ack' = [ack EXCEPT ![s] = row[s].risk]
    /\ alerts' = {}
    /\ UNCHANGED <<now, row, lock, cooling, dirty, pc, job>>

-----------------------------------------------------------------------------
(* The timers.                                                              *)

\* tick: the sweep starts unless another holds the lock, states first.
SweepTick(i) ==
    /\ HasRedis => ~lock
    /\ lock' = HasRedis
    /\ Start(<<i, "sweep">>, <<States, LGAs>>)
    /\ alerts' = {}
    /\ UNCHANGED <<now, row, ack, cooling, dirty>>

\* takeDirty: a batch for each level that has a mark.
TakeDirty(marks) ==
    IF marks \cap LGAs = {} THEN <<marks \cap States>>
    ELSE IF marks \cap States = {} THEN <<marks \cap LGAs>>
    ELSE <<marks \cap States, marks \cap LGAs>>

\* drainTick: takeDirty empties the marks before the work on them starts.
DrainTick(i) ==
    /\ dirty[i] # {}
    /\ dirty' = [dirty EXCEPT ![i] = {}]
    /\ Start(<<i, "drain">>, TakeDirty(dirty[i]))
    /\ alerts' = {}
    /\ UNCHANGED <<now, row, ack, lock, cooling>>

\* An operator opens an LGA: its wards are scored on the way in.
Drill(i, l) ==
    /\ Start(<<i, "pass">>, <<WardsUnder(l)>>)
    /\ alerts' = {}
    /\ UNCHANGED <<now, row, ack, lock, cooling, dirty>>

\* (Mutant: the lock is set without a time to live.)
LockStays ==
    /\ lock
    /\ UNCHANGED vars

\* Redis forgets a lock when its time is up, whether or not its holder is done.
LockExpires ==
    /\ lock
    /\ lock' = FALSE
    /\ alerts' = {}
    /\ UNCHANGED <<now, row, ack, cooling, dirty, pc, job>>

CooldownEnds(l) ==
    /\ l \in cooling
    /\ cooling' = cooling \ {l}
    /\ alerts' = {}
    /\ UNCHANGED <<now, row, ack, lock, dirty, pc, job>>

-----------------------------------------------------------------------------
(* persistScores, one batch at a time.                                      *)

\* The signals of the whole batch are read before anything is written.
Collect(v) ==
    LET batch == Head(job[v].batches)
    IN  /\ pc[v] = "collect"
        /\ Goto(v, "read", [job[v] EXCEPT !.inputs = [s \in batch |-> InputsOf(s)],
                                          !.left = batch])
        /\ alerts' = {}
        /\ UNCHANGED <<now, row, ack, lock, cooling, dirty>>

ReadRows(v) ==
    /\ pc[v] = "read"
    /\ Goto(v, "write", [job[v] EXCEPT !.before = [s \in job[v].left |-> row[s]]])
    /\ alerts' = {}
    /\ UNCHANGED <<now, row, ack, lock, cooling, dirty>>

\* The row persistScores writes for signals in over a row it read as previous.
Scored(in, previous) ==
    [print |-> {Fingerprint(in)}, score |-> Composite(in), outlook |-> OutlookOf(in),
     risk |-> ApplyHysteresis(Composite(in), RawRisk(in), previous.risk)]

\* (Mutant: only a change of outlook counts as a transition.)
TransitionedByOutlook(previous, new) == previous # NoRow /\ previous.outlook # new.outlook

Transitioned(previous, new) ==
    previous # NoRow /\ (previous.risk # new.risk \/ previous.outlook # new.outlook)

\* One row: nothing but the time is written when the fingerprint is the one
\* read; a transition voids the acknowledgement.
WriteRow(v, s) ==
    LET previous == job[v].before[s]
        new == Scored(job[v].inputs[s], previous)
        moved == Transitioned(previous, new)
        done == [job[v] EXCEPT !.left = @ \ {s}]
    IN  /\ pc[v] = "write"
        /\ s \in job[v].left
        /\ IF previous.print = new.print
           THEN /\ Goto(v, "write", done)
                /\ UNCHANGED <<row, ack>>
           ELSE /\ row' = [row EXCEPT ![s] = new]
                /\ ack' = IF moved THEN [ack EXCEPT ![s] = "NONE"] ELSE ack
                /\ Goto(v, "write",
                        IF moved
                        THEN [done EXCEPT !.moved = @ \cup {[scope |-> s, score |-> new.score,
                                  from |-> previous.risk, to |-> new.risk]}]
                        ELSE done)
        /\ alerts' = {}
        /\ UNCHANGED <<now, lock, cooling, dirty>>

\* Raised into the hot bands, or moved while hot; wards are scored silently.
Alert(move) ==
    LET rose == Rank(move.to) > Rank(move.from)
    IN  [kind |-> IF rose THEN "RAISED" ELSE "CLEARED", push |-> rose /\ move.to = "CRITICAL",
         scope |-> move.scope, from |-> move.from, to |-> move.to, score |-> move.score]

Announces(move) ==
    IF Rank(move.to) > Rank(move.from) THEN move.to \in Hot ELSE move.from \in Hot

Notify(v) ==
    /\ pc[v] = "write"
    /\ job[v].left = {}
    /\ alerts' = {Alert(m) : m \in {n \in job[v].moved : n.scope \in Board /\ Announces(n)}}
    /\ EndBatch(v, job[v])
    /\ UNCHANGED <<now, row, ack, lock, cooling, dirty>>

\* sweepHotWards: the wards of the LGAs in trouble, one LGA after the other.
FindHot(v) ==
    LET hot == {l \in LGAs : row[l].risk \in Hot}
    IN  /\ pc[v] = "hot"
        /\ IF hot = {} THEN Goto(v, "idle", NoJob)
           ELSE \E order \in SetToSeqs({WardsUnder(l) : l \in hot}) :
                    Goto(v, "collect", [NoJob EXCEPT !.batches = order, !.hot = TRUE])
        /\ alerts' = {}
        /\ UNCHANGED <<now, row, ack, lock, cooling, dirty>>

\* A database error ends a job; the timer lives on.
Fail(v) ==
    /\ pc[v] # "idle"
    /\ Goto(v, "idle", NoJob)
    /\ alerts' = {}
    /\ UNCHANGED <<now, row, ack, lock, cooling, dirty>>

\* An instance restarts: its marks and its jobs are gone, the lock is not.
Restart(i) ==
    /\ dirty' = [dirty EXCEPT ![i] = {}]
    /\ pc' = [v \in Workers |-> IF v[1] = i THEN "idle" ELSE pc[v]]
    /\ job' = [v \in Workers |-> IF v[1] = i THEN NoJob ELSE job[v]]
    /\ alerts' = {}
    /\ UNCHANGED <<now, row, ack, lock, cooling>>

-----------------------------------------------------------------------------
World ==
    \/ \E i \in Instances, w \in Wards, x \in Situations : Report(i, w, x)
    \/ \E w \in Wards, x \in Situations : Age(w, x)
    \/ \E s \in Acknowledged : Acknowledge(s)
    \/ \E i \in Instances, l \in Opened : Drill(i, l)

Timers ==
    \/ \E i \in Instances : SweepTick(i) \/ DrainTick(i)
    \/ LockExpires
    \/ \E l \in LGAs : CooldownEnds(l)

Work(v) ==
    \/ Collect(v)
    \/ ReadRows(v)
    \/ \E s \in Scopes : WriteRow(v, s)
    \/ Notify(v)
    \/ FindHot(v)

Run == World \/ Timers \/ \E v \in Workers : Work(v)

Faults ==
    \/ \E w \in Wards, x \in Situations : ChangeUnseen(w, x)
    \/ \E v \in Workers : Fail(v)
    \/ \E i \in Instances : Restart(i)

Next == Run \/ Faults

Spec == Init /\ [][Next]_vars

\* Nothing fails and no event is lost.
ReliableSpec == Init /\ [][Run]_vars

\* Every job ends, for it is a finite loop of database calls; the lock expires;
\* and of the sweep ticks, which never stop, some find the lock free.  (The
\* first is stated of pc: TLC is very slow to evaluate weak fairness of Work.)
Fairness ==
    /\ \A v \in Workers : []<>(pc[v] = "idle")
    /\ WF_vars(LockExpires)
    /\ SF_vars(\E i \in Instances : SweepTick(i))

CurrentPrint(s) == {Fingerprint(InputsOf(s))}

Moves ==
    [kind : {"RAISED", "CLEARED"}, push : BOOLEAN, scope : Board,
     from : Risks, to : Risks, score : 0 .. 1000]

\* The types; no ward ever raises an alert, and no lock is set without Redis.
TypeOK ==
    /\ now \in [Wards -> Situations]
    /\ \A s \in Scopes : row[s] # NoRow =>
           row[s].risk \in Risks /\ row[s].outlook \in Outlooks /\ row[s].score \in 0 .. 1000
    /\ ack \in [Scopes -> Risks \cup {"NONE"}]
    /\ lock \in BOOLEAN /\ (lock => HasRedis)
    /\ cooling \subseteq LGAs
    /\ dirty \in [Instances -> SUBSET Board]
    /\ pc \in [Workers -> {"idle", "collect", "read", "write", "hot"}]
    /\ \A v \in Workers : job[v].left \subseteq Scopes
    /\ alerts \subseteq Moves

\* Whatever jobs overlap or fail, the board never understates a place: its
\* level is at least the band of its own score, HIGH or worse with a critical
\* incident, and above its band only by the floor or within the margin.
RowJustified ==
    \A s \in Scopes : row[s] # NoRow =>
        LET band == BandFor(row[s].score)
        IN  /\ Rank(row[s].risk) >= Rank(band)
            /\ \A f \in row[s].print : f.severities["CRITICAL"] > 0 => row[s].risk \in Hot
            /\ Rank(row[s].risk) > Rank(band) =>
                   row[s].risk = "HIGH" \/ ~(row[s].score <= Edge(row[s].risk) - HysteresisMargin)

\* "A score hovering on a band edge does not flap": a place leaves a level only
\* with a score clearly below its edge.
NoFlap ==
    [][\A s \in Scopes :
          row[s] # NoRow /\ Rank(row'[s].risk) < Rank(row[s].risk) =>
              row'[s].score <= Edge(row[s].risk) - HysteresisMargin]_vars

\* "An ack is voided by any transition that happened after it": an
\* acknowledgement that stands was given for the level that is on the board.
AckFits == \A s \in Scopes : ack[s] \in {"NONE", row[s].risk}

\* When no mark is pending and no job is running, every row of the board shows
\* the signals as they are: no marked change is ever lost.
DrainedIsCurrent ==
    Quiet /\ (\A i \in Instances : dirty[i] = {}) =>
        \A s \in Board : row[s] # NoRow => row[s].print = CurrentPrint(s)

BoardIsCurrent == \A s \in Board : row[s].print = CurrentPrint(s)
=============================================================================
