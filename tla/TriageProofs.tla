---------------------------- MODULE TriageProofs ----------------------------
(***************************************************************************)
(* Proofs about Triage for every geography, every set of situations, every *)
(* number of instances and any composite score.                            *)
(*                                                                         *)
(* What a row says is decided by the one row it was written over, so the   *)
(* levels on the board are justified whatever jobs overlap.  What a step   *)
(* may do to the board, and which acknowledgements stand, rests on that    *)
(* row being the one still there, which needs jobs that never overlap.     *)
(* Without overlap, and where no job fails and no event is lost, the board *)
(* is moreover current once the marks are drained.                         *)
(***************************************************************************)
EXTENDS Triage, TLAPS

Fields == {"batches", "inputs", "before", "left", "moved", "hot"}

Shape ==
    /\ DOMAIN row = Scopes /\ DOMAIN ack = Scopes
    /\ DOMAIN pc = Workers /\ DOMAIN job = Workers
    /\ \A v \in Workers : DOMAIN job[v] = Fields

\* A row as the database has it: absent, or with a level.
Known(r) == r = NoRow \/ r.risk \in Risks

\* What row r says is justified.
Justified(r) ==
    /\ Rank(r.risk) >= Rank(BandFor(r.score))
    /\ \A f \in r.print : f.severities["CRITICAL"] > 0 => r.risk \in Hot
    /\ Rank(r.risk) > Rank(BandFor(r.score)) =>
           r.risk = "HIGH" \/ ~(r.score <= Edge(r.risk) - HysteresisMargin)

\* The rows a worker has read and may still write over.
Pending(v) == IF pc[v] = "write" THEN Scopes \cap job[v].left ELSE {}

RowsKnown ==
    /\ \A s \in Scopes : Known(row[s])
    /\ \A v \in Workers : \A s \in Pending(v) : Known(job[v].before[s])

IInv == Shape /\ RowsKnown /\ RowJustified

\* Without overlap only one worker runs, and what it read is what is there.
Alone == \A u, v \in Workers : pc[u] # "idle" /\ pc[v] # "idle" => u = v

Fresh == \A v \in Workers : \A s \in Pending(v) : job[v].before[s] = row[s]

SoloInv == IInv /\ Alone /\ Fresh /\ AckFits

-----------------------------------------------------------------------------
(* The risk engine.                                                         *)

LEMMA RankType == \A r : Rank(r) \in 0 .. 3
BY DEF Rank

LEMMA BandType == \A c : BandFor(c) \in Risks
BY DEF BandFor, Risks

\* A level that is higher than another is above it in the list of the bands.
LEMMA HotRank == \A r \in Risks : r \in Hot <=> Rank(r) >= 2
BY DEF Rank, Risks, Hot

\* The floor lifts a place to HIGH, never further and never down.
LEMMA RawFacts ==
    ASSUME NEW in
    PROVE  /\ RawRisk(in) \in Risks
           /\ Rank(RawRisk(in)) >= Rank(BandFor(Composite(in)))
           /\ RawRisk(in) # BandFor(Composite(in)) => RawRisk(in) = "HIGH"
           /\ Floored(in) => RawRisk(in) \in Hot
<1> DEFINE band == BandFor(Composite(in))
<1>1. band \in Risks
  BY BandType
<1>2. RawRisk(in) = IF Floored(in) /\ band \notin Hot THEN "HIGH" ELSE band
  BY DEF RawRisk
<1>3. band \notin Hot => Rank("HIGH") >= Rank(band)
  BY <1>1 DEF Rank, Risks, Hot
<1>4. Rank(band) \in Int /\ "HIGH" \in Risks /\ "HIGH" \in Hot
  BY RankType DEF Risks, Hot
<1> HIDE DEF band
<1>5. QED BY <1>1, <1>2, <1>3, <1>4 DEF band

\* The fingerprint counts exactly the critical incidents that floor a place.
LEMMA CriticalFloors ==
    ASSUME NEW in, Fingerprint(in).severities["CRITICAL"] > 0
    PROVE  Floored(in)
<1>1. {k \in Incidents : k.severity = "CRITICAL" \/ ("CRITICAL" = "LOW" /\ k.severity = "NONE")}
        = {k \in Incidents : k.severity = "CRITICAL"}
  OBVIOUS
<1>2. Fingerprint(in).severities = [s \in Severities |->
         CountIncidents(in, {k \in Incidents :
             k.severity = s \/ (s = "LOW" /\ k.severity = "NONE")})]
  BY DEF Fingerprint
<1>3. Fingerprint(in).severities["CRITICAL"] =
         CountIncidents(in, {k \in Incidents :
             k.severity = "CRITICAL" \/ ("CRITICAL" = "LOW" /\ k.severity = "NONE")})
  BY <1>2 DEF Severities
<1>4. QED BY <1>1, <1>3 DEF Floored

\* Hysteresis takes the raw level, or keeps a higher one that the score has
\* not clearly left.
LEMMA HysteresisFacts ==
    ASSUME NEW score, NEW raw \in Risks, NEW previous \in Risks \cup {"NONE"},
           NEW risk, risk = ApplyHysteresis(score, raw, previous)
    PROVE  \/ risk = raw /\ (previous \in Risks /\ Rank(raw) < Rank(previous) =>
                                 score <= Edge(previous) - HysteresisMargin)
           \/ /\ risk = previous /\ previous \in Risks /\ Rank(raw) < Rank(previous)
              /\ ~(score <= Edge(previous) - HysteresisMargin)
BY RankType DEF ApplyHysteresis, Risks

\* Every row persistScores writes is justified, whatever row it was computed
\* over, and drops below that row's level only with a score clearly below it.
LEMMA ScoredFacts ==
    ASSUME NEW in, NEW previous, Known(previous)
    PROVE  LET new == Scored(in, previous)
           IN  /\ Known(new)
               /\ Justified(new)
               /\ previous.risk \in Risks /\ Rank(new.risk) < Rank(previous.risk) =>
                      new.score <= Edge(previous.risk) - HysteresisMargin
<1> DEFINE new == Scored(in, previous)
           score == Composite(in)
           raw == RawRisk(in)
           band == BandFor(score)
<1>1. new.score = score /\ new.print = {Fingerprint(in)}
        /\ new.risk = ApplyHysteresis(score, raw, previous.risk)
  BY DEF Scored
<1>2. raw \in Risks /\ Rank(raw) >= Rank(band) /\ (raw # band => raw = "HIGH")
        /\ (Floored(in) => raw \in Hot) /\ band \in Risks
  BY RawFacts, BandType
<1>3. previous.risk \in Risks \cup {"NONE"}
  BY DEF Known, NoRow
<1> HIDE DEF new, score, raw, band
<1>4. \/ new.risk = raw /\ (previous.risk \in Risks /\ Rank(raw) < Rank(previous.risk) =>
                                 score <= Edge(previous.risk) - HysteresisMargin)
      \/ /\ new.risk = previous.risk /\ previous.risk \in Risks
         /\ Rank(raw) < Rank(previous.risk)
         /\ ~(score <= Edge(previous.risk) - HysteresisMargin)
  BY <1>1, <1>2, <1>3, HysteresisFacts
<1>5. new.risk \in Risks /\ Rank(new.risk) >= Rank(raw)
  BY <1>2, <1>4, RankType
<1>6. Rank(new.risk) >= Rank(band)
  BY <1>2, <1>5, RankType
<1>7. ASSUME NEW f \in new.print, f.severities["CRITICAL"] > 0
      PROVE  new.risk \in Hot
  <2>1. Floored(in)
    BY <1>1, <1>7, CriticalFloors
  <2>2. raw \in Hot
    BY <1>2, <2>1
  <2>3. QED BY <1>2, <1>5, <2>2, HotRank, RankType
<1>8. ASSUME Rank(new.risk) > Rank(band)
      PROVE  new.risk = "HIGH" \/ ~(new.score <= Edge(new.risk) - HysteresisMargin)
  <2>1. CASE new.risk = raw
    <3>1. raw # band
      BY <1>8, <2>1, RankType
    <3>2. QED BY <1>2, <2>1, <3>1
  <2>2. CASE new.risk = previous.risk /\ ~(score <= Edge(previous.risk) - HysteresisMargin)
    BY <1>1, <2>2
  <2>3. QED BY <1>4, <2>1, <2>2
<1>9. previous.risk \in Risks /\ Rank(new.risk) < Rank(previous.risk) =>
          new.score <= Edge(previous.risk) - HysteresisMargin
  BY <1>1, <1>4, RankType
<1>10. Justified(new)
  BY <1>1, <1>6, <1>7, <1>8 DEF band, Justified
<1>11. QED BY <1>5, <1>9, <1>10 DEF new, Known

-----------------------------------------------------------------------------
(* The board, whatever overlaps.                                            *)

LEMMA InitIInv == Init => IInv
<1> SUFFICES ASSUME Init PROVE IInv
  OBVIOUS
<1>1. Shape
  BY DEF Init, Shape, NoJob, Fields
<1>2. RowsKnown
  BY DEF Init, RowsKnown, Pending, Known, NoRow
<1>3. RowJustified
  BY DEF Init, RowJustified
<1>4. QED BY <1>1, <1>2, <1>3 DEF IInv

\* Goto moves one worker.
LEMMA GotoFacts ==
    ASSUME Shape, NEW v \in Workers, NEW step, NEW j, DOMAIN j = Fields, Goto(v, step, j)
    PROVE  /\ DOMAIN pc' = Workers /\ DOMAIN job' = Workers
           /\ pc'[v] = step /\ job'[v] = j
           /\ \A u \in Workers \ {v} : pc'[u] = pc[u] /\ job'[u] = job[u]
           /\ \A u \in Workers : DOMAIN job'[u] = Fields
BY DEF Shape, Goto

\* A step that neither writes a row nor lets a worker reach the writing keeps
\* what the board says; parts of every action but ReadRows and WriteRow.
Harmless ==
    /\ DOMAIN row' = Scopes /\ DOMAIN ack' = Scopes
    /\ DOMAIN pc' = Workers /\ DOMAIN job' = Workers
    /\ \A v \in Workers : DOMAIN job'[v] = Fields
    /\ row' = row
    /\ \A v \in Workers : pc'[v] = "write" => pc[v] = "write" /\ job'[v] = job[v]
    /\ \/ ack' = ack
       \/ \E s \in Scopes : row[s] # NoRow /\ ack' = [ack EXCEPT ![s] = row[s].risk]
    /\ \/ \A v \in Workers : pc[v] = "idle" => pc'[v] = "idle"
       \/ /\ Overlap \/ Quiet
          /\ \E v \in Workers : \A u \in Workers \ {v} : pc'[u] = pc[u]

LEMMA HarmlessIInv == IInv /\ Harmless => IInv'
<1> SUFFICES ASSUME IInv, Harmless PROVE IInv'
  OBVIOUS
<1>1. Shape'
  BY DEF Harmless, Shape
<1>2. RowsKnown'
  BY DEF Harmless, IInv, RowsKnown, Pending, Known
<1>3. RowJustified'
  BY DEF Harmless, IInv, RowJustified
<1>4. QED BY <1>1, <1>2, <1>3 DEF IInv

\* How a job starts and how its batches end.
LEMMA StartHarmless ==
    ASSUME Shape, NEW v \in Workers, NEW batches, Start(v, batches), UNCHANGED <<row, ack>>
    PROVE  Harmless
<1> DEFINE j == [NoJob EXCEPT !.batches = batches]
<1>1. DOMAIN j = Fields
  BY DEF NoJob, Fields
<1>2. Goto(v, "collect", j) /\ (Overlap \/ Quiet)
  BY DEF Start
<1> HIDE DEF j
<1>3. QED BY <1>1, <1>2, GotoFacts DEF Harmless, Shape

LEMMA EndBatchHarmless ==
    ASSUME Shape, NEW v \in Workers, pc[v] # "idle", EndBatch(v, job[v]),
           UNCHANGED <<row, ack>>
    PROVE  Harmless
<1> DEFINE next == [NoJob EXCEPT !.batches = Tail(job[v].batches), !.hot = job[v].hot]
<1>1. DOMAIN next = Fields /\ DOMAIN NoJob = Fields
  BY DEF NoJob, Fields
<1>2. \/ Goto(v, "collect", next) \/ Goto(v, "hot", next) \/ Goto(v, "idle", NoJob)
  BY DEF EndBatch
<1> HIDE DEF next
<1>3. QED BY <1>1, <1>2, GotoFacts DEF Harmless, Shape

LEMMA ReadRowsIInv ==
    ASSUME IInv, NEW v \in Workers, ReadRows(v)
    PROVE  /\ IInv'
           /\ \A u \in Workers \ {v} : pc'[u] = pc[u] /\ job'[u] = job[u]
           /\ \A s \in Pending(v)' : job'[v].before[s] = row[s]
           /\ UNCHANGED <<row, ack>>
<1> DEFINE j == [job[v] EXCEPT !.before = [s \in job[v].left |-> row[s]]]
<1>1. /\ Goto(v, "write", j) /\ UNCHANGED <<row, ack>> /\ pc[v] = "read"
  BY DEF ReadRows
<1>2. DOMAIN j = Fields /\ j.left = job[v].left /\ j.before = [s \in job[v].left |-> row[s]]
  BY DEF IInv, Shape, Fields
<1> HIDE DEF j
<1>3. /\ DOMAIN pc' = Workers /\ DOMAIN job' = Workers
      /\ pc'[v] = "write" /\ job'[v] = j
      /\ \A u \in Workers \ {v} : pc'[u] = pc[u] /\ job'[u] = job[u]
      /\ \A u \in Workers : DOMAIN job'[u] = Fields
  BY <1>1, <1>2, GotoFacts DEF IInv
<1>4. \A s \in Pending(v)' : s \in Scopes /\ job'[v].before[s] = row[s]
  BY <1>2, <1>3 DEF Pending
<1>5. \A u \in Workers \ {v} : Pending(u)' = Pending(u)
  BY <1>3 DEF Pending
<1>6. Shape'
  BY <1>1, <1>3 DEF IInv, Shape
<1>7. RowsKnown'
  BY <1>1, <1>3, <1>4, <1>5 DEF IInv, RowsKnown, Known
<1>8. RowJustified'
  BY <1>1 DEF IInv, RowJustified
<1>9. QED BY <1>1, <1>3, <1>4, <1>6, <1>7, <1>8 DEF IInv

\* What a write does: at most one row changes, into a justified one that is
\* computed from the row its worker read.
LEMMA WriteRowFacts ==
    ASSUME IInv, NEW v \in Workers, NEW s \in Scopes, WriteRow(v, s)
    PROVE  LET previous == job[v].before[s]
               new == Scored(job[v].inputs[s], previous)
           IN  /\ s \in Pending(v) /\ Known(previous)
               /\ \/ UNCHANGED <<row, ack>>
                  \/ /\ row' = [row EXCEPT ![s] = new]
                     /\ ack' = IF Transitioned(previous, new)
                               THEN [ack EXCEPT ![s] = "NONE"] ELSE ack
               /\ DOMAIN pc' = Workers /\ DOMAIN job' = Workers
               /\ pc'[v] = "write"
               /\ job'[v].left = job[v].left \ {s} /\ job'[v].before = job[v].before
               /\ \A u \in Workers \ {v} : pc'[u] = pc[u] /\ job'[u] = job[u]
               /\ \A u \in Workers : DOMAIN job'[u] = Fields
<1> DEFINE previous == job[v].before[s]
           new == Scored(job[v].inputs[s], previous)
           moved == Transitioned(previous, new)
           done == [job[v] EXCEPT !.left = @ \ {s}]
           more == [done EXCEPT !.moved = @ \cup {[scope |-> s, score |-> new.score,
                                  from |-> previous.risk, to |-> new.risk]}]
<1>1. /\ pc[v] = "write" /\ s \in job[v].left
      /\ \/ Goto(v, "write", done) /\ UNCHANGED <<row, ack>>
         \/ /\ row' = [row EXCEPT ![s] = new]
            /\ ack' = IF moved THEN [ack EXCEPT ![s] = "NONE"] ELSE ack
            /\ Goto(v, "write", done) \/ Goto(v, "write", more)
  BY DEF WriteRow
<1>2. s \in Pending(v) /\ Known(previous)
  BY <1>1 DEF Pending, IInv, RowsKnown
<1>3. DOMAIN done = Fields /\ done.left = job[v].left \ {s} /\ done.before = job[v].before
  BY DEF IInv, Shape, Fields
<1> HIDE DEF done
<1>4. DOMAIN more = Fields /\ more.left = job[v].left \ {s} /\ more.before = job[v].before
  BY <1>3 DEF Fields
<1> HIDE DEF more, new, previous, moved
<1>5. \A j : DOMAIN j = Fields /\ Goto(v, "write", j) =>
        /\ DOMAIN pc' = Workers /\ DOMAIN job' = Workers
        /\ pc'[v] = "write" /\ job'[v] = j
        /\ \A u \in Workers \ {v} : pc'[u] = pc[u] /\ job'[u] = job[u]
        /\ \A u \in Workers : DOMAIN job'[u] = Fields
  BY GotoFacts DEF IInv
<1>6. \E j : /\ DOMAIN j = Fields /\ Goto(v, "write", j)
             /\ j.left = job[v].left \ {s} /\ j.before = job[v].before
  BY <1>1, <1>3, <1>4
<1>7. QED BY <1>1, <1>2, <1>5, <1>6 DEF new, previous, moved

LEMMA WriteRowIInv ==
    ASSUME IInv, NEW v \in Workers, NEW s \in Scopes, WriteRow(v, s)
    PROVE  IInv'
<1> DEFINE previous == job[v].before[s]
           new == Scored(job[v].inputs[s], previous)
<1>1. Known(previous)
  BY WriteRowFacts
<1>2. Known(new) /\ Justified(new)
  BY <1>1, ScoredFacts
<1>3. /\ UNCHANGED row \/ row' = [row EXCEPT ![s] = new]
      /\ ack' = ack \/ ack' = [ack EXCEPT ![s] = "NONE"]
      /\ DOMAIN pc' = Workers /\ DOMAIN job' = Workers
      /\ job'[v].left = job[v].left \ {s} /\ job'[v].before = job[v].before
      /\ pc[v] = "write"
      /\ \A u \in Workers \ {v} : pc'[u] = pc[u] /\ job'[u] = job[u]
      /\ \A u \in Workers : DOMAIN job'[u] = Fields
  BY WriteRowFacts DEF WriteRow
<1> HIDE DEF new, previous
<1>4. Shape'
  BY <1>3 DEF IInv, Shape
<1>5. \A u \in Workers : \A t \in Pending(u)' :
          t \in Pending(u) /\ job'[u].before[t] = job[u].before[t]
  BY <1>3 DEF Pending
<1>6. \A t \in Scopes : row'[t] = row[t] \/ (t = s /\ row'[t] = new)
  BY <1>3 DEF IInv, Shape
<1>7. RowsKnown'
  BY <1>2, <1>5, <1>6 DEF IInv, RowsKnown, Known
<1>8. RowJustified'
  BY <1>2, <1>6 DEF IInv, RowJustified, Justified
<1>9. QED BY <1>4, <1>7, <1>8 DEF IInv

\* Every step is one of these.
LEMMA StepKinds ==
    ASSUME IInv, [Next]_vars
    PROVE  \/ Harmless
           \/ \E v \in Workers : ReadRows(v)
           \/ \E v \in Workers, s \in Scopes : WriteRow(v, s)
<1>1. Shape
  BY DEF IInv
<1>2. (UNCHANGED <<row, ack, pc, job>>) => Harmless
  BY <1>1 DEF Harmless, Shape
<1>3. ASSUME NEW i \in Instances, NEW w \in Wards, NEW x \in Situations, Report(i, w, x)
      PROVE  Harmless
  <2>1. <<i, "pass">> \in Workers
    BY DEF Workers, Kinds
  <2>2. UNCHANGED <<row, ack>>
    BY <1>3 DEF Report
  <2>3. (UNCHANGED <<pc, job>>) \/ Start(<<i, "pass">>, <<WardsUnder(Above[w])>>)
    BY <1>3 DEF Report
  <2>4. QED BY <1>1, <1>2, <2>1, <2>2, <2>3, StartHarmless
<1>4. ASSUME NEW w \in Wards, NEW x \in Situations, Age(w, x) \/ ChangeUnseen(w, x)
      PROVE  Harmless
  BY <1>2, <1>4 DEF Age, ChangeUnseen
<1>5. ASSUME NEW s \in Acknowledged, Acknowledge(s)
      PROVE  Harmless
  BY <1>1, <1>5, Places DEF Harmless, Shape, Acknowledge
<1>6. ASSUME NEW i \in Instances, NEW l \in Opened, Drill(i, l)
      PROVE  Harmless
  BY <1>1, <1>6, StartHarmless DEF Drill, Workers, Kinds
<1>7. ASSUME NEW i \in Instances, SweepTick(i)
      PROVE  Harmless
  BY <1>1, <1>7, StartHarmless DEF SweepTick, Workers, Kinds
<1>8. ASSUME NEW i \in Instances, DrainTick(i)
      PROVE  Harmless
  BY <1>1, <1>8, StartHarmless DEF DrainTick, Workers, Kinds
<1>9. ASSUME LockExpires \/ \E l \in LGAs : CooldownEnds(l)
      PROVE  Harmless
  BY <1>2, <1>9 DEF LockExpires, CooldownEnds
<1>10. ASSUME NEW v \in Workers, Collect(v)
       PROVE  Harmless
  <2> DEFINE batch == Head(job[v].batches)
             j == [job[v] EXCEPT !.inputs = [s \in batch |-> InputsOf(s)], !.left = batch]
  <2>1. DOMAIN j = Fields
    BY <1>1 DEF Shape
  <2>2. Goto(v, "read", j) /\ pc[v] = "collect" /\ UNCHANGED <<row, ack>>
    BY <1>10 DEF Collect
  <2> HIDE DEF j
  <2>3. QED BY <1>1, <2>1, <2>2, GotoFacts DEF Harmless, Shape
<1>11. ASSUME NEW v \in Workers, Notify(v)
       PROVE  Harmless
  BY <1>1, <1>11, EndBatchHarmless DEF Notify
<1>12. ASSUME NEW v \in Workers, FindHot(v)
       PROVE  Harmless
  <2>1. /\ pc[v] = "hot" /\ UNCHANGED <<row, ack>>
        /\ \/ Goto(v, "idle", NoJob)
           \/ \E order : Goto(v, "collect", [NoJob EXCEPT !.batches = order, !.hot = TRUE])
    BY <1>12 DEF FindHot
  <2>2. DOMAIN NoJob = Fields
    BY DEF NoJob, Fields
  <2>3. \A order : DOMAIN [NoJob EXCEPT !.batches = order, !.hot = TRUE] = Fields
    BY <2>2
  <2>4. CASE Goto(v, "idle", NoJob)
    BY <1>1, <2>1, <2>2, <2>4, GotoFacts DEF Harmless, Shape
  <2>5. ASSUME NEW order, Goto(v, "collect", [NoJob EXCEPT !.batches = order, !.hot = TRUE])
        PROVE  Harmless
    <3> DEFINE j == [NoJob EXCEPT !.batches = order, !.hot = TRUE]
    <3>1. DOMAIN j = Fields /\ Goto(v, "collect", j)
      BY <2>3, <2>5
    <3> HIDE DEF j
    <3>2. QED BY <1>1, <2>1, <3>1, GotoFacts DEF Harmless, Shape
  <2>6. QED BY <2>1, <2>4, <2>5
<1>13. ASSUME NEW v \in Workers, Fail(v)
       PROVE  Harmless
  <2>1. DOMAIN NoJob = Fields
    BY DEF NoJob, Fields
  <2>2. Goto(v, "idle", NoJob) /\ pc[v] # "idle" /\ UNCHANGED <<row, ack>>
    BY <1>13 DEF Fail
  <2>3. QED BY <1>1, <2>1, <2>2, GotoFacts DEF Harmless, Shape
<1>14. ASSUME NEW i \in Instances, Restart(i)
       PROVE  Harmless
  <2>1. DOMAIN NoJob = Fields
    BY DEF NoJob, Fields
  <2>2. QED BY <1>1, <1>14, <2>1 DEF Restart, Harmless, Shape
<1>15. CASE UNCHANGED vars
  BY <1>2, <1>15 DEF vars
<1>16. QED
  BY <1>3, <1>4, <1>5, <1>6, <1>7, <1>8, <1>9, <1>10, <1>11, <1>12, <1>13, <1>14, <1>15
  DEF Next, Run, World, Timers, Work, Faults

\* The inductive invariant of the board.
THEOREM BoardInvariance == Spec => []IInv
<1>1. Init => IInv
  BY InitIInv
<1>2. IInv /\ [Next]_vars => IInv'
  BY StepKinds, HarmlessIInv, ReadRowsIInv, WriteRowIInv
<1>3. QED BY <1>1, <1>2, PTL DEF Spec

\* Whatever jobs overlap, restart or fail, no place is shown below the band of
\* its own score, and none above it without the reason persistScores gives.
THEOREM RowJustifiedCorrect == Spec => []RowJustified
<1>1. IInv => RowJustified
  BY DEF IInv
<1>2. QED BY <1>1, BoardInvariance, PTL

-----------------------------------------------------------------------------
(* When jobs do not overlap.                                                *)

LEMMA InitSolo == Init => SoloInv
<1> SUFFICES ASSUME Init PROVE SoloInv
  OBVIOUS
<1>1. Alone /\ Fresh
  BY DEF Init, Alone, Fresh, Pending
<1>2. AckFits
  BY DEF Init, AckFits
<1>3. QED BY <1>1, <1>2, InitIInv DEF SoloInv

LEMMA HarmlessSolo ==
    ASSUME ~Overlap, SoloInv, Harmless
    PROVE  SoloInv'
<1>1. IInv'
  BY HarmlessIInv DEF SoloInv
<1>2. Alone'
  <2>1. CASE \A v \in Workers : pc[v] = "idle" => pc'[v] = "idle"
    BY <2>1 DEF SoloInv, Alone
  <2>2. CASE Quiet /\ \E v \in Workers : \A u \in Workers \ {v} : pc'[u] = pc[u]
    BY <2>2 DEF Quiet, Alone
  <2>3. QED BY <2>1, <2>2 DEF Harmless
<1>3. Fresh'
  BY DEF Harmless, SoloInv, Fresh, Pending
<1>4. AckFits'
  BY DEF Harmless, SoloInv, IInv, Shape, AckFits
<1>5. QED BY <1>1, <1>2, <1>3, <1>4 DEF SoloInv

LEMMA ReadRowsSolo ==
    ASSUME SoloInv, NEW v \in Workers, ReadRows(v)
    PROVE  SoloInv'
<1>1. /\ IInv' /\ UNCHANGED <<row, ack>>
      /\ \A u \in Workers \ {v} : pc'[u] = pc[u] /\ job'[u] = job[u]
      /\ \A s \in Pending(v)' : job'[v].before[s] = row[s]
      /\ pc[v] # "idle"
  BY ReadRowsIInv DEF SoloInv, ReadRows
<1>2. Alone'
  BY <1>1 DEF SoloInv, Alone
<1>3. \A u \in Workers \ {v} : Pending(u)' = Pending(u)
  BY <1>1 DEF Pending
<1>4. Fresh'
  BY <1>1, <1>3 DEF SoloInv, Fresh
<1>5. AckFits'
  BY <1>1 DEF SoloInv, AckFits
<1>6. QED BY <1>1, <1>2, <1>4, <1>5 DEF SoloInv

\* A row is written over the very row that was read, so its acknowledgement
\* stands only if the level it was given for does.
LEMMA WriteRowSolo ==
    ASSUME SoloInv, NEW v \in Workers, NEW s \in Scopes, WriteRow(v, s)
    PROVE  SoloInv'
<1> DEFINE new == Scored(job[v].inputs[s], row[s])
<1>1. /\ s \in Pending(v) /\ job[v].before[s] = row[s]
      /\ \/ UNCHANGED <<row, ack>>
         \/ /\ row' = [row EXCEPT ![s] = new]
            /\ ack' = IF Transitioned(row[s], new) THEN [ack EXCEPT ![s] = "NONE"] ELSE ack
      /\ pc'[v] = "write" /\ pc[v] = "write"
      /\ job'[v].left = job[v].left \ {s} /\ job'[v].before = job[v].before
      /\ \A u \in Workers \ {v} : pc'[u] = pc[u] /\ job'[u] = job[u]
  <2>1. s \in Pending(v) /\ job[v].before[s] = row[s]
    BY WriteRowFacts DEF SoloInv, Fresh
  <2>2. QED BY <2>1, WriteRowFacts DEF SoloInv, WriteRow
<1> HIDE DEF new
<1>2. Alone'
  BY <1>1 DEF SoloInv, Alone
<1>3. \A u \in Workers \ {v} : Pending(u) = {} /\ Pending(u)' = {}
  BY <1>1 DEF SoloInv, Alone, Pending
<1>4. Pending(v)' = Pending(v) \ {s}
  BY <1>1 DEF Pending
<1>5. Fresh'
  <2>1. \A t \in Scopes \ {s} : row'[t] = row[t]
    BY <1>1 DEF SoloInv, IInv, Shape
  <2>2. \A t \in Pending(v) \ {s} : t \in Scopes /\ job'[v].before[t] = row[t]
    BY <1>1 DEF SoloInv, Fresh, Pending
  <2>3. \A t \in Pending(v)' : job'[v].before[t] = row'[t]
    BY <1>4, <2>1, <2>2
  <2>4. QED BY <1>3, <2>3 DEF Fresh
<1>6. AckFits'
  <2>1. \A t \in Scopes \ {s} : row'[t] = row[t] /\ ack'[t] = ack[t]
    BY <1>1 DEF SoloInv, IInv, Shape
  <2>2. ack'[s] \in {"NONE", row'[s].risk}
    <3>1. CASE UNCHANGED <<row, ack>>
      BY <3>1 DEF SoloInv, AckFits
    <3>2. CASE row'[s] = new /\ ack'[s] = "NONE"
      BY <3>2
    <3>3. CASE row'[s] = new /\ ack'[s] = ack[s] /\ ~Transitioned(row[s], new)
      <4>1. row[s] = NoRow \/ row[s].risk = new.risk
        BY <3>3 DEF Transitioned
      <4>2. row[s] = NoRow => ack[s] = "NONE"
        BY DEF SoloInv, AckFits, NoRow
      <4>3. QED BY <3>3, <4>1, <4>2 DEF SoloInv, AckFits
    <3>4. QED BY <1>1, <3>1, <3>2, <3>3 DEF SoloInv, IInv, Shape
  <2>3. QED BY <2>1, <2>2 DEF SoloInv, AckFits
<1>7. QED BY <1>2, <1>5, <1>6, WriteRowIInv DEF SoloInv

LEMMA SoloInvariance == ASSUME ~Overlap PROVE Spec => []SoloInv
<1>1. SoloInv /\ [Next]_vars => SoloInv'
  BY StepKinds, HarmlessSolo, ReadRowsSolo, WriteRowSolo DEF SoloInv
<1>2. QED BY <1>1, InitSolo, PTL DEF Spec

\* Without overlapping jobs a standing acknowledgement is one of the level on
\* the board, whatever fails or restarts and whatever events are lost.
THEOREM AckFitsCorrect == ASSUME ~Overlap PROVE Spec => []AckFits
<1>1. SoloInv => AckFits
  BY DEF SoloInv
<1>2. QED BY <1>1, SoloInvariance, PTL

\* Without overlapping jobs a level on the board is lowered only by a score
\* clearly below its edge.
THEOREM NoFlapCorrect == ASSUME ~Overlap PROVE Spec => NoFlap
<1> DEFINE Held ==
        \A s \in Scopes :
          row[s] # NoRow /\ Rank(row'[s].risk) < Rank(row[s].risk) =>
              row'[s].score <= Edge(row[s].risk) - HysteresisMargin
<1>1. SoloInv /\ [Next]_vars => Held
  <2> SUFFICES ASSUME SoloInv, [Next]_vars PROVE Held
    OBVIOUS
  <2>1. row' = row => Held
    BY RankType
  <2>2. ASSUME NEW v \in Workers, NEW t \in Scopes, WriteRow(v, t)
        PROVE  Held
    <3> DEFINE new == Scored(job[v].inputs[t], row[t])
    <3>1. row' = row \/ row' = [row EXCEPT ![t] = new]
      BY <2>2, WriteRowFacts DEF SoloInv, Fresh
    <3>2. Known(row[t])
      BY DEF SoloInv, IInv, RowsKnown
    <3>3. row[t].risk \in Risks /\ Rank(new.risk) < Rank(row[t].risk) =>
              new.score <= Edge(row[t].risk) - HysteresisMargin
      BY <3>2, ScoredFacts
    <3>4. row[t] # NoRow => row[t].risk \in Risks
      BY <3>2 DEF Known
    <3> HIDE DEF new
    <3>5. QED BY <2>1, <3>1, <3>3, <3>4, RankType DEF SoloInv, IInv, Shape
  <2>3. QED BY <2>1, <2>2, StepKinds, ReadRowsIInv DEF SoloInv, Harmless
<1>2. QED BY <1>1, SoloInvariance, PTL DEF Spec, NoFlap
-----------------------------------------------------------------------------
(* The drain, where jobs do not overlap, none fails and no event is lost.   *)

Marked(s) == \E i \in Instances : s \in dirty[i]

Busy == {"collect", "read", "write"}

\* Does job j still come to s, after the batch it is at?
Queued(j, s) == \E n \in 2 .. Len(j.batches) : s \in j.batches[n]

\* Worker v will score s with signals it has yet to read, or write the ones it has read.
Coming(v, s) ==
    /\ pc[v] \in Busy /\ job[v].hot = FALSE
    /\ \/ Queued(job[v], s)
       \/ pc[v] = "collect" /\ s \in Head(job[v].batches)
       \/ pc[v] \in {"read", "write"} /\ s \in job[v].left

\* The signals a job has read are the signals as they are, or the place is marked again.
Honest ==
    \A v \in Workers : pc[v] \in {"read", "write"} =>
        \A s \in job[v].left \cap Board :
            Fingerprint(job[v].inputs[s]) = Fingerprint(InputsOf(s)) \/ Marked(s)

\* A row shows the signals, or somebody is to score its place.
Tended(s) ==
    \/ row[s] = NoRow
    \/ row[s].print = CurrentPrint(s)
    \/ Marked(s)
    \/ \E v \in Workers : Coming(v, s)

\* What is marked, and what a job outside the hot wards scores, are places.
Placed ==
    /\ DOMAIN now = Wards
    /\ dirty \in [Instances -> SUBSET Board]
    /\ \A v \in Workers : pc[v] \in Busy /\ job[v].hot = FALSE =>
           job[v].batches \in Seq(SUBSET Scopes) /\ job[v].batches # <<>>

DrainInv == SoloInv /\ Placed /\ Honest /\ \A s \in Board : Tended(s)

LEMMA NoJobFacts == DOMAIN NoJob = Fields /\ NoJob.hot = FALSE
BY DEF NoJob, Fields

\* Only a change of a ward in it changes the signals of a place.
LEMMA SameSignals ==
    ASSUME NEW s, \A w \in WardsOf(s) : now'[w] = now[w]
    PROVE  InputsOf(s)' = InputsOf(s)
<1>1. [w \in WardsOf(s) |-> now'[w]] = [w \in WardsOf(s) |-> now[w]]
  OBVIOUS
<1>2. InputsOf(s) = InputsFrom([w \in WardsOf(s) |-> now[w]], s)
  BY DEF InputsOf, InputsAt
<1>3. InputsOf(s)' = InputsFrom([w \in WardsOf(s) |-> now'[w]], s)
  BY DEF InputsOf, InputsAt
<1> QED BY <1>1, <1>2, <1>3

\* A step that writes no row, drops no mark, marks every place whose signals it changes and
\* at most starts jobs.
LEMMA FieldKeeps ==
    ASSUME Honest, \A s \in Board : Tended(s), row' = row,
           \A s \in Board : Marked(s) => Marked(s)',
           \A s \in Board : Marked(s)' \/ Fingerprint(InputsOf(s))' = Fingerprint(InputsOf(s)),
           \A v \in Workers : \/ pc'[v] = pc[v] /\ job'[v] = job[v]
                              \/ pc[v] = "idle" /\ pc'[v] = "collect"
    PROVE  Honest' /\ \A s \in Board : Tended(s)'
<1>1. ASSUME NEW v \in Workers, NEW s \in Scopes, Coming(v, s) PROVE Coming(v, s)'
  BY <1>1 DEF Coming, Queued, Busy
<1>2. Honest'
  BY DEF Honest
<1>3. ASSUME NEW s \in Board PROVE Tended(s)'
  <2>1. Tended(s) /\ s \in Scopes
    BY DEF Scopes
  <2>2. CASE Marked(s)'
    BY <2>2 DEF Tended
  <2>3. CASE ~Marked(s)' /\ row[s].print = CurrentPrint(s)
    <3>1. CurrentPrint(s)' = CurrentPrint(s)
      BY <2>3 DEF CurrentPrint
    <3> QED BY <2>3, <3>1 DEF Tended
  <2>4. CASE \E v \in Workers : Coming(v, s)
    BY <1>1, <2>1, <2>4 DEF Tended
  <2> QED BY <2>1, <2>2, <2>3, <2>4 DEF Tended
<1> QED BY <1>2, <1>3
\* A job that starts outside the hot wards.
LEMMA StartFacts ==
    ASSUME Shape, NEW v \in Workers, NEW batches, Start(v, batches)
    PROVE  /\ pc[v] = "idle" /\ (Overlap \/ Quiet)
           /\ pc'[v] = "collect" /\ job'[v].batches = batches /\ job'[v].hot = FALSE
           /\ \A u \in Workers \ {v} : pc'[u] = pc[u] /\ job'[u] = job[u]
<1>1. PICK j : j = [NoJob EXCEPT !.batches = batches]
  OBVIOUS
<1>2. DOMAIN j = Fields /\ j.batches = batches /\ j.hot = FALSE
  BY <1>1, NoJobFacts DEF Fields
<1>3. Goto(v, "collect", j) /\ pc[v] = "idle" /\ (Overlap \/ Quiet)
  BY <1>1 DEF Start
<1> QED BY <1>2, <1>3, GotoFacts

LEMMA FieldPlaced ==
    ASSUME Placed, DOMAIN now' = Wards, dirty' \in [Instances -> SUBSET Board],
           \A v \in Workers : \/ pc'[v] = pc[v] /\ job'[v] = job[v]
                              \/ /\ job'[v].batches \in Seq(SUBSET Scopes)
                                 /\ job'[v].batches # <<>>
    PROVE  Placed'
<1>1. ASSUME NEW v \in Workers, pc'[v] \in Busy, job'[v].hot = FALSE
      PROVE  job'[v].batches \in Seq(SUBSET Scopes) /\ job'[v].batches # <<>>
  BY <1>1 DEF Placed
<1> QED BY <1>1 DEF Placed, Busy

\* takeDirty hands over every mark.
LEMMA TakeDirtyFacts ==
    ASSUME NEW marks \in SUBSET Board
    PROVE  /\ TakeDirty(marks) \in Seq(SUBSET Scopes) /\ TakeDirty(marks) # <<>>
           /\ \A s \in marks : \/ s \in Head(TakeDirty(marks))
                               \/ \E n \in 2 .. Len(TakeDirty(marks)) : s \in TakeDirty(marks)[n]
<1>1. PICK a, b : a = marks \cap States /\ b = marks \cap LGAs
  OBVIOUS
<1>2. a \in SUBSET Scopes /\ b \in SUBSET Scopes /\ marks = a \cup b
  BY <1>1 DEF Board, Scopes
<1>3. \/ b = {} /\ TakeDirty(marks) = <<a>>
      \/ a = {} /\ TakeDirty(marks) = <<b>>
      \/ TakeDirty(marks) = <<a, b>>
  BY <1>1 DEF TakeDirty
<1>4. /\ <<a>> \in Seq(SUBSET Scopes) /\ <<b>> \in Seq(SUBSET Scopes)
      /\ <<a, b>> \in Seq(SUBSET Scopes)
      /\ Head(<<a>>) = a /\ Head(<<b>>) = b /\ Head(<<a, b>>) = a
      /\ Len(<<a, b>>) = 2 /\ <<a, b>>[2] = b
      /\ <<a>> # <<>> /\ <<b>> # <<>> /\ <<a, b>> # <<>>
  BY <1>2
<1>5. CASE b = {} /\ TakeDirty(marks) = <<a>>
  BY <1>2, <1>4, <1>5
<1>6. CASE a = {} /\ TakeDirty(marks) = <<b>>
  BY <1>2, <1>4, <1>6
<1>7. CASE TakeDirty(marks) = <<a, b>>
  <2>1. PICK q : q = <<a, b>>
    OBVIOUS
  <2>2. /\ q \in Seq(SUBSET Scopes) /\ q # <<>> /\ Head(q) = a /\ q[2] = b
        /\ 2 \in 2 .. Len(q)
    BY <1>4, <2>1
  <2>3. \A s \in marks : s \in Head(q) \/ s \in q[2]
    BY <1>2, <2>2
  <2> QED BY <1>7, <2>1, <2>2, <2>3
<1> QED BY <1>3, <1>5, <1>6, <1>7

\* What happens in the field, and the timers but the drain.
LEMMA FieldDrains ==
    ASSUME ~Overlap, DrainInv, World \/ LockExpires \/ (\E l \in LGAs : CooldownEnds(l))
                                     \/ (\E i \in Instances : SweepTick(i))
    PROVE  Placed' /\ Honest' /\ \A s \in Board : Tended(s)'
<1>0. Shape /\ Placed /\ Honest /\ \A s \in Board : Tended(s)
  BY DEF DrainInv, SoloInv, IInv
<1>1. ASSUME UNCHANGED <<now, row, dirty, pc, job>>
      PROVE  Placed' /\ Honest' /\ \A s \in Board : Tended(s)'
  <2>1. \A s \in Board : Marked(s)' = Marked(s) /\ InputsOf(s)' = InputsOf(s)
    BY <1>1, SameSignals DEF Marked
  <2>2. DOMAIN now' = Wards /\ dirty' \in [Instances -> SUBSET Board]
    BY <1>0, <1>1 DEF Placed
  <2> QED BY <1>0, <1>1, <2>1, <2>2, FieldKeeps, FieldPlaced
<1>2. ASSUME NEW v \in Workers, NEW batches \in Seq(SUBSET Scopes), batches # <<>>,
             Start(v, batches), UNCHANGED <<now, row, dirty>>
      PROVE  Placed' /\ Honest' /\ \A s \in Board : Tended(s)'
  <2>1. \A s \in Board : Marked(s)' = Marked(s) /\ InputsOf(s)' = InputsOf(s)
    BY <1>2, SameSignals DEF Marked
  <2>2. DOMAIN now' = Wards /\ dirty' \in [Instances -> SUBSET Board]
    BY <1>0, <1>2 DEF Placed
  <2>3. /\ pc[v] = "idle" /\ pc'[v] = "collect" /\ job'[v].batches = batches
        /\ \A u \in Workers \ {v} : pc'[u] = pc[u] /\ job'[u] = job[u]
    BY <1>0, <1>2, StartFacts
  <2> QED BY <1>0, <1>2, <2>1, <2>2, <2>3, FieldKeeps, FieldPlaced
<1>3. ASSUME NEW i \in Instances, NEW w \in Wards, NEW x \in Situations, Report(i, w, x)
      PROVE  Placed' /\ Honest' /\ \A s \in Board : Tended(s)'
  <2>1. PICK l, t : l = Above[w] /\ t = Above[l]
    OBVIOUS
  <2>2. l \in LGAs /\ t \in States
    BY <2>1, Places
  <2>3. /\ now' = [now EXCEPT ![w] = x] /\ dirty' = [dirty EXCEPT ![i] = @ \cup {l, t}]
        /\ row' = row
    BY <1>3, <2>1 DEF Report
  <2>4. DOMAIN now' = Wards /\ dirty' \in [Instances -> SUBSET Board]
    BY <1>0, <2>2, <2>3 DEF Placed, Board
  <2>5. \A s \in Board : Marked(s) => Marked(s)'
    BY <1>0, <2>3 DEF Placed, Marked
  <2>6. Marked(l)' /\ Marked(t)'
    BY <1>0, <2>3 DEF Placed, Marked
  <2>7. ASSUME NEW s \in Board, s # l, s # t PROVE InputsOf(s)' = InputsOf(s)
    <3>1. w \notin WardsOf(s)
      BY <2>1, <2>7, Places DEF WardsOf
    <3>2. \A u \in WardsOf(s) : now'[u] = now[u]
      BY <1>0, <2>3, <3>1 DEF Placed, WardsOf
    <3> QED BY <3>2, SameSignals
  <2>8. \A v \in Workers :
            \/ pc'[v] = pc[v] /\ job'[v] = job[v]
            \/ /\ pc[v] = "idle" /\ pc'[v] = "collect"
               /\ job'[v].batches \in Seq(SUBSET Scopes) /\ job'[v].batches # <<>>
    <3>1. CASE UNCHANGED <<pc, job>>
      BY <3>1
    <3>2. CASE Start(<<i, "pass">>, <<WardsUnder(l)>>)
      <4>1. <<i, "pass">> \in Workers
        BY DEF Workers, Kinds
      <4>2. <<WardsUnder(l)>> \in Seq(SUBSET Scopes) /\ <<WardsUnder(l)>> # <<>>
        BY DEF WardsUnder, Scopes
      <4> QED BY <1>0, <3>2, <4>1, <4>2, StartFacts
    <3> QED BY <1>3, <2>1, <3>1, <3>2 DEF Report
  <2> QED BY <1>0, <2>3, <2>4, <2>5, <2>6, <2>7, <2>8, FieldKeeps, FieldPlaced
<1>4. ASSUME NEW w \in Wards, NEW x \in Situations, Age(w, x)
      PROVE  Placed' /\ Honest' /\ \A s \in Board : Tended(s)'
  <2>1. PICK later : later = [now EXCEPT ![w] = x]
    OBVIOUS
  <2>2. /\ now' = later /\ UNCHANGED <<row, dirty, pc, job>>
        /\ \A s \in {w, Above[w], Above[Above[w]]} :
               Fingerprint(InputsAt(later, s)) = Fingerprint(InputsOf(s))
    BY <1>4, <2>1 DEF Age
  <2>3. DOMAIN now' = Wards /\ dirty' \in [Instances -> SUBSET Board]
    BY <1>0, <2>1, <2>2 DEF Placed
  <2>4. \A s \in Board : Marked(s)' = Marked(s)
    BY <2>2 DEF Marked
  <2>5. ASSUME NEW s \in Board PROVE Fingerprint(InputsOf(s))' = Fingerprint(InputsOf(s))
    <3>1. CASE s \in {w, Above[w], Above[Above[w]]}
      <4>1. InputsOf(s)' = InputsAt(later, s)
        BY <2>2 DEF InputsOf, InputsAt
      <4> QED BY <2>2, <3>1, <4>1
    <3>2. CASE s \notin {w, Above[w], Above[Above[w]]}
      <4>1. w \notin WardsOf(s)
        BY <3>2 DEF WardsOf
      <4>2. \A u \in WardsOf(s) : now'[u] = now[u]
        BY <1>0, <2>1, <2>2, <4>1 DEF Placed, WardsOf
      <4>3. InputsOf(s)' = InputsOf(s)
        BY <4>2, SameSignals
      <4> QED BY <4>3
    <3> QED BY <3>1, <3>2
  <2> QED BY <1>0, <2>2, <2>3, <2>4, <2>5, FieldKeeps, FieldPlaced
<1>5. ASSUME NEW s \in Acknowledged, Acknowledge(s)
      PROVE  Placed' /\ Honest' /\ \A t \in Board : Tended(t)'
  BY <1>1, <1>5 DEF Acknowledge
<1>6. ASSUME NEW i \in Instances, NEW l \in Opened, Drill(i, l)
      PROVE  Placed' /\ Honest' /\ \A s \in Board : Tended(s)'
  <2>1. <<i, "pass">> \in Workers
    BY DEF Workers, Kinds
  <2>2. <<WardsUnder(l)>> \in Seq(SUBSET Scopes) /\ <<WardsUnder(l)>> # <<>>
    BY DEF WardsUnder, Scopes
  <2> QED BY <1>2, <1>6, <2>1, <2>2 DEF Drill
<1>7. ASSUME NEW i \in Instances, SweepTick(i)
      PROVE  Placed' /\ Honest' /\ \A s \in Board : Tended(s)'
  <2>1. <<i, "sweep">> \in Workers
    BY DEF Workers, Kinds
  <2>2. <<States, LGAs>> \in Seq(SUBSET Scopes) /\ <<States, LGAs>> # <<>>
    BY DEF Scopes, Board
  <2> QED BY <1>2, <1>7, <2>1, <2>2 DEF SweepTick
<1>8. CASE LockExpires \/ \E l \in LGAs : CooldownEnds(l)
  BY <1>1, <1>8 DEF LockExpires, CooldownEnds
<1> QED BY <1>3, <1>4, <1>5, <1>6, <1>7, <1>8 DEF World
\* The drain takes the marks and owes the places it took.
LEMMA DrainTickDrains ==
    ASSUME ~Overlap, DrainInv, NEW i \in Instances, DrainTick(i)
    PROVE  Placed' /\ Honest' /\ \A s \in Board : Tended(s)'
<1>0. Shape /\ Placed /\ Honest /\ \A s \in Board : Tended(s)
  BY DEF DrainInv, SoloInv, IInv
<1>1. PICK v : v = <<i, "drain">>
  OBVIOUS
<1>2. PICK batches : batches = TakeDirty(dirty[i])
  OBVIOUS
<1>3. /\ Start(v, batches) /\ UNCHANGED <<now, row>> /\ dirty' = [dirty EXCEPT ![i] = {}]
      /\ v \in Workers
  BY <1>1, <1>2 DEF DrainTick, Workers, Kinds
<1>4. /\ batches \in Seq(SUBSET Scopes) /\ batches # <<>>
      /\ \A s \in dirty[i] : s \in Head(batches) \/ \E n \in 2 .. Len(batches) : s \in batches[n]
  BY <1>0, <1>2, TakeDirtyFacts DEF Placed
<1>5. /\ pc'[v] = "collect" /\ job'[v].batches = batches /\ job'[v].hot = FALSE
      /\ \A u \in Workers \ {v} : pc'[u] = "idle"
      /\ \A u \in Workers : pc[u] = "idle"
  BY <1>0, <1>3, StartFacts DEF Quiet
<1>6. Placed'
  <2>1. DOMAIN now' = Wards /\ dirty' \in [Instances -> SUBSET Board]
    BY <1>0, <1>3 DEF Placed
  <2> QED BY <1>4, <1>5, <2>1 DEF Placed, Busy
<1>7. Honest'
  BY <1>5 DEF Honest
<1>8. ASSUME NEW s \in Board PROVE Tended(s)'
  <2>1. InputsOf(s)' = InputsOf(s)
    BY <1>3, SameSignals
  <2>2. CASE row[s] = NoRow \/ row[s].print = CurrentPrint(s)
    <3>1. CurrentPrint(s)' = CurrentPrint(s)
      BY <2>1 DEF CurrentPrint
    <3> QED BY <1>3, <2>2, <3>1 DEF Tended
  <2>3. CASE s \in dirty[i]
    <3>1. Coming(v, s)'
      BY <1>4, <1>5, <2>3 DEF Coming, Queued, Busy
    <3> QED BY <1>3, <3>1 DEF Tended
  <2>4. CASE \E k \in Instances \ {i} : s \in dirty[k]
    <3>1. Marked(s)'
      BY <1>0, <1>3, <2>4 DEF Marked, Placed
    <3> QED BY <3>1 DEF Tended
  <2>5. ~ \E u \in Workers : Coming(u, s)
    BY <1>5 DEF Coming, Busy
  <2> QED BY <1>0, <2>2, <2>3, <2>4, <2>5 DEF Tended, Marked
<1> QED BY <1>6, <1>7, <1>8

\* A worker goes on, and the signals, the marks and the other workers stay.
LEMMA WorkDrains ==
    ASSUME DrainInv, NEW v \in Workers, UNCHANGED <<now, dirty>>,
           \A u \in Workers \ {v} : pc'[u] = pc[u] /\ job'[u] = job[u],
           pc'[v] \in Busy /\ job'[v].hot = FALSE =>
               job'[v].batches \in Seq(SUBSET Scopes) /\ job'[v].batches # <<>>,
           pc'[v] \in {"read", "write"} =>
               \A s \in job'[v].left \cap Board :
                   Fingerprint(job'[v].inputs[s]) = Fingerprint(InputsOf(s)) \/ Marked(s),
           \A s \in Board :
               \/ row'[s] = row[s]
               \/ row'[s].print = CurrentPrint(s) \/ Marked(s),
           \A s \in Board : Coming(v, s) =>
               Coming(v, s)' \/ row'[s].print = CurrentPrint(s) \/ Marked(s)
    PROVE  Placed' /\ Honest' /\ \A s \in Board : Tended(s)'
<1>0. Placed /\ Honest /\ \A s \in Board : Tended(s)
  BY DEF DrainInv
<1>1. \A s : InputsOf(s)' = InputsOf(s) /\ CurrentPrint(s)' = CurrentPrint(s)
  BY SameSignals DEF CurrentPrint
<1>2. \A s : Marked(s)' = Marked(s)
  BY DEF Marked
<1>3. Placed'
  <2>1. ASSUME NEW u \in Workers, pc'[u] \in Busy, job'[u].hot = FALSE
        PROVE  job'[u].batches \in Seq(SUBSET Scopes) /\ job'[u].batches # <<>>
    BY <1>0, <2>1 DEF Placed
  <2> QED BY <1>0, <2>1 DEF Placed, Busy
<1>4. Honest'
  <2>1. ASSUME NEW u \in Workers, pc'[u] \in {"read", "write"}, NEW s \in job'[u].left \cap Board
        PROVE  Fingerprint(job'[u].inputs[s]) = Fingerprint(InputsOf(s)) \/ Marked(s)
    BY <1>0, <2>1 DEF Honest
  <2>2. ASSUME NEW u \in Workers, pc'[u] \in {"read", "write"}, NEW s \in job'[u].left \cap Board
        PROVE  Fingerprint(job'[u].inputs[s]) = Fingerprint(InputsOf(s)') \/ Marked(s)'
    BY <1>1, <1>2, <2>1, <2>2
  <2> QED BY <2>2 DEF Honest
<1>5. ASSUME NEW s \in Board PROVE Tended(s)'
  <2>1. CASE row'[s].print = CurrentPrint(s) \/ Marked(s)
    BY <1>1, <1>2, <2>1 DEF Tended
  <2>2. CASE row'[s] = row[s] /\ (row[s] = NoRow \/ row[s].print = CurrentPrint(s))
    BY <1>1, <2>2 DEF Tended
  <2>3. CASE \E u \in Workers \ {v} : Coming(u, s)
    <3>1. \A u \in Workers \ {v} : Coming(u, s)' = Coming(u, s)
      BY DEF Coming, Queued
    <3> QED BY <2>3, <3>1 DEF Tended
  <2>4. CASE Coming(v, s)
    BY <1>1, <1>2, <2>4 DEF Tended
  <2> QED BY <1>0, <2>1, <2>2, <2>3, <2>4 DEF Tended
<1> QED BY <1>3, <1>4, <1>5
LEMMA CollectDrains ==
    ASSUME DrainInv, NEW v \in Workers, Collect(v)
    PROVE  Placed' /\ Honest' /\ \A s \in Board : Tended(s)'
<1>0. Shape /\ Placed
  BY DEF DrainInv, SoloInv, IInv
<1>1. PICK batch : batch = Head(job[v].batches)
  OBVIOUS
<1>2. PICK read : read = [s \in batch |-> InputsOf(s)]
  OBVIOUS
<1>3. PICK j : j = [job[v] EXCEPT !.inputs = read, !.left = batch]
  OBVIOUS
<1>4. /\ DOMAIN j = Fields /\ j.inputs = read /\ j.left = batch
      /\ j.batches = job[v].batches /\ j.hot = job[v].hot
  BY <1>0, <1>3 DEF Shape, Fields
<1>5. pc[v] = "collect" /\ Goto(v, "read", j) /\ UNCHANGED <<now, row, dirty>>
  BY <1>1, <1>2, <1>3 DEF Collect
<1>6. /\ pc'[v] = "read" /\ job'[v] = j
      /\ \A u \in Workers \ {v} : pc'[u] = pc[u] /\ job'[u] = job[u]
  BY <1>0, <1>4, <1>5, GotoFacts
<1>7. j.hot = FALSE => j.batches \in Seq(SUBSET Scopes) /\ j.batches # <<>>
  BY <1>0, <1>4, <1>5 DEF Placed, Busy
<1>8. \A s \in j.left \cap Board : j.inputs[s] = InputsOf(s)
  BY <1>2, <1>4
<1>9. ASSUME NEW s \in Board, Coming(v, s) PROVE Coming(v, s)'
  BY <1>1, <1>4, <1>5, <1>6, <1>9 DEF Coming, Queued, Busy
<1> QED BY <1>5, <1>6, <1>7, <1>8, <1>9, WorkDrains

LEMMA ReadRowsDrains ==
    ASSUME DrainInv, NEW v \in Workers, ReadRows(v)
    PROVE  Placed' /\ Honest' /\ \A s \in Board : Tended(s)'
<1>0. Shape /\ Placed /\ Honest
  BY DEF DrainInv, SoloInv, IInv
<1>1. PICK read : read = [s \in job[v].left |-> row[s]]
  OBVIOUS
<1>2. PICK j : j = [job[v] EXCEPT !.before = read]
  OBVIOUS
<1>3. /\ DOMAIN j = Fields /\ j.inputs = job[v].inputs /\ j.left = job[v].left
      /\ j.batches = job[v].batches /\ j.hot = job[v].hot
  BY <1>0, <1>2 DEF Shape, Fields
<1>4. pc[v] = "read" /\ Goto(v, "write", j) /\ UNCHANGED <<now, row, dirty>>
  BY <1>1, <1>2 DEF ReadRows
<1>5. /\ pc'[v] = "write" /\ job'[v] = j
      /\ \A u \in Workers \ {v} : pc'[u] = pc[u] /\ job'[u] = job[u]
  BY <1>0, <1>3, <1>4, GotoFacts
<1>6. j.hot = FALSE => j.batches \in Seq(SUBSET Scopes) /\ j.batches # <<>>
  BY <1>0, <1>3, <1>4 DEF Placed, Busy
<1>7. \A s \in j.left \cap Board :
          Fingerprint(j.inputs[s]) = Fingerprint(InputsOf(s)) \/ Marked(s)
  BY <1>0, <1>3, <1>4 DEF Honest
<1>8. ASSUME NEW s \in Board, Coming(v, s) PROVE Coming(v, s)'
  BY <1>3, <1>4, <1>5, <1>8 DEF Coming, Queued, Busy
<1> QED BY <1>4, <1>5, <1>6, <1>7, <1>8, WorkDrains

\* A write leaves the row with the fingerprint of the signals its job has read: it writes
\* them, or finds them in the row that is still there.
LEMMA WriteRowDrains ==
    ASSUME DrainInv, NEW v \in Workers, NEW s \in Scopes, WriteRow(v, s)
    PROVE  Placed' /\ Honest' /\ \A t \in Board : Tended(t)'
<1>0. Shape /\ Placed /\ Honest /\ Fresh
  BY DEF DrainInv, SoloInv, IInv
<1>1. PICK new : new = Scored(job[v].inputs[s], job[v].before[s])
  OBVIOUS
<1>2. PICK done : done = [job[v] EXCEPT !.left = @ \ {s}]
  OBVIOUS
<1>3. PICK more : more = [done EXCEPT !.moved = @ \cup {[scope |-> s, score |-> new.score,
                              from |-> job[v].before[s].risk, to |-> new.risk]}]
  OBVIOUS
<1>4. /\ DOMAIN done = Fields /\ done.inputs = job[v].inputs /\ done.left = job[v].left \ {s}
      /\ done.batches = job[v].batches /\ done.hot = job[v].hot
  BY <1>0, <1>2 DEF Shape, Fields
<1>5. /\ DOMAIN more = Fields /\ more.inputs = job[v].inputs /\ more.left = job[v].left \ {s}
      /\ more.batches = job[v].batches /\ more.hot = job[v].hot
  BY <1>3, <1>4 DEF Fields
<1>6. /\ pc[v] = "write" /\ s \in job[v].left /\ UNCHANGED <<now, dirty>>
      /\ \/ job[v].before[s].print = new.print /\ row' = row
         \/ row' = [row EXCEPT ![s] = new]
      /\ Goto(v, "write", done) \/ Goto(v, "write", more)
  BY <1>1, <1>2, <1>3 DEF WriteRow
<1>7. PICK j \in {done, more} : Goto(v, "write", j)
  BY <1>6
<1>8. /\ j.inputs = job[v].inputs /\ j.left = job[v].left \ {s}
      /\ j.batches = job[v].batches /\ j.hot = job[v].hot
      /\ pc'[v] = "write" /\ job'[v] = j
      /\ \A u \in Workers \ {v} : pc'[u] = pc[u] /\ job'[u] = job[u]
  BY <1>0, <1>4, <1>5, <1>7, GotoFacts
<1>9. job[v].before[s] = row[s]
  BY <1>0, <1>6 DEF Fresh, Pending
<1>10. new.print = {Fingerprint(job[v].inputs[s])}
  BY <1>1 DEF Scored
<1>11. row'[s].print = new.print /\ \A t \in Scopes \ {s} : row'[t] = row[t]
  BY <1>0, <1>6, <1>9 DEF Shape
<1>12. s \in Board => row'[s].print = CurrentPrint(s) \/ Marked(s)
  BY <1>0, <1>6, <1>10, <1>11 DEF Honest, CurrentPrint
<1>13. \A t \in Board : row'[t] = row[t] \/ row'[t].print = CurrentPrint(t) \/ Marked(t)
  BY <1>11, <1>12 DEF Scopes
<1>14. j.hot = FALSE => j.batches \in Seq(SUBSET Scopes) /\ j.batches # <<>>
  BY <1>0, <1>6, <1>8 DEF Placed, Busy
<1>15. \A t \in j.left \cap Board :
           Fingerprint(j.inputs[t]) = Fingerprint(InputsOf(t)) \/ Marked(t)
  BY <1>0, <1>6, <1>8 DEF Honest
<1>16. ASSUME NEW t \in Board, Coming(v, t)
       PROVE  Coming(v, t)' \/ row'[t].print = CurrentPrint(t) \/ Marked(t)
  <2>1. CASE t = s
    BY <1>12, <2>1
  <2>2. CASE t # s
    BY <1>6, <1>8, <1>16, <2>2 DEF Coming, Queued, Busy
  <2> QED BY <2>1, <2>2
<1> QED BY <1>6, <1>8, <1>13, <1>14, <1>15, <1>16, WorkDrains

LEMMA TailFacts ==
    ASSUME NEW S, NEW b \in Seq(S), Len(b) > 1
    PROVE  /\ Tail(b) \in Seq(S) /\ Tail(b) # <<>> /\ Len(Tail(b)) = Len(b) - 1
           /\ \A n \in 2 .. Len(b) : Tail(b)[n - 1] = b[n]
<1>1. Tail(b) \in Seq(S) /\ Len(Tail(b)) = Len(b) - 1
  OBVIOUS
<1>2. Tail(b) # <<>>
  <2>1. PICK n \in Nat : n = Len(b)
    OBVIOUS
  <2>2. n > 1 => n - 1 # 0
    OBVIOUS
  <2>3. Len(Tail(b)) # 0
    BY <1>1, <2>1, <2>2
  <2>4. Len(<<>>) = 0
    OBVIOUS
  <2> QED BY <2>3, <2>4
<1>3. ASSUME NEW n \in 2 .. Len(b) PROVE Tail(b)[n - 1] = b[n]
  OBVIOUS
<1> QED BY <1>1, <1>2, <1>3

LEMMA NotifyDrains ==
    ASSUME DrainInv, NEW v \in Workers, Notify(v)
    PROVE  Placed' /\ Honest' /\ \A s \in Board : Tended(s)'
<1>0. Shape /\ Placed
  BY DEF DrainInv, SoloInv, IInv
<1>1. PICK b : b = job[v].batches
  OBVIOUS
<1>2. PICK j : j = [NoJob EXCEPT !.batches = Tail(b), !.hot = job[v].hot]
  OBVIOUS
<1>3. DOMAIN j = Fields /\ j.batches = Tail(b) /\ j.hot = job[v].hot
  BY <1>2, NoJobFacts DEF Fields
<1>4. /\ pc[v] = "write" /\ job[v].left = {} /\ UNCHANGED <<now, row, dirty>>
      /\ \/ Len(b) > 1 /\ Goto(v, "collect", j)
         \/ ~(Len(b) > 1) /\ (Goto(v, "hot", j) \/ Goto(v, "idle", NoJob))
  <2>1. pc[v] = "write" /\ job[v].left = {} /\ UNCHANGED <<now, row, dirty>>
    BY DEF Notify
  <2>2. PICK o : o = job[v]
    OBVIOUS
  <2>3. EndBatch(v, o)
    BY <2>2 DEF Notify
  <2>4. b = o.batches /\ j = [NoJob EXCEPT !.batches = Tail(o.batches), !.hot = o.hot]
    BY <1>1, <1>2, <2>2
  <2>5. CASE Len(b) > 1
    <3>1. PICK next : next = [NoJob EXCEPT !.batches = Tail(o.batches), !.hot = o.hot]
      OBVIOUS
    <3>2. Len(o.batches) > 1
      BY <2>4, <2>5
    <3>3. Len(o.batches) # 1
      <4>1. ~(1 > 1)
        OBVIOUS
      <4> QED BY <3>2, <4>1, Zenon
    <3>4. Goto(v, "collect", next)
      BY <2>3, <3>1, <3>2, <3>3, Zenon DEF EndBatch
    <3> QED BY <2>1, <2>4, <2>5, <3>1, <3>4
  <2>6. CASE ~(Len(b) > 1)
    <3>1. Goto(v, "hot", j) \/ Goto(v, "idle", NoJob)
      BY <2>3, <2>4, <2>6 DEF EndBatch
    <3> QED BY <2>1, <2>6, <3>1
  <2> QED BY <2>5, <2>6
<1>5. CASE Len(b) > 1 /\ Goto(v, "collect", j)
  <2>1. /\ pc'[v] = "collect" /\ job'[v] = j
        /\ \A u \in Workers \ {v} : pc'[u] = pc[u] /\ job'[u] = job[u]
    BY <1>0, <1>3, <1>5, GotoFacts
  <2>2. j.hot = FALSE => b \in Seq(SUBSET Scopes) /\ b # <<>>
    BY <1>0, <1>1, <1>3, <1>4 DEF Placed, Busy
  <2>3. j.hot = FALSE => Tail(b) \in Seq(SUBSET Scopes) /\ Tail(b) # <<>>
    BY <1>5, <2>2, TailFacts
  <2>4. ASSUME NEW s \in Board, Coming(v, s) PROVE Coming(v, s)'
    <3>1. j.hot = FALSE /\ \E n \in 2 .. Len(b) : s \in b[n]
      BY <1>1, <1>3, <1>4, <2>4 DEF Coming, Queued
    <3>2. PICK n \in 2 .. Len(b) : s \in b[n]
      BY <3>1
    <3>3. PICK c : c = Tail(b)
      OBVIOUS
    <3>4. Len(c) = Len(b) - 1 /\ c[n - 1] = b[n] /\ c # <<>> /\ c \in Seq(SUBSET Scopes)
      BY <1>5, <2>2, <2>3, <3>1, <3>3, TailFacts
    <3>5. n - 1 = 1 => s \in Head(c)
      BY <3>2, <3>4
    <3>6. n - 1 # 1 => \E m \in 2 .. Len(c) : s \in c[m]
      BY <3>2, <3>4, <2>2, <3>1
    <3>7. s \in Head(c) \/ \E m \in 2 .. Len(c) : s \in c[m]
      BY <3>5, <3>6
    <3> QED BY <1>3, <2>1, <3>1, <3>3, <3>7 DEF Coming, Queued, Busy
  <2> QED BY <1>3, <1>4, <2>1, <2>3, <2>4, WorkDrains
<1>6. CASE ~(Len(b) > 1) /\ (Goto(v, "hot", j) \/ Goto(v, "idle", NoJob))
  <2>1. /\ pc'[v] \notin Busy
        /\ \A u \in Workers \ {v} : pc'[u] = pc[u] /\ job'[u] = job[u]
    BY <1>0, <1>3, <1>6, GotoFacts, NoJobFacts DEF Busy
  <2>2. job[v].hot = FALSE => b \in Seq(SUBSET Scopes)
    BY <1>0, <1>1, <1>4 DEF Placed, Busy
  <2>3. \A s \in Board : ~Coming(v, s)
    BY <1>1, <1>4, <1>6, <2>2 DEF Coming, Queued
  <2> QED BY <1>4, <2>1, <2>3, WorkDrains DEF Busy
<1> QED BY <1>4, <1>5, <1>6

LEMMA FindHotDrains ==
    ASSUME DrainInv, NEW v \in Workers, FindHot(v)
    PROVE  Placed' /\ Honest' /\ \A s \in Board : Tended(s)'
<1>0. Shape
  BY DEF DrainInv, SoloInv, IInv
<1>1. pc[v] = "hot" /\ UNCHANGED <<now, row, dirty>>
  BY DEF FindHot
<1>2. PICK step, j :
          step \in {"idle", "collect"} /\ DOMAIN j = Fields /\ Goto(v, step, j) /\ (step = "collect" => j.hot = TRUE)
  <2>1. CASE Goto(v, "idle", NoJob)
    BY <2>1, NoJobFacts
  <2>2. CASE \E order : Goto(v, "collect", [NoJob EXCEPT !.batches = order, !.hot = TRUE])
    <3>1. PICK order : Goto(v, "collect", [NoJob EXCEPT !.batches = order, !.hot = TRUE])
      BY <2>2
    <3>2. PICK q : q = [NoJob EXCEPT !.batches = order, !.hot = TRUE]
      OBVIOUS
    <3>3. DOMAIN q = Fields /\ q.hot = TRUE
      BY <3>2, NoJobFacts DEF Fields
    <3> QED BY <3>1, <3>2, <3>3
  <2>3. \/ Goto(v, "idle", NoJob)
        \/ \E order : Goto(v, "collect", [NoJob EXCEPT !.batches = order, !.hot = TRUE])
    BY DEF FindHot
  <2> QED BY <2>1, <2>2, <2>3
<1>3. /\ pc'[v] = step /\ job'[v] = j
      /\ \A u \in Workers \ {v} : pc'[u] = pc[u] /\ job'[u] = job[u]
  BY <1>0, <1>2, GotoFacts
<1>4. \A s \in Board : ~Coming(v, s)
  BY <1>1 DEF Coming, Busy
<1> QED BY <1>1, <1>2, <1>3, <1>4, WorkDrains DEF Busy

LEMMA DrainInvKept ==
    ASSUME ~Overlap, DrainInv, [Run]_vars
    PROVE  DrainInv'
<1>1. SoloInv'
  <2>1. [Next]_vars
    BY DEF Next
  <2> QED BY <2>1, StepKinds, HarmlessSolo, ReadRowsSolo, WriteRowSolo DEF DrainInv, SoloInv
<1>2. Placed' /\ Honest' /\ \A s \in Board : Tended(s)'
  <2>1. CASE UNCHANGED vars
    <3>1. UNCHANGED <<now, row, dirty, pc, job>>
      BY <2>1 DEF vars
    <3>2. \A s \in Board : Marked(s)' = Marked(s) /\ InputsOf(s)' = InputsOf(s)
      BY <3>1, SameSignals DEF Marked
    <3>3. DOMAIN now' = Wards /\ dirty' \in [Instances -> SUBSET Board]
      BY <3>1 DEF DrainInv, Placed
    <3> QED BY <3>1, <3>2, <3>3, FieldKeeps, FieldPlaced DEF DrainInv
  <2>2. CASE World \/ Timers
    BY <2>2, FieldDrains, DrainTickDrains DEF Timers
  <2>3. ASSUME NEW v \in Workers, Work(v)
        PROVE  Placed' /\ Honest' /\ \A s \in Board : Tended(s)'
    BY <2>3, CollectDrains, ReadRowsDrains, WriteRowDrains, NotifyDrains, FindHotDrains DEF Work
  <2> QED BY <2>1, <2>2, <2>3 DEF Run
<1> QED BY <1>1, <1>2 DEF DrainInv

LEMMA InitDrain == Init => DrainInv
<1> SUFFICES ASSUME Init PROVE DrainInv
  OBVIOUS
<1>1. Placed
  BY DEF Init, Placed, Busy
<1>2. Honest
  BY DEF Init, Honest
<1>3. \A s \in Board : Tended(s)
  BY DEF Init, Tended, Scopes
<1> QED BY <1>1, <1>2, <1>3, InitSolo DEF DrainInv

\* Without overlapping jobs, failures and lost events, the risk board shows the signals as
\* they are whenever no mark is pending and no job runs: a change that arrives while a job
\* is on its way marks its places again, so that what the job writes from the signals it
\* read before is drained once more.
THEOREM DrainedCorrect == ASSUME ~Overlap PROVE ReliableSpec => []DrainedIsCurrent
<1>1. DrainInv /\ [Run]_vars => DrainInv'
  BY DrainInvKept
<1>2. DrainInv => DrainedIsCurrent
  BY DEF DrainInv, Tended, Marked, Coming, Busy, DrainedIsCurrent, Quiet
<1> QED BY <1>1, <1>2, InitDrain, PTL DEF ReliableSpec
=============================================================================
