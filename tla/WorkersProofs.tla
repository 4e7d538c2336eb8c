---------------------------- MODULE WorkersProofs ----------------------------
(***************************************************************************)
(* Proofs about the background workers, for any units, scans, rows, posts  *)
(* and places: scans that are fetched and compared (Irev, one job at a     *)
(* time, as its queue hands them out), photos of sheets (Ec8a), posts and  *)
(* moods (Social).                                                         *)
(***************************************************************************)
EXTENDS Irev, Ec8a, Social, FiniteSetTheorems, SequenceTheorems, TLAPS

(***************************************************************************)
(* Irev.                                                                   *)
(***************************************************************************)

\* The queue hands out a job when the one before it is done.
OneAtATime == \A v, w \in Slots : v = w

Shows == [PUs -> Docs \cup {NoDoc}]

\* A job is about a unit of the ward, a comparison about one that has a result.
GoodJob(units) ==
    {j \in Job : (j.kind # "catalog" => j.pu \in PUs) /\ (j.kind = "compare" => j.pu \in units)}

LocalVars ==
    [job : Job, figures : Figures \cup {Blank}, seen : Shows \cup {<<>>},
     before : [PUs -> Snapshot] \cup {<<>>}, left : SUBSET PUs, pu : PUs \cup {NoPU},
     doc : Docs \cup {NoDoc}, extract : Extract \cup {NoExtract},
     replaced : BOOLEAN, cached : BOOLEAN]

IrevTypeOK ==
    /\ TypeOK
    /\ queue \in Seq(GoodJob(sent))
    /\ at \in [Slots -> LocalVars]
    /\ \A w \in Slots : at[w].job \in GoodJob(sent)

\* A row is about the scan it names, and ready if that scan could be read.
RowFits(s) ==
    /\ s.extract # NoExtract => s.doc # NoDoc /\ s.extract.of = s.doc
    /\ s.status = "OCR_READY" =>
          s.doc # NoDoc /\ s.extract = [of |-> s.doc, legible |-> TRUE]

RowsFit == \A p \in PUs : RowFits(snap[p])

Comparing == {"snapshot", "read", "judge"}

\* What a job knows of the rows at each of its steps, when no other one writes them.
Knows(step, q) ==
    /\ step \in {"rows", "row"} \cup Comparing => q.seen \in Shows
    /\ step \in {"row"} =>
          /\ q.before \in [PUs -> Snapshot]
          /\ \A p \in q.left : q.before[p] = snap[p]
          /\ \A p \in PUs \ q.left : snap[p].doc = q.seen[p]
    /\ step \in {"fetch", "rows", "row"} \cup Comparing /\ q.job.kind = "compare" => q.pu = q.job.pu
    /\ step \in Comparing =>
          q.job.kind = "compare" /\ q.pu = q.job.pu
    /\ step = "snapshot" => snap[q.pu].doc = q.seen[q.pu]
    /\ step \in {"read", "judge"} =>
          /\ q.extract # NoExtract => q.extract.of = q.doc
          /\ revision[q.pu] # NoExtract => q.replaced \/ q.doc = NoDoc
          /\ q.cached => q.extract.legible
    /\ step # "judge" => ~q.cached
    /\ step = "read" => q.doc # NoDoc
    /\ step = "judge" /\ q.doc # NoDoc => q.extract # NoExtract
    /\ step \in {"ocrLive", "ocrRead"} => q.pu \in PUs
    /\ step = "ocrRead" => q.doc # NoDoc

IrevInv ==
    /\ IrevTypeOK
    /\ RowsFit
    /\ \A w \in Slots : Knows(pc[w], at[w])
    /\ VerdictFits

-----------------------------------------------------------------------------
LEMMA JobsFile ==
    ASSUME NEW G, queue \in Seq(G), NEW some \in SUBSET G, IsFiniteSet(some)
    PROVE  Queued(some) \in Seq(G)
<1> DEFINE S == some \ ToSet(queue)
<1>1. IsFiniteSet(S)
  BY FS_Difference
<1> HIDE DEF S
<1>2. PICK f \in [1 .. Cardinality(S) -> S] : IsInjective(f)
  BY <1>1, FS_CardinalityType DEF ExistsBijection, Bijection, Injection
<1>3. SetToSeq(S) \in [1 .. Cardinality(S) -> S]
  BY <1>2 DEF SetToSeq
<1>4. SetToSeq(S) \in Seq(G)
  <2>1. Cardinality(S) \in Nat /\ S \subseteq G
    BY <1>1, FS_CardinalityType DEF S
  <2>2. \A n \in Nat : \A s \in [1 .. n -> S] : s \in Seq(G)
    BY <2>1
  <2>3. QED BY <1>3, <2>1, <2>2
<1>5. QED BY <1>4 DEF Queued, S

LEMMA CallsAreJobs ==
    ASSUME NEW p \in PUs, NEW force \in BOOLEAN
    PROVE  CompareJob(p, force) \in Job /\ OcrJob(p) \in Job /\ CatalogJob \in Job
BY Scans DEF CompareJob, OcrJob, CatalogJob, Job

LEMMA MoreJobs ==
    ASSUME NEW S, NEW T, S \subseteq T
    PROVE  GoodJob(S) \subseteq GoodJob(T) /\ Seq(GoodJob(S)) \subseteq Seq(GoodJob(T))
<1>1. GoodJob(S) \subseteq GoodJob(T)
  BY DEF GoodJob
<1>2. QED BY <1>1, SeqMonotonic

LEMMA IrevInitInv == Init => IrevInv
<1> SUFFICES ASSUME Init PROVE IrevInv
  OBVIOUS
<1> USE DEF Init
<1>1. NoSnapshot \in Snapshot /\ NoVerdict \in Verdict /\ CatalogJob \in Job
  BY Scans DEF NoSnapshot, Snapshot, NoVerdict, Verdict, NoExtract, CatalogJob, Job
<1>2. TypeOK
  BY <1>1 DEF TypeOK, Steps
<1>3. CatalogJob \in GoodJob(sent)
  BY <1>1 DEF GoodJob, CatalogJob
<1>4. NoWork \in LocalVars
  BY <1>1 DEF NoWork, LocalVars
<1>5. IrevTypeOK
  BY <1>2, <1>3, <1>4 DEF IrevTypeOK, NoWork
<1>6. RowsFit
  BY DEF RowsFit, RowFits, NoSnapshot
<1>7. \A w \in Slots : Knows(pc[w], at[w])
  BY DEF Knows, Comparing, NoWork
<1>8. VerdictFits
  BY DEF VerdictFits, NoVerdict, Compared
<1>9. QED BY <1>5, <1>6, <1>7, <1>8 DEF IrevInv

-----------------------------------------------------------------------------
(* What the portal, the agents, the operators and the timers do.           *)

LEMMA OutsideStep ==
    ASSUME IrevInv, UNCHANGED <<snap, revision, verdict, pc, at>>,
           portal' \in Shows, agent' \in [PUs -> Figures \cup {Blank}],
           sent \subseteq sent', sent' \subseteq PUs,
           cataloged' \in {"never", "fresh", "stale"}, queue' \in Seq(GoodJob(sent'))
    PROVE  IrevInv'
<1> USE DEF IrevInv
<1>1. GoodJob(sent) \subseteq GoodJob(sent') /\ Seq(GoodJob(sent')) \subseteq Seq(Job)
  <2>1. GoodJob(sent') \subseteq Job
    BY DEF GoodJob
  <2>2. QED BY <2>1, MoreJobs, SeqMonotonic
<1>2. TypeOK'
  BY <1>1 DEF IrevTypeOK, TypeOK, Shows
<1>3. IrevTypeOK'
  BY <1>1, <1>2 DEF IrevTypeOK
<1>4. RowsFit' /\ VerdictFits'
  BY DEF RowsFit, RowFits, VerdictFits
<1>5. \A w \in Slots : Knows(pc[w], at[w])'
  BY DEF Knows
<1>6. QED BY <1>3, <1>4, <1>5

LEMMA CallsAreGood ==
    ASSUME NEW S, NEW p \in PUs, NEW force \in BOOLEAN
    PROVE  /\ p \in S => CompareJob(p, force) \in GoodJob(S)
           /\ OcrJob(p) \in GoodJob(S) /\ CatalogJob \in GoodJob(S)
BY CallsAreJobs DEF GoodJob, CompareJob, OcrJob, CatalogJob

LEMMA CatalogIsGood == ASSUME NEW S PROVE CatalogJob \in GoodJob(S)
BY Scans DEF GoodJob, CatalogJob, Job

LEMMA UnitsFinite == ASSUME NEW S \in SUBSET PUs PROVE IsFiniteSet(S)
BY WardHasUnits, FS_Subset

\* One call of a job, and calls for many units.
LEMMA OneCall ==
    ASSUME NEW G, queue \in Seq(G), NEW j \in G PROVE Queued({j}) \in Seq(G)
BY JobsFile, FS_Singleton

LEMMA ManyCalls ==
    ASSUME NEW G, queue \in Seq(G), NEW S \in SUBSET PUs, NEW call \in [S -> G]
    PROVE  Queued({call[p] : p \in S}) \in Seq(G)
<1> DEFINE calls == {call[p] : p \in S}
<1>1. IsFiniteSet(S)
  BY UnitsFinite
<1>2. IsFiniteSet(calls)
  <2>1. call \in Surjection(S, calls)
    BY DEF Surjection
  <2>2. QED BY <1>1, <2>1, FS_Surjection
<1>3. calls \subseteq G
  OBVIOUS
<1>4. QED BY <1>2, <1>3, JobsFile

LEMMA EnvironmentInv == ASSUME IrevInv, Environment PROVE IrevInv'
<1> USE DEF IrevInv, IrevTypeOK, TypeOK, Shows
<1>1. ASSUME NEW p \in PUs, NEW d \in Docs \cup {NoDoc}, Publish(p, d) PROVE IrevInv'
  BY <1>1, OutsideStep DEF Publish
<1>2. ASSUME NEW p \in PUs, NEW f \in Figures \cup {Blank}, Submit(p, f) PROVE IrevInv'
  <2>1. sent' = sent \cup {p} /\ queue' = Queued({CompareJob(p, FALSE)})
    BY <1>2 DEF Submit
  <2>2. queue \in Seq(GoodJob(sent')) /\ CompareJob(p, FALSE) \in GoodJob(sent')
    BY <2>1, MoreJobs, CallsAreGood
  <2>3. queue' \in Seq(GoodJob(sent'))
    BY <2>1, <2>2, OneCall
  <2>4. agent' \in [PUs -> Figures \cup {Blank}]
    BY <1>2 DEF Submit
  <2>5. QED BY <1>2, <2>1, <2>3, <2>4, OutsideStep DEF Submit
<1>3. ASSUME NEW p \in PUs, Refresh(p) PROVE IrevInv'
  BY <1>3, OneCall, CallsAreGood, OutsideStep DEF Refresh, outside
<1>4. CASE RefreshPending
  <2> DEFINE open == {u \in sent : verdict[u].status \in {"NONE"} \cup Waiting}
  <2> DEFINE force(p) == verdict[p].status = "PENDING"
  <2> DEFINE calls == {CompareJob(p, force(p)) : p \in open}
  <2>1. queue' = Queued({CatalogJob} \cup calls)
    BY <1>4 DEF RefreshPending
  <2>2. open \subseteq PUs /\ \A p \in open : CompareJob(p, force(p)) \in GoodJob(sent)
    <3>1. ASSUME NEW p \in open PROVE CompareJob(p, force(p)) \in GoodJob(sent)
      <4>1. \A b \in BOOLEAN : CompareJob(p, b) \in GoodJob(sent)
        BY CallsAreGood
      <4>2. force(p) \in BOOLEAN
        OBVIOUS
      <4>3. QED BY <4>1, <4>2, Zenon
    <3>2. QED BY <3>1
  <2>3. IsFiniteSet(calls)
    <3> DEFINE call == [p \in open |-> CompareJob(p, force(p))]
    <3>1. IsFiniteSet(open)
      BY <2>2, UnitsFinite
    <3>2. call \in Surjection(open, calls)
      BY DEF Surjection
    <3>3. QED BY <3>1, <3>2, FS_Surjection
  <2>4. calls \subseteq GoodJob(sent)
    BY <2>2
  <2> HIDE DEF calls
  <2>5. {CatalogJob} \cup calls \subseteq GoodJob(sent) /\ IsFiniteSet({CatalogJob} \cup calls)
    BY <2>3, <2>4, CatalogIsGood, FS_Singleton, FS_Union
  <2>6. queue' \in Seq(GoodJob(sent))
    BY <2>1, <2>5, JobsFile
  <2>7. QED BY <1>4, <2>6, OutsideStep DEF RefreshPending, outside
<1>5. QED BY <1>1, <1>2, <1>3, <1>4 DEF Environment

LEMMA TimersInv == ASSUME IrevInv, Timers PROVE IrevInv'
<1> USE DEF IrevInv, IrevTypeOK, TypeOK, Shows
<1>1. CASE CatalogTick
  BY <1>1, OneCall, CatalogIsGood, OutsideStep DEF CatalogTick, outside
<1>2. CASE CatalogAges
  BY <1>2, OutsideStep DEF CatalogAges, outside
<1>3. CASE BackfillTick
  <2> DEFINE call == [p \in Unread |-> OcrJob(p)]
  <2>1. Unread \in SUBSET PUs /\ call \in [Unread -> GoodJob(sent)]
    BY CallsAreGood DEF Unread
  <2>2. queue' = Queued({call[p] : p \in Unread})
    BY <1>3 DEF BackfillTick
  <2>3. queue' \in Seq(GoodJob(sent))
    BY <2>1, <2>2, ManyCalls
  <2>4. QED BY <1>3, <2>3, OutsideStep DEF BackfillTick, outside
<1>4. CASE WaitTick
  <2> DEFINE call == [p \in Awaited |-> CompareJob(p, FALSE)]
  <2>1. Awaited \in SUBSET PUs /\ call \in [Awaited -> GoodJob(sent)]
    BY CallsAreGood DEF Awaited
  <2>2. queue' = Queued({call[p] : p \in Awaited})
    BY <1>4 DEF WaitTick
  <2>3. queue' \in Seq(GoodJob(sent))
    BY <2>1, <2>2, ManyCalls
  <2>4. QED BY <1>4, <2>3, OutsideStep DEF WaitTick, outside
<1>5. QED BY <1>1, <1>2, <1>3, <1>4 DEF Timers

LEMMA LoseInv == ASSUME IrevInv, NEW i \in DOMAIN queue, Lose(i) PROVE IrevInv'
<1> USE DEF IrevInv, IrevTypeOK, TypeOK, Shows
<1>1. RemoveAt(queue, i) \in Seq(GoodJob(sent))
  <2> DEFINE G == GoodJob(sent)
  <2>1. queue \in Seq(G) /\ i \in 1 .. Len(queue)
    OBVIOUS
  <2> HIDE DEF G
  <2>2. SubSeq(queue, 1, i - 1) \in Seq(G) /\ SubSeq(queue, i + 1, Len(queue)) \in Seq(G)
    BY <2>1, SubSeqProperties
  <2>3. QED BY <2>2 DEF RemoveAt, G
<1>2. QED BY <1>1, OutsideStep DEF Lose, outside

-----------------------------------------------------------------------------
(* What a job does.                                                        *)

LEMMA SlotStep ==
    ASSUME OneAtATime, IrevInv, NEW w \in Slots, NEW step \in Steps, NEW q \in LocalVars,
           Goto(w, step, q), UNCHANGED outside, q.job \in GoodJob(sent),
           cataloged' \in {"never", "fresh", "stale"}, queue' \in Seq(GoodJob(sent)),
           snap' \in [PUs -> Snapshot], revision' \in [PUs -> Extract \cup {NoExtract}],
           verdict' \in [PUs -> Verdict], \A p \in PUs \ sent : verdict'[p] = NoVerdict,
           RowsFit', VerdictFits', Knows(step, q)'
    PROVE  IrevInv'
<1> USE DEF IrevInv, IrevTypeOK
<1>1. pc' = [v \in Slots |-> step] /\ at' = [v \in Slots |-> q]
  BY DEF Goto, OneAtATime, TypeOK
<1>2. GoodJob(sent) \subseteq Job
  BY DEF GoodJob
<1>3. Seq(GoodJob(sent)) \subseteq Seq(Job)
  BY <1>2, SeqMonotonic
<1>4. TypeOK'
  BY <1>1, <1>3 DEF TypeOK, outside
<1>5. IrevTypeOK'
  BY <1>1, <1>4 DEF outside
<1>6. \A v \in Slots : Knows(pc[v], at[v])'
  BY <1>1
<1>7. QED BY <1>5, <1>6

LEMMA NoWorkFact ==
    NoWork \in LocalVars /\ \A S : NoWork.job \in GoodJob(S)
BY Scans DEF NoWork, LocalVars, NoExtract, CatalogJob, Job, GoodJob

\* A job that only looks.
LEMMA LookStep ==
    ASSUME OneAtATime, IrevInv, NEW w \in Slots, NEW step \in Steps, NEW q \in LocalVars,
           Goto(w, step, q), UNCHANGED <<outside, snap, revision, verdict>>,
           q.job \in GoodJob(sent), cataloged' \in {"never", "fresh", "stale"},
           queue' \in Seq(GoodJob(sent)), Knows(step, q)
    PROVE  IrevInv'
<1> USE DEF IrevInv, IrevTypeOK
<1>1. RowsFit' /\ VerdictFits' /\ Knows(step, q)'
  BY DEF RowsFit, RowFits, VerdictFits, Knows
<1>2. QED BY <1>1, SlotStep DEF TypeOK

LEMMA KnowsIdle == Knows("idle", NoWork)
BY DEF Knows, Comparing, NoWork

LEMMA IdleStep ==
    ASSUME OneAtATime, IrevInv, NEW w \in Slots, Finish(w),
           UNCHANGED <<outside, snap, revision, verdict>>,
           cataloged' \in {"never", "fresh", "stale"}, queue' \in Seq(GoodJob(sent))
    PROVE  IrevInv'
BY LookStep, NoWorkFact, KnowsIdle DEF Finish, Steps

LEMMA TakeInv ==
    ASSUME OneAtATime, IrevInv, NEW w \in Slots, Take(w) PROVE IrevInv'
<1> USE DEF IrevInv, IrevTypeOK, TypeOK
<1> DEFINE job == Head(queue)
<1> DEFINE q == [NoWork EXCEPT !.job = job, !.pu = job.pu]
<1>1. job \in GoodJob(sent) /\ queue' \in Seq(GoodJob(sent))
  BY DEF Take
<1>2. job \in Job /\ (job.kind # "catalog" => job.pu \in PUs)
      /\ (job.kind = "compare" => job.pu \in PUs) /\ job.pu \in PUs \cup {NoPU}
  BY <1>1 DEF GoodJob, Job
<1>3. UNCHANGED <<outside, snap, revision, verdict, cataloged>>
  BY DEF Take
<1>4. CASE job.kind = "ocr"
  <2> DEFINE x == [q EXCEPT !.left = {job.pu}]
  <2>1. Goto(w, "ocr", x)
    BY <1>4 DEF Take
  <2>2. x \in LocalVars /\ x.job = job /\ ~x.cached
    BY <1>2, <1>4, NoWorkFact DEF LocalVars, NoWork
  <2> HIDE DEF x
  <2>3. Knows("ocr", x)
    BY <2>2 DEF Knows, Comparing
  <2>4. QED BY <1>1, <1>3, <2>1, <2>2, <2>3, LookStep DEF Steps
<1>5. CASE job.kind = "compare"
  <2> DEFINE x == [q EXCEPT !.figures = agent[job.pu]]
  <2>1. Goto(w, "fetch", x)
    BY <1>5 DEF Take
  <2>2. x \in LocalVars /\ x.job = job /\ x.pu = job.pu /\ ~x.cached
    BY <1>2, <1>5, NoWorkFact DEF LocalVars, NoWork
  <2> HIDE DEF x
  <2>3. Knows("fetch", x)
    BY <2>2 DEF Knows, Comparing
  <2>4. QED BY <1>1, <1>3, <2>1, <2>2, <2>3, LookStep DEF Steps
<1>6. CASE job.kind \notin {"ocr", "compare"}
  <2>1. Goto(w, "fetch", q)
    BY <1>6 DEF Take
  <2>2. q \in LocalVars /\ q.job = job /\ ~q.cached
    BY <1>2, NoWorkFact DEF LocalVars, NoWork
  <2> HIDE DEF q
  <2>3. Knows("fetch", q)
    BY <1>6, <2>2 DEF Knows, Comparing
  <2>4. QED BY <1>1, <1>3, <2>1, <2>2, <2>3, LookStep DEF Steps
<1>7. QED BY <1>4, <1>5, <1>6

LEMMA FetchInv ==
    ASSUME OneAtATime, IrevInv, NEW w \in Slots, FetchWard(w) PROVE IrevInv'
<1> USE DEF IrevInv, IrevTypeOK, TypeOK
<1> DEFINE x == [at[w] EXCEPT !.seen = portal]
<1>1. Goto(w, "rows", x) /\ pc[w] = "fetch"
  BY DEF FetchWard
<1>2. /\ x \in LocalVars /\ x.job = at[w].job /\ x.pu = at[w].pu /\ x.seen = portal
      /\ x.cached = at[w].cached
  BY DEF LocalVars, Shows
<1> HIDE DEF x
<1>3. Knows("rows", x)
  BY <1>1, <1>2 DEF Knows, Comparing, Shows
<1>4. QED BY <1>1, <1>2, <1>3, LookStep DEF FetchWard, Steps

LEMMA RetriedType ==
    ASSUME NEW S, queue \in Seq(GoodJob(S)), NEW job \in GoodJob(S)
    PROVE  Retried(job) \in Seq(GoodJob(S))
<1>1. CASE job.attempt < MaxAttempts
  <2>1. job.attempt + 1 \in 1 .. MaxAttempts
    BY <1>1, Scans DEF GoodJob, Job
  <2>2. [job EXCEPT !.attempt = job.attempt + 1] \in GoodJob(S)
    BY <2>1 DEF GoodJob, Job
  <2>3. QED BY <1>1, <2>2, OneCall DEF Retried
<1>2. QED BY <1>1 DEF Retried

LEMMA LimitedInv ==
    ASSUME OneAtATime, IrevInv, NEW w \in Slots, Limited(w) PROVE IrevInv'
BY RetriedType, IdleStep DEF Limited, IrevInv, IrevTypeOK, TypeOK

LEMMA DieInv ==
    ASSUME OneAtATime, IrevInv, NEW w \in Slots, Die(w) PROVE IrevInv'
BY OneCall, IdleStep DEF Die, IrevInv, IrevTypeOK, TypeOK

LEMMA PortalFailsInv ==
    ASSUME OneAtATime, IrevInv, NEW w \in Slots, PortalFails(w) PROVE IrevInv'
<1> USE DEF IrevInv, IrevTypeOK, TypeOK
<1>1. CASE at[w].job.kind = "compare"
  <2>1. at[w].pu \in sent /\ verdict' = [verdict EXCEPT ![at[w].pu] = Pending]
    BY <1>1 DEF PortalFails, Knows, GoodJob
  <2>2. Pending \in Verdict /\ Pending.status \notin Compared
    BY DEF Pending, NoVerdict, Verdict, Waiting, Compared
  <2>3. /\ verdict' \in [PUs -> Verdict] /\ VerdictFits'
        /\ \A p \in PUs \ sent : verdict'[p] = NoVerdict
    BY <2>1, <2>2 DEF VerdictFits
  <2>4. RowsFit'
    BY DEF PortalFails, RowsFit, RowFits
  <2>5. Knows("idle", NoWork)'
    BY DEF Knows, Comparing, NoWork
  <2>6. QED BY <2>3, <2>4, <2>5, NoWorkFact, SlotStep DEF PortalFails, Finish, Steps
<1>2. CASE at[w].job.kind # "compare"
  BY <1>2, IdleStep DEF PortalFails
<1>3. QED BY <1>1, <1>2

-----------------------------------------------------------------------------
(* The rows of the catalog.                                                *)

LEMMA ReadRowsInv ==
    ASSUME OneAtATime, IrevInv, NEW w \in Slots, ReadRows(w) PROVE IrevInv'
<1> USE DEF IrevInv, IrevTypeOK, TypeOK
<1> DEFINE x == [at[w] EXCEPT !.before = snap, !.left = PUs]
<1>1. Goto(w, "row", x) /\ pc[w] = "rows"
  BY DEF ReadRows
<1>2. /\ x \in LocalVars /\ x.job = at[w].job /\ x.pu = at[w].pu /\ x.seen = at[w].seen
      /\ x.before = snap /\ x.left = PUs /\ x.cached = at[w].cached
  BY DEF LocalVars
<1> HIDE DEF x
<1>3. Knows("row", x)
  BY <1>1, <1>2 DEF Knows, Comparing
<1>4. QED BY <1>1, <1>2, <1>3, LookStep DEF ReadRows, Steps

\* The row written for a unit whose row is still what it was when the list was read.
LEMMA CatalogedFits ==
    ASSUME NEW s \in Snapshot, RowFits(s), NEW doc \in Docs \cup {NoDoc}
    PROVE  /\ Cataloged(s, s, doc) \in Snapshot /\ RowFits(Cataloged(s, s, doc))
           /\ Cataloged(s, s, doc).doc = doc
BY NotAScan DEF Cataloged, Snapshot, RowFits, NoExtract

LEMMA CatalogRowInv ==
    ASSUME OneAtATime, IrevInv, NEW w \in Slots, NEW p \in PUs, CatalogRow(w, p) PROVE IrevInv'
<1> USE DEF IrevInv, IrevTypeOK, TypeOK
<1> DEFINE fresh == Cataloged(snap[p], snap[p], at[w].seen[p])
<1>0. PICK x \in LocalVars : x = [at[w] EXCEPT !.left = @ \ {p}]
  BY DEF LocalVars
<1>1. /\ Goto(w, "row", x) /\ pc[w] = "row" /\ p \in at[w].left
      /\ snap' = [snap EXCEPT ![p] = Cataloged(at[w].before[p], @, at[w].seen[p])]
      /\ revision' \in {revision, [revision EXCEPT ![p] = at[w].before[p].extract]}
      /\ UNCHANGED <<outside, verdict, cataloged, queue>>
  BY <1>0 DEF CatalogRow
<1>2. /\ x.job = at[w].job /\ x.pu = at[w].pu /\ x.seen = at[w].seen
      /\ x.before = at[w].before /\ x.left = at[w].left \ {p} /\ x.cached = at[w].cached
  BY <1>0 DEF LocalVars
<1>3. /\ at[w].before[p] = snap[p] /\ at[w].before \in [PUs -> Snapshot] /\ at[w].seen \in Shows
      /\ \A u \in PUs \ at[w].left : snap[u].doc = at[w].seen[u]
      /\ \A u \in at[w].left : at[w].before[u] = snap[u]
      /\ at[w].job.kind = "compare" => at[w].pu = at[w].job.pu
      /\ ~at[w].cached
  BY <1>1 DEF Knows
<1>4. fresh \in Snapshot /\ RowFits(fresh) /\ fresh.doc = at[w].seen[p]
  BY <1>3, CatalogedFits DEF RowsFit, Shows
<1>5. snap' = [snap EXCEPT ![p] = fresh]
  BY <1>1, <1>3
<1> HIDE DEF fresh
<1>6. snap' \in [PUs -> Snapshot] /\ RowsFit'
  BY <1>4, <1>5 DEF RowsFit
<1>7. revision' \in [PUs -> Extract \cup {NoExtract}]
  <2>1. at[w].before[p].extract \in Extract \cup {NoExtract}
    BY <1>3 DEF Snapshot
  <2>2. QED BY <1>1, <2>1
<1>8. Knows("row", x)'
  <2>1. \A u \in PUs \ {p} : snap'[u] = snap[u]
    BY <1>5
  <2>2. snap'[p].doc = at[w].seen[p]
    BY <1>4, <1>5
  <2>3. \A u \in PUs \ x.left : snap'[u].doc = x.seen[u]
    BY <1>2, <1>3, <2>1, <2>2
  <2>4. \A u \in x.left : x.before[u] = snap'[u]
    BY <1>2, <1>3, <2>1 DEF LocalVars
  <2> HIDE DEF IrevInv, IrevTypeOK, TypeOK
  <2>5. QED BY <1>2, <1>3, <2>3, <2>4 DEF Knows, Comparing
<1>9. VerdictFits'
  BY <1>1 DEF VerdictFits
<1>10. /\ x.job \in GoodJob(sent) /\ cataloged' \in {"never", "fresh", "stale"}
       /\ queue' \in Seq(GoodJob(sent)) /\ verdict' \in [PUs -> Verdict]
       /\ \A u \in PUs \ sent : verdict'[u] = NoVerdict
  BY <1>1, <1>2
<1> HIDE DEF IrevInv, IrevTypeOK, TypeOK
<1>11. QED BY <1>1, <1>2, <1>6, <1>7, <1>8, <1>9, <1>10, SlotStep DEF Steps

LEMMA MarkCatalogedInv ==
    ASSUME OneAtATime, IrevInv, NEW w \in Slots, MarkCataloged(w) PROVE IrevInv'
<1> USE DEF IrevInv, IrevTypeOK, TypeOK
<1> DEFINE unread == {p \in PUs : snap[p].status = "FETCHED" /\ snap[p].doc \in Eligible}
<1>1. /\ pc[w] = "row" /\ at[w].left = {} /\ cataloged' = "fresh"
      /\ UNCHANGED <<outside, snap, revision, verdict, queue>>
  BY DEF MarkCataloged
<1>2. CASE at[w].job.kind = "compare"
  <2>1. Goto(w, "snapshot", at[w])
    BY <1>2 DEF MarkCataloged
  <2>2. at[w].pu \in PUs
    BY <1>1, <1>2 DEF Knows, GoodJob
  <2>3. Knows("snapshot", at[w])
    BY <1>1, <1>2, <2>2 DEF Knows, Comparing
  <2>4. QED BY <1>1, <2>1, <2>3, LookStep DEF Steps
<1>3. CASE at[w].job.kind # "compare" /\ unread = {}
  <2>1. Finish(w)
    BY <1>3 DEF MarkCataloged
  <2>2. QED BY <1>1, <2>1, IdleStep
<1>4. CASE at[w].job.kind # "compare" /\ unread # {}
  <2> DEFINE x == [at[w] EXCEPT !.left = unread]
  <2>1. Goto(w, "ocr", x)
    BY <1>4 DEF MarkCataloged
  <2>2. x \in LocalVars /\ x.job = at[w].job /\ x.cached = at[w].cached
    BY DEF LocalVars
  <2> HIDE DEF x
  <2>3. Knows("ocr", x)
    BY <1>1, <2>2 DEF Knows, Comparing
  <2>4. QED BY <1>1, <2>1, <2>2, <2>3, LookStep DEF Steps
<1>5. QED BY <1>2, <1>3, <1>4

-----------------------------------------------------------------------------
(* The comparison.                                                         *)

LEMMA ReadSnapshotInv ==
    ASSUME OneAtATime, IrevInv, NEW w \in Slots, ReadSnapshot(w) PROVE IrevInv'
<1> USE DEF IrevInv, IrevTypeOK, TypeOK
<1> DEFINE p == at[w].pu
<1> DEFINE old == snap[p]
<1> DEFINE doc == at[w].seen[p]
<1> DEFINE known == ~at[w].job.force /\ old.doc = doc /\ old.extract # NoExtract
<1> DEFINE new == [at[w] EXCEPT !.doc = doc, !.extract = IF known THEN old.extract ELSE NoExtract,
                                !.replaced = revision[p] # NoExtract \/ Substituted(old, doc)]
<1>1. /\ at[w].job.kind = "compare" /\ p = at[w].job.pu /\ p \in PUs /\ at[w].seen \in Shows
      /\ old.doc = doc /\ doc \in Docs \cup {NoDoc} /\ ~at[w].cached
      /\ RowFits(old) /\ old \in Snapshot
  BY DEF ReadSnapshot, Knows, Comparing, GoodJob, Shows, RowsFit
<1>2. /\ pc[w] = "snapshot" /\ UNCHANGED <<outside, verdict, cataloged, queue>>
      /\ \/ /\ known /\ old.status = "OCR_READY"
            /\ Goto(w, "judge", [new EXCEPT !.cached = TRUE])
            /\ UNCHANGED <<snap, revision>>
         \/ /\ ~(known /\ old.status = "OCR_READY") /\ doc = NoDoc
            /\ snap' = [snap EXCEPT ![p].doc = NoDoc, ![p].status = "NOT_ON_IREV"]
            /\ Goto(w, "judge", new) /\ UNCHANGED revision
         \/ /\ ~(known /\ old.status = "OCR_READY") /\ doc # NoDoc
            /\ revision' \in {revision, [revision EXCEPT ![p] = old.extract]}
            /\ ~Substituted(old, doc) => UNCHANGED revision
            /\ Goto(w, "read", new) /\ UNCHANGED snap
  BY DEF ReadSnapshot
<1>3. ~Substituted(old, doc)
  BY <1>1 DEF Substituted
<1>4. PICK replaced \in BOOLEAN : replaced = (revision[p] # NoExtract)
  <2>1. CASE revision[p] # NoExtract
    BY <2>1
  <2>2. CASE revision[p] = NoExtract
    BY <2>2
  <2>3. QED BY <2>1, <2>2
<1>5. PICK extract \in Extract \cup {NoExtract} : extract = IF known THEN old.extract ELSE NoExtract
  BY <1>1 DEF Snapshot
<1>6. /\ new \in LocalVars /\ new.job = at[w].job /\ new.pu = p /\ new.seen = at[w].seen
      /\ new.doc = doc /\ new.extract \in {NoExtract, old.extract}
      /\ new.extract = IF known THEN old.extract ELSE NoExtract
      /\ ~new.cached /\ (revision[p] # NoExtract => new.replaced)
  <2>1. new = [at[w] EXCEPT !.doc = doc, !.extract = extract, !.replaced = replaced]
    <3>1. (revision[p] # NoExtract \/ Substituted(old, doc)) = replaced
      BY <1>3, <1>4
    <3>2. QED BY <1>5, <3>1, Zenon
  <2> HIDE DEF new
  <2>2. /\ new \in LocalVars /\ new.job = at[w].job /\ new.pu = p /\ new.seen = at[w].seen
        /\ new.doc = doc /\ new.extract = extract /\ new.replaced = replaced
        /\ new.cached = at[w].cached
    BY <1>1, <2>1 DEF LocalVars
  <2>3. QED BY <1>1, <1>4, <1>5, <2>2
<1>7. PICK q \in LocalVars : q = new
  BY <1>6
<1>8. PICK c \in LocalVars : c = [q EXCEPT !.cached = TRUE]
  BY DEF LocalVars
<1>9. /\ c.job = q.job /\ c.pu = q.pu /\ c.seen = q.seen /\ c.doc = q.doc
      /\ c.extract = q.extract /\ c.replaced = q.replaced /\ c.cached
  BY <1>8 DEF LocalVars
<1>10. VerdictFits'
  BY <1>2 DEF VerdictFits
<1>11. CASE known /\ old.status = "OCR_READY"
  <2>1. Goto(w, "judge", c) /\ UNCHANGED <<snap, revision>>
    BY <1>2, <1>7, <1>8, <1>11
  <2>2. c.extract = [of |-> doc, legible |-> TRUE] /\ doc # NoDoc
    BY <1>1, <1>6, <1>7, <1>9, <1>11 DEF RowFits
  <2> HIDE DEF new, known
  <2>3. Knows("judge", c)
    <3>1. c.extract # NoExtract /\ c.extract.of = c.doc /\ c.extract.legible
      BY <1>6, <1>7, <1>9, <2>2 DEF NoExtract
    <3>2. c.job.kind = "compare" /\ c.pu = c.job.pu /\ c.seen \in Shows
      BY <1>1, <1>6, <1>7, <1>9
    <3>3. revision[c.pu] # NoExtract => c.replaced
      BY <1>6, <1>7, <1>9
    <3>4. QED BY <3>1, <3>2, <3>3 DEF Knows, Comparing
  <2>4. c.job \in GoodJob(sent)
    BY <1>6, <1>7, <1>9
  <2>5. QED BY <1>2, <2>1, <2>3, <2>4, LookStep DEF Steps
<1>12. CASE ~(known /\ old.status = "OCR_READY") /\ doc = NoDoc
  <2>1. Goto(w, "judge", q) /\ UNCHANGED revision
    BY <1>2, <1>7, <1>12
  <2>2. snap' = [snap EXCEPT ![p] = [old EXCEPT !.doc = NoDoc, !.status = "NOT_ON_IREV"]]
    BY <1>1, <1>2, <1>12
  <2>3. /\ [old EXCEPT !.doc = NoDoc, !.status = "NOT_ON_IREV"] \in Snapshot
        /\ RowFits([old EXCEPT !.doc = NoDoc, !.status = "NOT_ON_IREV"])
    BY <1>1, <1>12 DEF Snapshot, RowFits
  <2>4. snap' \in [PUs -> Snapshot] /\ RowsFit'
    BY <2>2, <2>3 DEF RowsFit
  <2>5. q.extract = NoExtract
    BY <1>1, <1>6, <1>7, <1>12 DEF RowFits
  <2>6. Knows("judge", q)'
    BY <1>1, <1>2, <1>6, <1>7, <1>12, <2>1, <2>5 DEF Knows, Comparing
  <2>7. q.job \in GoodJob(sent)
    BY <1>6, <1>7
  <2>8. QED BY <1>2, <1>10, <2>1, <2>4, <2>6, <2>7, SlotStep DEF Steps
<1>13. CASE ~(known /\ old.status = "OCR_READY") /\ doc # NoDoc
  <2>1. Goto(w, "read", q) /\ UNCHANGED <<snap, revision>>
    BY <1>2, <1>3, <1>7, <1>13
  <2>2. q.extract # NoExtract => q.extract.of = q.doc
    BY <1>1, <1>6, <1>7 DEF RowFits
  <2>3. Knows("read", q)
    BY <1>1, <1>6, <1>7, <1>13, <2>2 DEF Knows, Comparing
  <2>4. q.job \in GoodJob(sent)
    BY <1>6, <1>7
  <2>5. QED BY <1>2, <2>1, <2>3, <2>4, LookStep DEF Steps
<1>14. QED BY <1>11, <1>12, <1>13

\* What is stored of a scan that was read or could not be.
LEMMA ReadFits ==
    ASSUME NEW doc \in Docs, NEW x \in Extract, x.of = doc
    PROVE  LET fresh == [doc |-> doc, extract |-> x, status |-> Outcome(x)]
           IN  fresh \in Snapshot /\ RowFits(fresh)
BY NotAScan DEF Extract, Outcome, Snapshot, RowFits

LEMMA ReadType ==
    ASSUME NEW doc \in Docs, NEW served \in BOOLEAN
    PROVE  Read(doc, served) \in Extract /\ Read(doc, served).of = doc
BY DEF Read, Extract

LEMMA ReadScanInv ==
    ASSUME OneAtATime, IrevInv, NEW w \in Slots, NEW served \in BOOLEAN, ReadScan(w, served)
    PROVE  IrevInv'
<1> USE DEF IrevInv, IrevTypeOK, TypeOK
<1> DEFINE x == IF at[w].extract # NoExtract THEN at[w].extract ELSE Read(at[w].doc, served)
<1> DEFINE fresh == [doc |-> at[w].doc, extract |-> x, status |-> Outcome(x)]
<1>1. /\ pc[w] = "read" /\ snap' = [snap EXCEPT ![at[w].pu] = fresh]
      /\ Goto(w, "judge", [at[w] EXCEPT !.extract = x])
      /\ UNCHANGED <<outside, revision, verdict, cataloged, queue>>
  BY DEF ReadScan
<1>2. /\ at[w].doc \in Docs /\ at[w].pu \in PUs
      /\ at[w].extract # NoExtract => at[w].extract \in Extract /\ at[w].extract.of = at[w].doc
  BY <1>1 DEF Knows, Comparing, GoodJob, LocalVars
<1>3. x \in Extract /\ x.of = at[w].doc /\ x # NoExtract
  <2>1. x \in Extract /\ x.of = at[w].doc
    BY <1>2, ReadType
  <2>2. QED BY <1>2, <2>1, NotAScan DEF NoExtract
<1>4. fresh \in Snapshot /\ RowFits(fresh)
  BY <1>2, <1>3, ReadFits
<1> HIDE DEF x, fresh
<1>5. snap' \in [PUs -> Snapshot] /\ RowsFit'
  BY <1>1, <1>4 DEF RowsFit
<1>6. PICK q \in LocalVars : q = [at[w] EXCEPT !.extract = x]
  BY <1>3 DEF LocalVars
<1>7. /\ q.job = at[w].job /\ q.pu = at[w].pu /\ q.seen = at[w].seen /\ q.doc = at[w].doc
      /\ q.extract = x /\ q.replaced = at[w].replaced /\ q.cached = at[w].cached
  BY <1>6 DEF LocalVars
<1>8. Knows("judge", q)'
  BY <1>1, <1>2, <1>3, <1>7 DEF Knows, Comparing
<1>9. VerdictFits'
  BY <1>1 DEF VerdictFits
<1>10. QED BY <1>1, <1>5, <1>6, <1>7, <1>8, <1>9, SlotStep DEF Steps

\* A verdict that compares says what the scan it names shows.
LEMMA JudgedFits ==
    ASSUME NEW q \in LocalVars, q.cached => q.extract.legible,
           q.extract # NoExtract => q.extract.of = q.doc, q.doc # NoDoc => q.extract # NoExtract
    PROVE  /\ Judged(q) \in Verdict
           /\ Judged(q).status \in Compared =>
                 /\ q.doc # NoDoc /\ ~q.replaced
                 /\ (Judged(q).status = "MATCH") = (Reading[Judged(q).doc] = Judged(q).figures)
<1>1. q.doc \in Docs \cup {NoDoc} /\ q.figures \in Figures \cup {Blank}
  BY DEF LocalVars
<1>2. Judged(q) \in Verdict
  BY <1>1 DEF Judged, Verdict, Pending, NoVerdict, Waiting, Compared
<1>3. ASSUME Judged(q).status \in Compared PROVE q.doc # NoDoc /\ ~q.replaced /\ q.extract.legible
  BY <1>3 DEF Judged, Pending, NoVerdict, Compared
<1>4. ASSUME Judged(q).status \in Compared
      PROVE  (Judged(q).status = "MATCH") = (Reading[Judged(q).doc] = Judged(q).figures)
  <2>1. q.doc # NoDoc /\ ~q.replaced /\ q.extract.legible /\ q.extract.of = q.doc
    BY <1>3, <1>4
  <2>2. Judged(q) # Pending
    BY <1>4 DEF Pending, NoVerdict, Compared
  <2>3. CASE Reading[q.doc] = q.figures
    BY <2>1, <2>2, <2>3 DEF Judged
  <2>4. CASE Reading[q.doc] # q.figures
    BY <2>1, <2>2, <2>4 DEF Judged
  <2>5. QED BY <2>3, <2>4
<1>5. QED BY <1>2, <1>3, <1>4

LEMMA JudgeFact ==
    ASSUME IrevInv, NEW w \in Slots, Judge(w)
    PROVE  /\ at[w].pu \in sent /\ verdict' = [verdict EXCEPT ![at[w].pu] = Judged(at[w])]
           /\ Judged(at[w]) \in Verdict
           /\ Judged(at[w]).status \in Compared =>
                 /\ revision[at[w].pu] = NoExtract
                 /\ (Judged(at[w]).status = "MATCH") =
                       (Reading[Judged(at[w]).doc] = Judged(at[w]).figures)
<1> USE DEF IrevInv, IrevTypeOK, TypeOK
<1>1. Knows("judge", at[w]) /\ at[w] \in LocalVars
  BY DEF Judge
<1>2. at[w].pu \in sent
  BY <1>1 DEF Knows, Comparing, GoodJob
<1>3. /\ at[w].cached => at[w].extract.legible
      /\ at[w].extract # NoExtract => at[w].extract.of = at[w].doc
      /\ at[w].doc # NoDoc => at[w].extract # NoExtract
      /\ revision[at[w].pu] # NoExtract => at[w].replaced \/ at[w].doc = NoDoc
  BY <1>1 DEF Knows
<1>4. QED BY <1>1, <1>2, <1>3, JudgedFits DEF Judge

LEMMA JudgeInv ==
    ASSUME OneAtATime, IrevInv, NEW w \in Slots, Judge(w) PROVE IrevInv'
<1> USE DEF IrevInv, IrevTypeOK, TypeOK
<1>1. /\ Finish(w) /\ UNCHANGED <<outside, snap, revision, cataloged, queue>>
  BY DEF Judge
<1>2. verdict' \in [PUs -> Verdict] /\ VerdictFits'
  BY JudgeFact DEF VerdictFits
<1>3. \A p \in PUs \ sent : verdict'[p] = NoVerdict
  BY JudgeFact
<1>4. RowsFit'
  BY <1>1 DEF RowsFit, RowFits
<1>5. Knows("idle", NoWork)'
  BY DEF Knows, Comparing, NoWork
<1>6. QED BY <1>1, <1>2, <1>3, <1>4, <1>5, NoWorkFact, SlotStep DEF Finish, Steps

-----------------------------------------------------------------------------
(* Scans that are read without a comparison.                               *)

LEMMA DoneStep ==
    ASSUME OneAtATime, IrevInv, NEW w \in Slots, NEW p \in PUs, ~at[w].cached, DoneWith(w, p),
           UNCHANGED <<outside, revision, verdict, cataloged>>, queue' \in Seq(GoodJob(sent)),
           snap' \in [PUs -> Snapshot], RowsFit'
    PROVE  IrevInv'
<1> USE DEF IrevInv, IrevTypeOK, TypeOK
<1>1. VerdictFits'
  BY DEF VerdictFits
<1>2. CASE at[w].left = {p}
  <2>1. Goto(w, "idle", NoWork)
    BY <1>2 DEF DoneWith, Finish
  <2>2. Knows("idle", NoWork)'
    BY DEF Knows, Comparing, NoWork
  <2>3. QED BY <1>1, <2>1, <2>2, NoWorkFact, SlotStep DEF Steps
<1>3. CASE at[w].left # {p}
  <2>1. PICK q \in LocalVars : q = [at[w] EXCEPT !.left = @ \ {p}]
    BY DEF LocalVars
  <2>2. Goto(w, "ocr", q)
    BY <1>3, <2>1 DEF DoneWith
  <2>3. q.job = at[w].job /\ ~q.cached
    BY <2>1 DEF LocalVars
  <2>4. Knows("ocr", q)'
    BY <2>3 DEF Knows, Comparing
  <2>5. QED BY <1>1, <2>2, <2>3, <2>4, SlotStep DEF Steps
<1>4. QED BY <1>2, <1>3

LEMMA LimitedScanInv ==
    ASSUME OneAtATime, IrevInv, NEW w \in Slots, NEW p \in PUs, LimitedScan(w, p) PROVE IrevInv'
<1> USE DEF IrevInv, IrevTypeOK, TypeOK
<1>1. ~at[w].cached
  BY DEF LimitedScan, Knows
<1>2. queue' \in Seq(GoodJob(sent))
  BY OneCall, CallsAreGood DEF LimitedScan
<1>3. RowsFit'
  BY DEF LimitedScan, RowsFit, RowFits
<1>4. QED BY <1>1, <1>2, <1>3, DoneStep DEF LimitedScan

LEMMA FindScanInv ==
    ASSUME OneAtATime, IrevInv, NEW w \in Slots, NEW p \in PUs, FindScan(w, p) PROVE IrevInv'
<1> USE DEF IrevInv, IrevTypeOK, TypeOK
<1>1. PICK q \in LocalVars : q = [at[w] EXCEPT !.pu = p, !.doc = snap[p].doc]
  BY DEF LocalVars, Snapshot
<1>2. /\ pc[w] = "ocr" /\ UNCHANGED <<outside, snap, revision, verdict, cataloged, queue>>
      /\ \/ DoneWith(w, p)
         \/ snap[p].doc # NoDoc /\ Goto(w, "ocrLive", q)
         \/ snap[p].doc # NoDoc /\ Goto(w, "ocrRead", q)
  BY <1>1 DEF FindScan
<1>3. ~at[w].cached
  BY <1>2 DEF Knows
<1>4. q.job = at[w].job /\ q.pu = p /\ q.doc = snap[p].doc /\ ~q.cached
  BY <1>1, <1>3 DEF LocalVars
<1>5. CASE DoneWith(w, p)
  <2>1. RowsFit'
    BY <1>2 DEF RowsFit, RowFits
  <2>2. QED BY <1>2, <1>3, <1>5, <2>1, DoneStep
<1>6. ASSUME NEW step \in {"ocrLive", "ocrRead"}, snap[p].doc # NoDoc, Goto(w, step, q)
      PROVE  IrevInv'
  <2>1. Knows(step, q)
    BY <1>4, <1>6 DEF Knows, Comparing
  <2>2. QED BY <1>2, <1>4, <1>6, <2>1, LookStep DEF Steps
<1>7. QED BY <1>2, <1>5, <1>6

LEMMA FindLiveScanInv ==
    ASSUME OneAtATime, IrevInv, NEW w \in Slots, NEW served \in BOOLEAN, FindLiveScan(w, served)
    PROVE  IrevInv'
<1> USE DEF IrevInv, IrevTypeOK, TypeOK
<1> DEFINE p == at[w].pu
<1> DEFINE fresh == [doc |-> portal[p], extract |-> NoExtract, status |-> "FETCHED"]
<1>1. p \in PUs /\ ~at[w].cached
  BY DEF FindLiveScan, Knows
<1>2. CASE served /\ portal[p] \in Eligible
  <2>1. PICK q \in LocalVars : q = [at[w] EXCEPT !.doc = portal[p]]
    BY <1>1 DEF LocalVars
  <2>2. /\ snap' = [snap EXCEPT ![p] = fresh] /\ Goto(w, "ocrRead", q)
        /\ UNCHANGED <<outside, revision, verdict, cataloged, queue>>
    BY <1>2, <2>1 DEF FindLiveScan
  <2>3. portal[p] \in Docs /\ portal[p] # NoDoc
    BY <1>2, Scans, NotAScan
  <2>4. fresh \in Snapshot /\ RowFits(fresh)
    BY <2>3 DEF Snapshot, RowFits
  <2> HIDE DEF fresh
  <2>5. snap' \in [PUs -> Snapshot] /\ RowsFit'
    BY <1>1, <2>2, <2>4 DEF RowsFit
  <2>6. q.job = at[w].job /\ q.pu = p /\ q.doc = portal[p] /\ ~q.cached
    BY <1>1, <2>1 DEF LocalVars
  <2>7. Knows("ocrRead", q)'
    BY <1>1, <2>3, <2>6 DEF Knows, Comparing
  <2>8. VerdictFits'
    BY <2>2 DEF VerdictFits
  <2>9. QED BY <2>2, <2>5, <2>6, <2>7, <2>8, SlotStep DEF Steps
<1>3. CASE ~(served /\ portal[p] \in Eligible)
  <2>1. DoneWith(w, p) /\ UNCHANGED <<outside, snap, revision, verdict, cataloged, queue>>
    BY <1>3 DEF FindLiveScan
  <2>2. RowsFit'
    BY <2>1 DEF RowsFit, RowFits
  <2>3. QED BY <1>1, <2>1, <2>2, DoneStep
<1>4. QED BY <1>2, <1>3

LEMMA StoreScanInv ==
    ASSUME OneAtATime, IrevInv, NEW w \in Slots, NEW served \in BOOLEAN, StoreScan(w, served)
    PROVE  IrevInv'
<1> USE DEF IrevInv, IrevTypeOK, TypeOK
<1> DEFINE x == Read(at[w].doc, served)
<1> DEFINE fresh == [doc |-> at[w].doc, extract |-> x, status |-> Outcome(x)]
<1>1. at[w].pu \in PUs /\ at[w].doc \in Docs /\ ~at[w].cached
  BY DEF StoreScan, Knows, LocalVars
<1>2. /\ snap' = [snap EXCEPT ![at[w].pu] = fresh] /\ DoneWith(w, at[w].pu)
      /\ UNCHANGED <<outside, revision, verdict, cataloged, queue>>
  BY DEF StoreScan
<1>3. fresh \in Snapshot /\ RowFits(fresh)
  BY <1>1, ReadType, ReadFits
<1> HIDE DEF x, fresh
<1>4. snap' \in [PUs -> Snapshot] /\ RowsFit'
  BY <1>1, <1>2, <1>3 DEF RowsFit
<1>5. QED BY <1>1, <1>2, <1>4, DoneStep

-----------------------------------------------------------------------------
LEMMA IrevStutter == ASSUME IrevInv, UNCHANGED vars PROVE IrevInv'
BY DEF vars, IrevInv, IrevTypeOK, TypeOK, RowsFit, RowFits, Knows, VerdictFits

LEMMA IrevNextInv == ASSUME OneAtATime, IrevInv, [Next]_vars PROVE IrevInv'
<1>1. ASSUME NEW w \in Slots, Work(w) PROVE IrevInv'
  BY <1>1, TakeInv, FetchInv, ReadRowsInv, CatalogRowInv, MarkCatalogedInv, ReadSnapshotInv,
     ReadScanInv, JudgeInv, FindScanInv, FindLiveScanInv, StoreScanInv DEF Work
<1>2. CASE Faults
  BY <1>2, LimitedInv, PortalFailsInv, ReadScanInv, LimitedScanInv, FindLiveScanInv, StoreScanInv,
     DieInv, LoseInv DEF Faults
<1>3. QED BY <1>1, <1>2, EnvironmentInv, TimersInv, IrevStutter DEF Next

LEMMA IrevInvariance == ASSUME OneAtATime PROVE Spec => []IrevInv
<1>1. IrevInv /\ [Next]_vars => IrevInv'
  BY IrevNextInv
<1>2. QED BY <1>1, IrevInitInv, PTL DEF Spec

\* Everything a worker of the official scans keeps is within its type, whatever the portal,
\* the agents, the operators and the timers ask for while one job runs.
THEOREM IrevTyped == ASSUME OneAtATime PROVE Spec => []TypeOK
<1>1. IrevInv => TypeOK
  BY DEF IrevInv, IrevTypeOK
<1>2. QED BY <1>1, IrevInvariance, PTL

\* With one job at a time (the channel's prefetch of one), a snapshot that is ready holds
\* what was read on the very scan it names (irev-fetch.worker, persistWardCatalog): no
\* reading survives the replacement or the withdrawal of its scan.
THEOREM IrevReadyIsRead == ASSUME OneAtATime PROVE Spec => []ReadyIsRead
<1>1. IrevInv => ReadyIsRead
  BY DEF IrevInv, RowsFit, RowFits, ReadyIsRead
<1>2. QED BY <1>1, IrevInvariance, PTL

\* With one job at a time a verdict that compares agrees exactly when the scan it names
\* shows the figures compared (compareAgentToIrev), whatever was published or submitted
\* between the fetch, the reading and the write.
THEOREM IrevVerdictFits == ASSUME OneAtATime PROVE Spec => []VerdictFits
<1>1. IrevInv => VerdictFits
  BY DEF IrevInv
<1>2. QED BY <1>1, IrevInvariance, PTL

LEMMA VerdictSteps ==
    ASSUME IrevInv, [Next]_vars,
           NEW p \in PUs, revision[p] # NoExtract, verdict'[p] # verdict[p]
    PROVE  verdict'[p].status \notin Compared
<1>1. \/ UNCHANGED verdict
      \/ \E w \in Slots : Judge(w)
      \/ \E w \in Slots : PortalFails(w)
  BY DEF Next, vars, Environment, Publish, Submit, Refresh, RefreshPending, Timers, CatalogTick,
         CatalogAges, BackfillTick, WaitTick, Work, Take, FetchWard, ReadRows, CatalogRow,
         MarkCataloged, ReadSnapshot, ReadScan, FindScan, FindLiveScan, StoreScan, Faults,
         Limited, LimitedScan, Die, Lose
<1>2. ASSUME NEW w \in Slots, Judge(w) PROVE verdict'[p].status \notin Compared
  BY <1>2, JudgeFact DEF IrevInv, IrevTypeOK, TypeOK
<1>3. ASSUME NEW w \in Slots, PortalFails(w) PROVE verdict'[p].status \notin Compared
  BY <1>3 DEF PortalFails, Pending, NoVerdict, Compared, IrevInv, IrevTypeOK, TypeOK
<1>4. QED BY <1>1, <1>2, <1>3

\* With one job at a time, once another scan of a unit was read and replaced no comparison
\* says again that agent and portal agree, so that somebody investigates (docs/IREV.md).
THEOREM IrevReplacedStaysOpen == ASSUME OneAtATime PROVE Spec => ReplacedStaysOpen
<1>1. IrevInv /\ [Next]_vars =>
        [\A p \in PUs :
           revision[p] # NoExtract /\ verdict'[p] # verdict[p] => verdict'[p].status \notin Compared]_vars
  BY VerdictSteps
<1>2. QED BY <1>1, IrevInvariance, PTL DEF Spec, ReplacedStaysOpen

(***************************************************************************)
(* Ec8a.                                                                   *)
(***************************************************************************)

Figured == Sheets \cup {Unwritten}
ReadOff == {Unreadable} \cup UNION {PhotoReads(DOMAIN f.parties) : f \in Figured}
ChipOf == [status : {"NONE", "PENDING", "MATCH", "MISMATCH", "UNREADABLE"},
           recommendation : {"NONE", "CHECK_PHOTO", "APPROVE", "RETURN"},
           engine : {"NONE", "ARITHMETIC", "OCR"}, of : Figured]
RowStatus == {"NOT_STARTED", "DRAFT", "REJECTED", "SUBMITTED", "APPROVED"}
Decided == {"SUBMITTED", "APPROVED"}
WorkSteps == {"idle", "read", "ask", "write", "done"}
JobState == [row : Rows \cup {"none"}, step : WorkSteps, figures : Figured, photo : BOOLEAN,
             read : ReadOff]

Ec8aTypeOK ==
    /\ row \in [Rows -> [figures : Figured, photo : BOOLEAN, status : RowStatus, chip : ChipOf]]
    /\ inbox \in Seq(Rows)
    /\ channel \in {"up", "down"}
    /\ work \in [Workers -> JobState]
    /\ fate \in [Rows -> SUBSET {"overlapped", "lost"}]

\* The sheets whose arithmetic fails are to be returned, whatever else the chip says.
Flagged(chip) == Broken(chip.of) # {} => chip.recommendation = "RETURN"

\* Who works on what: the consumer on the head of the queue, a helper only while there is no
\* channel, and alone on its row unless that is noted.
AtWork ==
    /\ \A w \in Workers : work[w].row = "none" => work[w] = Idle
    /\ work[Consumer] # Idle => inbox # <<>> /\ work[Consumer].row = Head(inbox)
    /\ \A w \in Helpers :
          /\ channel = "up" => work[w] = Idle
          /\ \A r \in Rows : work[w].row = r /\ fate[r] = {} =>
                Busy(r) = {w} /\ r \notin Range(inbox)

Settled(r) == row[r].chip.of = row[r].figures /\ row[r].chip.engine = "OCR"

\* A message nobody has begun with.
Untouched(r) == \E i \in DOMAIN inbox : inbox[i] = r /\ (i > 1 \/ work[Consumer] = Idle)

\* A job that will leave, or has left, a chip for the figures the row has.
Fresh(w, r) ==
    /\ work[w].row = r
    /\ \/ work[w].step = "read"
       \/ work[w].step \in {"ask", "write"} /\ work[w].figures = row[r].figures /\ work[w].photo
       \/ work[w].step = "done" /\ Settled(r)

Attended(r) == Untouched(r) \/ (\E w \in Workers : Fresh(w, r)) \/ (~Underway(r) /\ Settled(r))

Ec8aInv ==
    /\ Ec8aTypeOK
    /\ AtWork
    /\ \A r \in Rows :
          /\ Flagged(row[r].chip)
          /\ row[r].status \in Decided => row[r].photo
          /\ row[r].status \in Decided /\ fate[r] = {} => Attended(r)

-----------------------------------------------------------------------------
(* The chips.                                                              *)

\* A sheet with nothing on it breaks no identity.
LEMMA EmptySheet == ASSUME NEW f, ~HasAnyFigures(f) PROVE Broken(f) = {}
<1>1. \A box \in Boxes : ~Filled(f[box])
  BY DEF HasAnyFigures
<1>2. ~Filled(PartySum(f.parties))
  BY DEF HasAnyFigures
<1>3. /\ ~Filled(f.accredited) /\ ~Filled(f.registered) /\ ~Filled(f.used) /\ ~Filled(f.issued)
  BY <1>1 DEF Boxes
<1>4. QED BY <1>2, <1>3 DEF Broken, Differ

LEMMA ArithmeticChip ==
    ASSUME NEW f \in Figured
    PROVE  /\ Arithmetic(f) \in ChipOf /\ Flagged(Arithmetic(f)) /\ Arithmetic(f).of = f
           /\ (Arithmetic(f).recommendation = "RETURN") = (Broken(f) # {})
<1>1. CASE ~HasAnyFigures(f)
  BY <1>1, EmptySheet DEF Arithmetic, Chip, ChipOf, Flagged
<1>2. CASE HasAnyFigures(f) /\ Broken(f) = {}
  BY <1>2 DEF Arithmetic, Chip, ChipOf, Flagged
<1>3. CASE HasAnyFigures(f) /\ Broken(f) # {}
  BY <1>3 DEF Arithmetic, Chip, ChipOf, Flagged
<1>4. QED BY <1>1, <1>2, <1>3

LEMMA AwaitingChip ==
    ASSUME NEW f \in Figured
    PROVE  AwaitingOcr(f, TRUE) \in ChipOf /\ Flagged(AwaitingOcr(f, TRUE))
<1>1. CASE Arithmetic(f).recommendation = "RETURN"
  BY <1>1, ArithmeticChip DEF AwaitingOcr
<1>2. CASE Arithmetic(f).recommendation # "RETURN"
  BY <1>2, ArithmeticChip DEF AwaitingOcr, Chip, ChipOf, Flagged
<1>3. QED BY <1>1, <1>2

LEMMA MergedChip ==
    ASSUME NEW f \in Figured, NEW read
    PROVE  /\ Merge(f, read) \in ChipOf /\ Flagged(Merge(f, read))
           /\ Merge(f, read).of = f /\ Merge(f, read).engine = "OCR"
<1>1. CASE Broken(f) # {}
  BY <1>1, ArithmeticChip DEF Merge, Chip, ChipOf, Flagged
<1>2. CASE Broken(f) = {}
  BY <1>2, ArithmeticChip DEF Merge, Chip, ChipOf, Flagged
<1>3. QED BY <1>1, <1>2

LEMMA BlankChip == NoChip \in ChipOf /\ Flagged(NoChip)
<1>1. Unwritten.parties = <<>> /\ \A box \in Boxes : Unwritten[box] = Empty
  BY DEF Unwritten, Boxes
<1>2. ~HasAnyFigures(Unwritten)
  <2>1. DOMAIN Unwritten.parties = {}
    BY <1>1
  <2>2. QED BY <1>1, <2>1 DEF HasAnyFigures, PartySum, Filled
<1>3. Broken(Unwritten) = {}
  BY <1>2, EmptySheet
<1>4. QED BY <1>3 DEF NoChip, Chip, ChipOf, Flagged, Figured

LEMMA IdleJob ==
    Idle \in JobState /\ Idle.row = "none" /\ Idle.step = "idle" /\ ~Idle.photo
<1>1. PICK f \in Figured : f = Unwritten
  BY DEF Figured
<1>2. PICK x \in ReadOff : x = Unreadable
  <2> DEFINE Parsed == UNION {PhotoReads(DOMAIN g.parties) : g \in Figured}
  <2>1. Unreadable \in ReadOff
    <3>1. ReadOff = {Unreadable} \cup Parsed
      BY DEF ReadOff
    <3> HIDE DEF Parsed
    <3>2. QED BY <3>1
  <2>2. QED BY <2>1
<1>3. Idle = [row |-> "none", step |-> "idle", figures |-> f, photo |-> FALSE, read |-> x]
  BY <1>1, <1>2 DEF Idle
<1>4. QED BY <1>3 DEF JobState, WorkSteps

LEMMA Ec8aInitInv == Ec8aInit => Ec8aInv
<1> SUFFICES ASSUME Ec8aInit PROVE Ec8aInv
  OBVIOUS
<1> USE DEF Ec8aInit
<1>2. NewRow \in [figures : Figured, photo : BOOLEAN, status : RowStatus, chip : ChipOf]
  BY BlankChip DEF NewRow, Figured, RowStatus
<1>3. Ec8aTypeOK
  BY IdleJob, <1>2 DEF Ec8aTypeOK
<1>4. AtWork
  BY HelpersAndRows DEF AtWork, Workers, Idle
<1>5. \A r \in Rows : Flagged(row[r].chip) /\ row[r].status \notin Decided
  BY BlankChip DEF NewRow, Decided
<1>6. QED BY <1>3, <1>4, <1>5 DEF Ec8aInv

-----------------------------------------------------------------------------
(* Agents and officers.                                                    *)

\* A step that changes one row only, and not what a submitted sheet or its chip say.
LEMMA RowStep ==
    ASSUME Ec8aInv, NEW r \in Rows,
           NEW new \in [figures : Figured, photo : BOOLEAN, status : RowStatus, chip : ChipOf],
           row' = [row EXCEPT ![r] = new], UNCHANGED <<inbox, channel, work, fate>>,
           Flagged(new.chip),
           new.status \in Decided =>
               /\ row[r].status \in Decided
               /\ new.photo = row[r].photo /\ new.figures = row[r].figures
               /\ new.chip = row[r].chip
    PROVE  Ec8aInv'
<1> USE DEF Ec8aInv
<1>1. Ec8aTypeOK'
  BY DEF Ec8aTypeOK
<1>2. AtWork'
  BY DEF AtWork, Busy
<1>3. ASSUME NEW o \in Rows, o # r
      PROVE  row'[o] = row[o] /\ (Attended(o) => Attended(o)')
  <2>1. row'[o] = row[o]
    BY <1>3 DEF Ec8aTypeOK
  <2>2. QED BY <2>1 DEF Attended, Untouched, Fresh, Settled, Underway, Busy
<1>4. row'[r] = new
  BY DEF Ec8aTypeOK
<1>5. new.status \in Decided /\ Attended(r) => Attended(r)'
  BY <1>4 DEF Attended, Untouched, Fresh, Settled, Underway, Busy
<1>6. QED BY <1>1, <1>2, <1>3, <1>4, <1>5

LEMMA SaveInv ==
    ASSUME Ec8aInv, NEW r \in Rows, NEW f \in Sheets, NEW photo \in BOOLEAN, Save(r, f, photo)
    PROVE  Ec8aInv'
<1> DEFINE new == [figures |-> f, photo |-> photo, status |-> "DRAFT", chip |-> Arithmetic(f)]
<1>1. f \in Figured
  BY DEF Figured
<1>2. /\ new \in [figures : Figured, photo : BOOLEAN, status : RowStatus, chip : ChipOf]
      /\ Flagged(new.chip) /\ new.status \notin Decided
  BY <1>1, ArithmeticChip DEF RowStatus, Decided
<1>3. row' = [row EXCEPT ![r] = new] /\ UNCHANGED <<inbox, channel, work, fate>>
  BY DEF Save
<1> HIDE DEF new
<1>4. QED BY <1>2, <1>3, RowStep

LEMMA AttachInv == ASSUME Ec8aInv, NEW r \in Rows, Attach(r) PROVE Ec8aInv'
<1> DEFINE new == [row[r] EXCEPT !.photo = TRUE, !.chip = Arithmetic(row[r].figures)]
<1>1. row[r].figures \in Figured /\ row[r].status \in {"DRAFT", "REJECTED"}
  BY DEF Ec8aInv, Ec8aTypeOK, Attach
<1>2. /\ new \in [figures : Figured, photo : BOOLEAN, status : RowStatus, chip : ChipOf]
      /\ Flagged(new.chip) /\ new.status \notin Decided
  <2>1. PICK chip \in ChipOf : chip = Arithmetic(row[r].figures) /\ Flagged(chip)
    BY <1>1, ArithmeticChip
  <2>2. new = [row[r] EXCEPT !.photo = TRUE, !.chip = chip]
    BY <2>1
  <2> HIDE DEF new
  <2>3. QED BY <1>1, <2>1, <2>2 DEF Ec8aInv, Ec8aTypeOK, Decided
<1>3. row' = [row EXCEPT ![r] = new] /\ UNCHANGED <<inbox, channel, work, fate>>
  BY DEF Attach, Ec8aInv, Ec8aTypeOK
<1> HIDE DEF new
<1>4. QED BY <1>2, <1>3, RowStep

LEMMA DecideRowInv ==
    ASSUME Ec8aInv, NEW r \in Rows, NEW to \in {"APPROVED", "REJECTED"}, DecideRow(r, to)
    PROVE  Ec8aInv'
<1> DEFINE new == [row[r] EXCEPT !.status = to]
<1>1. /\ new \in [figures : Figured, photo : BOOLEAN, status : RowStatus, chip : ChipOf]
      /\ Flagged(new.chip) /\ row[r].status \in Decided
      /\ new.photo = row[r].photo /\ new.figures = row[r].figures /\ new.chip = row[r].chip
  BY DEF Ec8aInv, Ec8aTypeOK, DecideRow, RowStatus, Decided
<1>2. row' = [row EXCEPT ![r] = new] /\ UNCHANGED <<inbox, channel, work, fate>>
  BY DEF DecideRow, Ec8aInv, Ec8aTypeOK
<1> HIDE DEF new
<1>3. QED BY <1>1, <1>2, RowStep

LEMMA SubmitRowInv == ASSUME Ec8aInv, NEW r \in Rows, SubmitRow(r) PROVE Ec8aInv'
<1> USE DEF Ec8aInv
<1> DEFINE new == [row[r] EXCEPT !.status = "SUBMITTED", !.chip = AwaitingOcr(row[r].figures, TRUE)]
<1>1. row[r].figures \in Figured /\ row[r].photo
  BY DEF Ec8aTypeOK, SubmitRow
<1>2. /\ new \in [figures : Figured, photo : BOOLEAN, status : RowStatus, chip : ChipOf]
      /\ Flagged(new.chip) /\ new.photo
  BY <1>1, AwaitingChip DEF Ec8aTypeOK, RowStatus
<1>3. row' = [row EXCEPT ![r] = new] /\ UNCHANGED channel
  BY DEF SubmitRow, Ec8aTypeOK
<1> HIDE DEF new
<1>4. row'[r] = new /\ \A o \in Rows \ {r} : row'[o] = row[o]
  BY <1>3 DEF Ec8aTypeOK
<1>5. CASE channel = "up"
  <2>1. inbox' = Append(inbox, r) /\ UNCHANGED <<work, fate>>
    BY <1>5 DEF SubmitRow, PublishJob
  <2>2. Ec8aTypeOK'
    BY <1>2, <1>3, <2>1 DEF Ec8aTypeOK
  <2>3. /\ \A i \in DOMAIN inbox : i \in DOMAIN inbox' /\ inbox'[i] = inbox[i]
        /\ Len(inbox) + 1 \in DOMAIN inbox' /\ inbox'[Len(inbox) + 1] = r
        /\ Range(inbox') = Range(inbox) \cup {r}
        /\ inbox # <<>> => inbox' # <<>> /\ Head(inbox') = Head(inbox)
    <3>1. inbox \in Seq(Rows)
      BY DEF Ec8aTypeOK
    <3>2. /\ DOMAIN inbox = 1 .. Len(inbox) /\ DOMAIN inbox' = 1 .. Len(inbox) + 1
          /\ Len(inbox) \in Nat /\ inbox'[Len(inbox) + 1] = r
          /\ \A i \in 1 .. Len(inbox) : inbox'[i] = inbox[i]
      BY <2>1, <3>1, AppendProperties
    <3>3. inbox # <<>> => inbox' # <<>> /\ Head(inbox') = Head(inbox)
      BY <2>1, <3>1, AppendProperties
    <3>4. Range(inbox') = Range(inbox) \cup {r}
      <4>1. \A o : o \in Range(inbox') <=> \E i \in 1 .. Len(inbox) + 1 : inbox'[i] = o
        BY <3>2 DEF Range
      <4>2. \A o : o \in Range(inbox) <=> \E i \in 1 .. Len(inbox) : inbox[i] = o
        BY <3>2 DEF Range
      <4>3. \A i : i \in 1 .. Len(inbox) + 1 <=> i \in 1 .. Len(inbox) \/ i = Len(inbox) + 1
        BY <3>2
      <4>4. QED BY <3>2, <4>1, <4>2, <4>3
    <3>5. QED BY <3>2, <3>3, <3>4
  <2>4. AtWork'
    <3>1. \A w \in Helpers : work'[w] = Idle
      BY <1>5, <2>1 DEF AtWork
    <3>2. \A w \in Helpers, o \in Rows : work'[w].row # o
      BY <3>1, HelpersAndRows DEF Idle
    <3>3. /\ \A w \in Workers : work'[w].row = "none" => work'[w] = Idle
          /\ work'[Consumer] # Idle => inbox' # <<>> /\ work'[Consumer].row = Head(inbox')
      BY <2>1, <2>3 DEF AtWork
    <3>4. QED BY <3>1, <3>2, <3>3 DEF AtWork
  <2>5. Attended(r)'
    <3>1. Len(inbox) + 1 > 1 \/ work[Consumer] = Idle
      BY DEF AtWork, Ec8aTypeOK
    <3>2. Untouched(r)'
      BY <2>1, <2>3, <3>1 DEF Untouched
    <3>3. QED BY <3>2 DEF Attended
  <2>6. \A o \in Rows \ {r} : Attended(o) => Attended(o)'
    BY <1>4, <2>1, <2>3 DEF Attended, Untouched, Fresh, Settled, Underway, Busy
  <2>7. QED BY <1>2, <1>4, <2>1, <2>2, <2>4, <2>5, <2>6
<1>6. CASE channel # "up"
  <2>1. PICK w \in Helpers :
            work[w] = Idle /\ work' = [work EXCEPT ![w].row = r, ![w].step = "read"]
    BY <1>6 DEF SubmitRow, PublishJob
  <2>2. /\ fate' = [fate EXCEPT ![r] =
               IF Busy(r) # {} \/ r \in Range(inbox) THEN @ \cup {"overlapped"} ELSE @]
        /\ UNCHANGED inbox
    BY <1>6 DEF SubmitRow, PublishJob
  <2>3. w \in Workers /\ w # Consumer
    BY HelpersAndRows DEF Workers
  <2>4. /\ work'[w].row = r /\ work'[w].step = "read"
        /\ \A v \in Workers \ {w} : work'[v] = work[v]
    BY <2>1, <2>3 DEF Ec8aTypeOK
  <2>5. Ec8aTypeOK'
    <3>1. work' \in [Workers -> JobState]
      <4>1. PICK j \in JobState : j = [work[w] EXCEPT !.row = r, !.step = "read"]
        BY <2>3 DEF Ec8aTypeOK, JobState, WorkSteps
      <4>2. work' = [work EXCEPT ![w] = j]
        BY <2>1, <2>3, <4>1 DEF Ec8aTypeOK
      <4>3. QED BY <4>2 DEF Ec8aTypeOK
    <3>2. fate' \in [Rows -> SUBSET {"overlapped", "lost"}]
      BY <2>2 DEF Ec8aTypeOK
    <3>3. QED BY <1>2, <1>3, <2>2, <3>1, <3>2 DEF Ec8aTypeOK
  <2>6. fate'[r] = {} => Busy(r) = {} /\ r \notin Range(inbox) /\ fate[r] = {}
    BY <2>2 DEF Ec8aTypeOK
  <2>7. \A o \in Rows \ {r} : fate'[o] = fate[o] /\ Busy(o)' = Busy(o)
    <3>1. \A o \in Rows \ {r} : fate'[o] = fate[o]
      BY <2>2 DEF Ec8aTypeOK
    <3>2. work[w].row = "none"
      BY <2>1 DEF Idle
    <3>3. QED BY <2>3, <2>4, <3>1, <3>2, HelpersAndRows DEF Busy
  <2>8. Busy(r)' = Busy(r) \cup {w}
    BY <2>3, <2>4 DEF Busy
  <2>9. AtWork'
    <3>1. \A v \in Workers : work'[v].row = "none" => work'[v] = Idle
      BY <2>4, HelpersAndRows DEF AtWork
    <3>2. work'[Consumer] # Idle => inbox' # <<>> /\ work'[Consumer].row = Head(inbox')
      BY <2>2, <2>3, <2>4 DEF AtWork, Workers
    <3>3. ASSUME NEW v \in Helpers, NEW o \in Rows, work'[v].row = o, fate'[o] = {}
          PROVE  Busy(o)' = {v} /\ o \notin Range(inbox')
      <4>1. CASE o = r
        <5>1. Busy(r) = {} /\ r \notin Range(inbox)
          BY <2>6, <3>3, <4>1
        <5>2. v = w
          BY <2>3, <2>4, <3>3, <4>1, <5>1 DEF Busy, Workers
        <5>3. QED BY <2>2, <2>8, <4>1, <5>1, <5>2
      <4>2. CASE o # r
        <5>1. v # w
          BY <2>4, <3>3, <4>2
        <5>2. work[v].row = o /\ fate[o] = {}
          BY <2>4, <2>7, <3>3, <4>2, <5>1 DEF Workers
        <5>3. QED BY <2>2, <2>7, <4>2, <5>2 DEF AtWork
      <4>3. QED BY <4>1, <4>2
    <3>4. channel' # "up"
      BY <1>3, <1>6
    <3>5. QED BY <3>1, <3>2, <3>3, <3>4 DEF AtWork
  <2>10. Attended(r)'
    BY <2>3, <2>4 DEF Attended, Fresh
  <2>11. ASSUME NEW o \in Rows \ {r}, Attended(o) PROVE Attended(o)'
    <3>1. CASE Untouched(o)
      BY <2>2, <2>3, <2>4, <3>1 DEF Attended, Untouched, Workers
    <3>2. CASE \E v \in Workers : Fresh(v, o)
      <4>1. PICK v \in Workers : Fresh(v, o)
        BY <3>2
      <4>2. v # w
        BY <2>1, <4>1, HelpersAndRows DEF Fresh, Idle
      <4>3. Fresh(v, o)'
        BY <1>4, <2>4, <4>1, <4>2 DEF Fresh, Settled
      <4>4. QED BY <4>3 DEF Attended
    <3>3. CASE ~Underway(o) /\ Settled(o)
      BY <1>4, <2>2, <2>7, <3>3 DEF Attended, Underway, Settled
    <3>4. QED BY <2>11, <3>1, <3>2, <3>3 DEF Attended
  <2>12. QED BY <1>2, <1>4, <2>5, <2>7, <2>9, <2>10, <2>11
<1>7. QED BY <1>5, <1>6

-----------------------------------------------------------------------------
(* Jobs.                                                                   *)

\* A step of a job that keeps its row, and leaves figures, photos and status alone.
LEMMA JobStep ==
    ASSUME Ec8aInv, NEW w \in Workers, NEW new \in JobState, work[w] # Idle,
           new.row = work[w].row, new # Idle, work' = [work EXCEPT ![w] = new],
           UNCHANGED <<inbox, channel>>, NEW o \in Rows, fate'[o] = {} => fate[o] = {}
    PROVE  /\ work' \in [Workers -> JobState] /\ work'[w] = new
           /\ \A v \in Workers \ {w} : work'[v] = work[v]
           /\ work[w].row \in Rows
           /\ Busy(o)' = Busy(o) /\ (Underway(o)' <=> Underway(o))
           /\ Untouched(o) => Untouched(o)'
           /\ \A v \in Workers : work'[v].row = "none" => work'[v] = Idle
           /\ work'[Consumer] # Idle => inbox' # <<>> /\ work'[Consumer].row = Head(inbox')
           /\ \A v \in Helpers : channel' = "up" => work'[v] = Idle
           /\ \A v \in Helpers : work'[v].row = o /\ fate'[o] = {} =>
                 Busy(o)' = {v} /\ o \notin Range(inbox')
<1> USE DEF Ec8aInv, Ec8aTypeOK
<1>1. work' \in [Workers -> JobState] /\ work'[w] = new /\ \A v \in Workers \ {w} : work'[v] = work[v]
  OBVIOUS
<1>2. work[w].row \in Rows
  BY DEF AtWork, JobState
<1>3. \A v \in Workers : work'[v].row = work[v].row
  BY <1>1
<1>4. Busy(o)' = Busy(o)
  BY <1>3 DEF Busy
<1>5. Underway(o)' <=> Underway(o)
  BY <1>4 DEF Underway
<1>6. work'[Consumer] = Idle <=> work[Consumer] = Idle
  BY <1>1 DEF Workers
<1>7. Untouched(o) => Untouched(o)'
  BY <1>6 DEF Untouched
<1>8. \A v \in Workers : work'[v] = Idle <=> work[v] = Idle
  BY <1>1
<1>9. \A v \in Workers : work'[v].row = "none" => work'[v] = Idle
  BY <1>3, <1>8 DEF AtWork
<1>10. work'[Consumer] # Idle => inbox' # <<>> /\ work'[Consumer].row = Head(inbox')
  BY <1>3, <1>6 DEF AtWork, Workers
<1>11. \A v \in Helpers : channel' = "up" => work'[v] = Idle
  BY <1>8 DEF AtWork, Workers
<1>12. \A v \in Helpers : work'[v].row = o /\ fate'[o] = {} =>
                 Busy(o)' = {v} /\ o \notin Range(inbox')
  <2>1. SUFFICES ASSUME NEW v \in Helpers, work[v].row = o, fate[o] = {}
                 PROVE  Busy(o)' = {v} /\ o \notin Range(inbox')
    BY <1>3 DEF Workers
  <2>2. Busy(o) = {v} /\ o \notin Range(inbox)
    BY <2>1 DEF AtWork
  <2>3. Range(inbox') = Range(inbox)
    OBVIOUS
  <2>4. QED BY <1>4, <2>2, <2>3
<1>13. QED BY <1>1, <1>2, <1>4, <1>5, <1>7, <1>9, <1>10, <1>11, <1>12

\* The same for every row, when the rows' own state and what became of jobs stay.
LEMMA JobGoesOn ==
    ASSUME Ec8aInv, NEW w \in Workers, NEW new \in JobState, work[w] # Idle,
           new.row = work[w].row, new # Idle, work' = [work EXCEPT ![w] = new],
           UNCHANGED <<row, inbox, channel, fate>>,
           \A o \in Rows : row[o].photo /\ Fresh(w, o) => Fresh(w, o)'
    PROVE  Ec8aInv'
<1> USE DEF Ec8aInv
<1>1. \A o \in Rows :
        /\ Untouched(o) => Untouched(o)'
        /\ Underway(o)' <=> Underway(o)
        /\ Busy(o)' = Busy(o)
        /\ \A v \in Helpers : work'[v].row = o /\ fate'[o] = {} =>
                 Busy(o)' = {v} /\ o \notin Range(inbox')
  BY JobStep
<1>2. /\ \A v \in Workers : work'[v].row = "none" => work'[v] = Idle
      /\ work'[Consumer] # Idle => inbox' # <<>> /\ work'[Consumer].row = Head(inbox')
      /\ \A v \in Helpers : channel' = "up" => work'[v] = Idle
      /\ work' \in [Workers -> JobState] /\ \A v \in Workers \ {w} : work'[v] = work[v]
  <2>1. work[w].row \in Rows
    BY DEF AtWork, Ec8aTypeOK, JobState
  <2>2. QED BY <2>1, JobStep
<1>3. Ec8aTypeOK'
  BY <1>2 DEF Ec8aTypeOK
<1>4. AtWork'
  BY <1>1, <1>2 DEF AtWork
<1>5. ASSUME NEW o \in Rows, row[o].photo, Attended(o) PROVE Attended(o)'
  <2>1. CASE Untouched(o)
    BY <1>1, <2>1 DEF Attended
  <2>2. CASE \E v \in Workers : Fresh(v, o)
    <3>1. PICK v \in Workers : Fresh(v, o)
      BY <2>2
    <3>2. Fresh(v, o)'
      <4>1. CASE v = w
        BY <1>5, <3>1, <4>1
      <4>2. CASE v # w
        BY <1>2, <3>1, <4>2 DEF Fresh, Settled
      <4>3. QED BY <4>1, <4>2
    <3>3. QED BY <3>2 DEF Attended
  <2>3. CASE ~Underway(o) /\ Settled(o)
    BY <1>1, <2>3 DEF Attended, Settled
  <2>4. QED BY <1>5, <2>1, <2>2, <2>3 DEF Attended
<1>6. QED BY <1>3, <1>4, <1>5

LEMMA ReadRowInv == ASSUME Ec8aInv, NEW w \in Workers, ReadRow(w) PROVE Ec8aInv'
<1> USE DEF Ec8aInv
<1>1. /\ work[w].step = "read" /\ work[w] \in JobState /\ work[w] # Idle /\ work[w].row \in Rows
      /\ UNCHANGED <<row, inbox, channel, fate>>
  BY IdleJob DEF ReadRow, AtWork, Ec8aTypeOK, JobState
<1> DEFINE now == row[work[w].row]
<1> DEFINE to == IF now.photo THEN "ask" ELSE "write"
<1>2. now.figures \in Figured /\ now.photo \in BOOLEAN /\ to \in WorkSteps /\ to # "idle"
  BY <1>1 DEF Ec8aTypeOK, WorkSteps
<1>3. PICK f \in Figured : f = now.figures
  BY <1>2
<1>4. PICK p \in BOOLEAN : p = now.photo
  BY <1>2, Zenon
<1>5. PICK new \in JobState : new = [work[w] EXCEPT !.figures = f, !.photo = p, !.step = to]
  BY <1>1, <1>2 DEF JobState
<1>6. /\ new.row = work[w].row /\ new.figures = f /\ new.step = to
      /\ new.photo = p
  BY <1>1, <1>5 DEF JobState
<1>7. work' = [work EXCEPT ![w] = new]
  BY <1>3, <1>4, <1>5 DEF ReadRow, Ec8aTypeOK
<1>8. new # Idle
  BY <1>2, <1>6, IdleJob
<1>9. \A o \in Rows : row[o].photo /\ Fresh(w, o) => Fresh(w, o)'
  <2>1. work'[w] = new
    BY <1>7 DEF Ec8aTypeOK
  <2>2. SUFFICES ASSUME NEW o \in Rows, row[o].photo, work[w].row = o
                 PROVE  Fresh(w, o)'
    BY DEF Fresh
  <2>3. to = "ask" /\ f = row[o].figures
    BY <1>3, <2>2
  <2>4. p
    BY <1>4, <2>2, Zenon
  <2>5. QED BY <1>1, <1>6, <2>1, <2>2, <2>3, <2>4 DEF Fresh
<1>10. QED BY <1>1, <1>6, <1>7, <1>8, <1>9, JobGoesOn

LEMMA AskInv == ASSUME Ec8aInv, NEW w \in Workers, Ask(w) PROVE Ec8aInv'
<1> USE DEF Ec8aInv
<1>1. /\ work[w].step = "ask" /\ work[w] \in JobState /\ work[w] # Idle
      /\ UNCHANGED <<row, inbox, channel, fate>>
  BY IdleJob DEF Ask, Ec8aTypeOK
<1>2. PICK x \in PhotoReads(DOMAIN work[w].figures.parties) :
          work' = [work EXCEPT ![w].read = x, ![w].step = "write"]
  BY DEF Ask
<1>3. x \in ReadOff
  BY <1>1, <1>2 DEF ReadOff, JobState
<1>4. PICK new \in JobState : new = [work[w] EXCEPT !.read = x, !.step = "write"]
  BY <1>1, <1>3 DEF JobState, WorkSteps
<1>5. /\ new.row = work[w].row /\ new.figures = work[w].figures /\ new.step = "write"
      /\ new.photo = work[w].photo
  BY <1>1, <1>4 DEF JobState
<1>6. work' = [work EXCEPT ![w] = new]
  BY <1>2, <1>4 DEF Ec8aTypeOK
<1>7. new # Idle
  BY <1>5, IdleJob
<1>8. \A o \in Rows : Fresh(w, o) => Fresh(w, o)'
  <2>1. work'[w] = new
    BY <1>6 DEF Ec8aTypeOK
  <2>2. QED BY <1>1, <1>5, <2>1 DEF Fresh
<1>9. QED BY <1>1, <1>5, <1>6, <1>7, <1>8, JobGoesOn

LEMMA StoreInv == ASSUME Ec8aInv, NEW w \in Workers, Store(w) PROVE Ec8aInv'
<1> USE DEF Ec8aInv
<1>1. /\ work[w].step = "write" /\ work[w] \in JobState /\ work[w] # Idle /\ work[w].row \in Rows
      /\ UNCHANGED <<inbox, channel, fate>>
  BY IdleJob DEF Store, AtWork, Ec8aTypeOK, JobState
<1>2. PICK r \in Rows : r = work[w].row
  BY <1>1
<1>3. PICK new \in JobState : new = [Idle EXCEPT !.row = r, !.step = "done"]
  BY IdleJob DEF JobState, WorkSteps
<1>4. new.row = r /\ new.step = "done"
  BY <1>3, IdleJob DEF JobState
<1>5. work' = [work EXCEPT ![w] = new] /\ new # Idle
  BY <1>2, <1>3, <1>4, IdleJob DEF Store
<1> DEFINE chip == IF work[w].photo THEN Merge(work[w].figures, work[w].read)
                   ELSE Arithmetic(work[w].figures)
<1>6. chip \in ChipOf /\ Flagged(chip)
  <2>1. work[w].figures \in Figured
    BY <1>1 DEF JobState
  <2>2. QED BY <2>1, MergedChip, ArithmeticChip
<1>7. work[w].photo => chip.of = work[w].figures /\ chip.engine = "OCR"
  <2>1. work[w].figures \in Figured
    BY <1>1 DEF JobState
  <2>2. QED BY <2>1, MergedChip
<1>8. PICK c \in ChipOf : c = chip
  BY <1>6
<1>9. row' = [row EXCEPT ![r].chip = c]
  BY <1>2, <1>8 DEF Store
<1> HIDE DEF chip
<1>10. /\ row' \in [Rows -> [figures : Figured, photo : BOOLEAN, status : RowStatus, chip : ChipOf]]
       /\ row'[r].chip = c
       /\ \A o \in Rows : /\ row'[o].figures = row[o].figures /\ row'[o].photo = row[o].photo
                          /\ row'[o].status = row[o].status
                          /\ o # r => row'[o] = row[o]
  BY <1>9 DEF Ec8aTypeOK
<1>11. \A o \in Rows :
        /\ Untouched(o) => Untouched(o)'
        /\ Underway(o)' <=> Underway(o)
        /\ \A v \in Helpers : work'[v].row = o /\ fate'[o] = {} =>
                 Busy(o)' = {v} /\ o \notin Range(inbox')
  BY <1>1, <1>2, <1>4, <1>5, JobStep
<1>12. /\ \A v \in Workers : work'[v].row = "none" => work'[v] = Idle
       /\ work'[Consumer] # Idle => inbox' # <<>> /\ work'[Consumer].row = Head(inbox')
       /\ \A v \in Helpers : channel' = "up" => work'[v] = Idle
       /\ work' \in [Workers -> JobState] /\ \A v \in Workers \ {w} : work'[v] = work[v]
       /\ work'[w] = new
  BY <1>1, <1>2, <1>4, <1>5, JobStep
<1>13. Ec8aTypeOK'
  BY <1>1, <1>10, <1>12 DEF Ec8aTypeOK
<1>14. AtWork'
  BY <1>11, <1>12 DEF AtWork
<1>15. ASSUME NEW o \in Rows, row[o].photo, fate[o] = {}, Attended(o) PROVE Attended(o)'
  <2>1. CASE Untouched(o)
    BY <1>11, <2>1 DEF Attended
  <2>2. CASE Fresh(w, o)
    <3>1. o = r /\ work[w].figures = row[o].figures /\ work[w].photo
      BY <1>1, <1>2, <2>2 DEF Fresh
    <3>2. Settled(o)'
      BY <1>7, <1>8, <1>10, <3>1 DEF Settled
    <3>3. Fresh(w, o)'
      BY <1>4, <1>12, <3>1, <3>2 DEF Fresh
    <3>4. QED BY <3>3 DEF Attended
  <2>3. ASSUME NEW v \in Workers \ {w}, Fresh(v, o) PROVE Attended(o)'
    <3>1. o # r
      <4>1. SUFFICES ASSUME o = r PROVE FALSE
        OBVIOUS
      <4>2. v \in Busy(o) /\ w \in Busy(o)
        BY <1>2, <2>3, <4>1 DEF Fresh, Busy
      <4>3. v \in Helpers \/ w \in Helpers
        BY <2>3 DEF Workers
      <4>4. work[v].row = o /\ work[w].row = o
        BY <1>2, <2>3, <4>1 DEF Fresh
      <4>5. Busy(o) = {v} \/ Busy(o) = {w}
        BY <1>15, <4>3, <4>4 DEF AtWork
      <4>6. QED BY <2>3, <4>2, <4>5
    <3>2. Fresh(v, o)'
      BY <1>10, <1>12, <2>3, <3>1 DEF Fresh, Settled
    <3>3. QED BY <3>2 DEF Attended
  <2>4. CASE ~Underway(o) /\ Settled(o)
    <3>1. o # r
      BY <1>2, <2>4 DEF Underway, Busy
    <3>2. QED BY <1>10, <1>11, <2>4, <3>1 DEF Attended, Settled
  <2>5. QED BY <1>15, <2>1, <2>2, <2>3, <2>4 DEF Attended
<1>16. QED BY <1>1, <1>6, <1>8, <1>10, <1>13, <1>14, <1>15

\* The rest of a queue.
LEMMA TailFact ==
    ASSUME Ec8aInv, inbox # <<>>
    PROVE  /\ Tail(inbox) \in Seq(Rows) /\ Head(inbox) \in Rows
           /\ 1 \in DOMAIN inbox /\ inbox[1] = Head(inbox)
           /\ \A i \in DOMAIN inbox : i > 1 =>
                 i - 1 \in DOMAIN Tail(inbox) /\ Tail(inbox)[i - 1] = inbox[i]
           /\ Range(Tail(inbox)) \subseteq Range(inbox)
           /\ \A o \in Range(Tail(inbox)) : \E i \in DOMAIN Tail(inbox) : Tail(inbox)[i] = o
<1>1. inbox \in Seq(Rows)
  BY DEF Ec8aInv, Ec8aTypeOK
<1>2. /\ Tail(inbox) \in Seq(Rows) /\ Len(Tail(inbox)) = Len(inbox) - 1
      /\ \A i \in 1 .. Len(Tail(inbox)) : Tail(inbox)[i] = inbox[i + 1]
      /\ Head(inbox) = inbox[1] /\ Len(inbox) \in Nat \ {0} /\ Head(inbox) \in Rows
      /\ DOMAIN inbox = 1 .. Len(inbox) /\ DOMAIN Tail(inbox) = 1 .. Len(inbox) - 1
  BY <1>1, HeadTailProperties
<1>3. \A i \in DOMAIN inbox : i > 1 =>
        i - 1 \in DOMAIN Tail(inbox) /\ Tail(inbox)[i - 1] = inbox[i]
  BY <1>2
<1>4. \A i \in DOMAIN Tail(inbox) : i + 1 \in DOMAIN inbox /\ Tail(inbox)[i] = inbox[i + 1]
  BY <1>2
<1>5. Range(Tail(inbox)) \subseteq Range(inbox)
  BY <1>4 DEF Range
<1>6. \A o \in Range(Tail(inbox)) : \E i \in DOMAIN Tail(inbox) : Tail(inbox)[i] = o
  BY DEF Range
<1>7. QED BY <1>2, <1>3, <1>5, <1>6

LEMMA ConsumeInv == ASSUME Ec8aInv, Consume PROVE Ec8aInv'
<1> USE DEF Ec8aInv
<1> DEFINE r == Head(inbox)
<1>1. /\ channel = "up" /\ inbox # <<>> /\ work[Consumer] = Idle
      /\ UNCHANGED <<row, inbox, channel, fate>>
  BY DEF Consume
<1>2. r \in Rows /\ r # "none" /\ 1 \in DOMAIN inbox /\ inbox[1] = r /\ Consumer \in Workers
  BY <1>1, TailFact, HelpersAndRows DEF Workers
<1>3. PICK new \in JobState : new = [Idle EXCEPT !.row = r, !.step = "read"]
  BY <1>2, IdleJob DEF JobState, WorkSteps
<1>4. new.row = r /\ new.step = "read"
  BY <1>3, IdleJob DEF JobState
<1>5. work' = [work EXCEPT ![Consumer] = new]
  BY <1>1, <1>2, <1>3 DEF Consume, Ec8aTypeOK
<1> HIDE DEF r
<1>6. /\ work' \in [Workers -> JobState] /\ work'[Consumer] = new
      /\ \A v \in Workers \ {Consumer} : work'[v] = work[v]
  BY <1>2, <1>5 DEF Ec8aTypeOK
<1>7. \A v \in Helpers : work[v] = Idle /\ work'[v] = Idle
  BY <1>1, <1>6, HelpersAndRows DEF AtWork, Workers
<1>8. Ec8aTypeOK'
  BY <1>1, <1>6 DEF Ec8aTypeOK
<1>9. AtWork'
  <2>1. \A v \in Workers : work'[v].row = "none" => work'[v] = Idle
    BY <1>2, <1>4, <1>6, <1>7 DEF Workers
  <2>2. inbox' # <<>> /\ work'[Consumer].row = Head(inbox')
    BY <1>1, <1>4, <1>6 DEF r
  <2>3. \A v \in Helpers, o \in Rows : work'[v].row # o
    BY <1>7, IdleJob, HelpersAndRows
  <2>4. QED BY <1>7, <2>1, <2>2, <2>3 DEF AtWork
<1>10. ASSUME NEW o \in Rows, Attended(o) PROVE Attended(o)'
  <2>1. CASE Untouched(o)
    <3>1. PICK i \in DOMAIN inbox : inbox[i] = o
      BY <2>1 DEF Untouched
    <3>2. CASE i > 1
      BY <1>1, <3>1, <3>2 DEF Attended, Untouched
    <3>3. CASE i = 1
      BY <1>2, <1>4, <1>6, <3>1, <3>3 DEF Attended, Fresh
    <3>4. i > 1 \/ i = 1
      BY DEF Ec8aTypeOK
    <3>5. QED BY <3>2, <3>3, <3>4
  <2>2. ASSUME NEW v \in Workers, Fresh(v, o) PROVE FALSE
    BY <1>1, <1>7, <2>2, IdleJob DEF Fresh, Workers
  <2>3. CASE ~Underway(o) /\ Settled(o)
    <3>1. o # r
      BY <1>2, <2>3 DEF Underway, Range
    <3>2. Busy(o)' = Busy(o)
      BY <1>1, <1>4, <1>6, <3>1, IdleJob, HelpersAndRows DEF Busy
    <3>3. QED BY <1>1, <2>3, <3>2 DEF Attended, Underway, Settled
  <2>4. QED BY <1>10, <2>1, <2>2, <2>3 DEF Attended
<1>11. QED BY <1>1, <1>8, <1>9, <1>10

LEMMA DoneInv == ASSUME Ec8aInv, NEW w \in Workers, Done(w) PROVE Ec8aInv'
<1> USE DEF Ec8aInv
<1>1. /\ work[w].step = "done" /\ work[w] # Idle /\ work' = [work EXCEPT ![w] = Idle]
      /\ UNCHANGED <<row, channel, fate>>
  BY IdleJob DEF Done
<1>2. /\ work' \in [Workers -> JobState] /\ work'[w] = Idle
      /\ \A v \in Workers \ {w} : work'[v] = work[v]
  BY <1>1, IdleJob DEF Ec8aTypeOK
<1>3. \A o \in Rows : Busy(o)' = Busy(o) \ {w}
  BY <1>2, IdleJob, HelpersAndRows DEF Busy
<1>4. CASE w = Consumer /\ channel = "up"
  <2>1. inbox # <<>> /\ inbox' = Tail(inbox)
    BY <1>1, <1>4 DEF AtWork, Done
  <2>2. \A v \in Helpers : work'[v] = Idle
    BY <1>2, <1>4, HelpersAndRows DEF AtWork, Workers
  <2>3. Ec8aTypeOK'
    BY <1>1, <1>2, <2>1, TailFact DEF Ec8aTypeOK
  <2>4. AtWork'
    BY <1>2, <1>4, <2>2, IdleJob, HelpersAndRows DEF AtWork, Workers
  <2>5. ASSUME NEW o \in Rows, Attended(o) PROVE Attended(o)'
    <3>1. CASE Untouched(o)
      <4>1. PICK i \in DOMAIN inbox : inbox[i] = o /\ i > 1
        BY <1>1, <1>4, <3>1 DEF Untouched
      <4>2. i - 1 \in DOMAIN inbox' /\ inbox'[i - 1] = o
        BY <2>1, <4>1, TailFact
      <4>3. QED BY <1>2, <1>4, <4>2 DEF Attended, Untouched
    <3>2. CASE Settled(o) /\ o \in Range(inbox')
      BY <1>2, <1>4, <2>1, <3>2, TailFact DEF Attended, Untouched
    <3>3. CASE Settled(o) /\ o \notin Range(inbox')
      <4>1. Busy(o)' = {}
        BY <1>2, <1>4, <2>2, IdleJob, HelpersAndRows DEF Busy, Workers
      <4>2. QED BY <1>1, <3>3, <4>1 DEF Attended, Underway, Settled
    <3>4. ASSUME NEW v \in Workers, Fresh(v, o) PROVE Settled(o)
      BY <1>1, <1>2, <1>4, <2>2, <3>4, IdleJob, HelpersAndRows DEF Fresh, Workers
    <3>5. QED BY <2>5, <3>1, <3>2, <3>3, <3>4 DEF Attended
  <2>6. QED BY <1>1, <2>3, <2>4, <2>5
<1>5. CASE ~(w = Consumer /\ channel = "up")
  <2>1. UNCHANGED inbox
    BY <1>5 DEF Done
  <2>2. Ec8aTypeOK'
    BY <1>1, <1>2, <2>1 DEF Ec8aTypeOK
  <2>3. AtWork'
    <3>1. \A v \in Workers : work'[v].row = "none" => work'[v] = Idle
      BY <1>2 DEF AtWork
    <3>2. work'[Consumer] # Idle => inbox' # <<>> /\ work'[Consumer].row = Head(inbox')
      BY <1>2, <2>1 DEF AtWork, Workers
    <3>3. \A v \in Helpers : channel' = "up" => work'[v] = Idle
      BY <1>1, <1>2 DEF AtWork, Workers
    <3>4. ASSUME NEW v \in Helpers, NEW o \in Rows, work'[v].row = o, fate'[o] = {}
          PROVE  Busy(o)' = {v} /\ o \notin Range(inbox')
      <4>1. v # w
        BY <1>2, <3>4, IdleJob, HelpersAndRows
      <4>2. Busy(o) = {v} /\ o \notin Range(inbox)
        BY <1>1, <1>2, <3>4, <4>1 DEF AtWork, Workers
      <4>3. QED BY <1>3, <2>1, <4>1, <4>2
    <3>5. QED BY <3>1, <3>2, <3>3, <3>4 DEF AtWork
  <2>4. ASSUME NEW o \in Rows, fate[o] = {}, Attended(o) PROVE Attended(o)'
    <3>1. CASE Untouched(o)
      BY <1>2, <2>1, <3>1 DEF Attended, Untouched, Workers
    <3>2. ASSUME NEW v \in Workers \ {w}, Fresh(v, o) PROVE Attended(o)'
      BY <1>1, <1>2, <3>2 DEF Attended, Fresh, Settled
    <3>3. CASE Fresh(w, o) /\ w = Consumer
      <4>1. inbox # <<>> /\ o = Head(inbox)
        BY <1>1, <3>3 DEF AtWork, Fresh
      <4>2. QED BY <1>2, <2>1, <3>3, <4>1, TailFact DEF Attended, Untouched
    <3>4. CASE Fresh(w, o) /\ w # Consumer
      <4>1. Busy(o) = {w} /\ o \notin Range(inbox)
        BY <2>4, <3>4 DEF AtWork, Fresh, Workers
      <4>2. Settled(o)
        BY <1>1, <3>4 DEF Fresh
      <4>3. QED BY <1>1, <1>3, <2>1, <4>1, <4>2 DEF Attended, Underway, Settled
    <3>5. CASE ~Underway(o) /\ Settled(o)
      BY <1>1, <1>3, <2>1, <3>5 DEF Attended, Underway, Settled
    <3>6. QED BY <2>4, <3>1, <3>2, <3>3, <3>4, <3>5 DEF Attended
  <2>5. QED BY <1>1, <2>2, <2>3, <2>4
<1>6. QED BY <1>4, <1>5

-----------------------------------------------------------------------------
(* Failures.                                                               *)

LEMMA FailInv == ASSUME Ec8aInv, Fail PROVE Ec8aInv'
<1> USE DEF Ec8aInv
<1>1. /\ work[Consumer].step \in {"read", "write"} /\ Consumer \in Workers
      /\ work[Consumer] # Idle /\ work[Consumer].row \in Rows
      /\ UNCHANGED <<row, inbox, channel>>
  BY IdleJob DEF Fail, AtWork, Ec8aTypeOK, JobState, Workers
<1>2. PICK r \in Rows : r = work[Consumer].row
  BY <1>1
<1>3. PICK new \in JobState : new = [Idle EXCEPT !.row = r, !.step = "done"]
  BY IdleJob DEF JobState, WorkSteps
<1>4. new.row = r /\ new.step = "done"
  BY <1>3, IdleJob DEF JobState
<1>5. work' = [work EXCEPT ![Consumer] = new] /\ new # Idle
  BY <1>2, <1>3, <1>4, IdleJob DEF Fail
<1>6. fate' = [fate EXCEPT ![r] = fate[r] \cup {"lost"}]
  BY <1>2 DEF Fail
<1>7. /\ fate' \in [Rows -> SUBSET {"overlapped", "lost"}] /\ fate'[r] # {}
      /\ \A o \in Rows : fate'[o] = {} => fate[o] = {}
  BY <1>6 DEF Ec8aTypeOK
<1>8. \A o \in Rows :
        /\ Untouched(o) => Untouched(o)'
        /\ Underway(o)' <=> Underway(o)
        /\ \A v \in Helpers : work'[v].row = o /\ fate'[o] = {} =>
                 Busy(o)' = {v} /\ o \notin Range(inbox')
  BY <1>1, <1>2, <1>4, <1>5, <1>7, JobStep
<1>9. /\ \A v \in Workers : work'[v].row = "none" => work'[v] = Idle
      /\ work'[Consumer] # Idle => inbox' # <<>> /\ work'[Consumer].row = Head(inbox')
      /\ \A v \in Helpers : channel' = "up" => work'[v] = Idle
      /\ work' \in [Workers -> JobState] /\ \A v \in Workers \ {Consumer} : work'[v] = work[v]
  BY <1>1, <1>2, <1>4, <1>5, <1>7, JobStep
<1>10. Ec8aTypeOK'
  BY <1>1, <1>7, <1>9 DEF Ec8aTypeOK
<1>11. AtWork'
  BY <1>8, <1>9 DEF AtWork
<1>12. ASSUME NEW o \in Rows, fate'[o] = {}, Attended(o) PROVE Attended(o)'
  <2>1. CASE Untouched(o)
    BY <1>8, <2>1 DEF Attended
  <2>2. ASSUME NEW v \in Workers, Fresh(v, o) PROVE Attended(o)'
    <3>1. v # Consumer
      BY <1>2, <1>7, <1>12, <2>2 DEF Fresh
    <3>2. Fresh(v, o)'
      BY <1>1, <1>9, <2>2, <3>1 DEF Fresh, Settled
    <3>3. QED BY <3>2 DEF Attended
  <2>3. CASE ~Underway(o) /\ Settled(o)
    BY <1>1, <1>8, <2>3 DEF Attended, Settled
  <2>4. QED BY <1>12, <2>1, <2>2, <2>3 DEF Attended
<1>13. QED BY <1>1, <1>7, <1>10, <1>11, <1>12

LEMMA DisconnectInv == ASSUME Ec8aInv, Disconnect PROVE Ec8aInv'
<1>1. UNCHANGED <<row, inbox, work, fate>> /\ channel' = "down"
  BY DEF Disconnect
<1>2. \A o \in Rows : Attended(o) => Attended(o)'
  BY <1>1 DEF Attended, Untouched, Fresh, Settled, Underway, Busy
<1>3. Ec8aTypeOK' /\ AtWork'
  BY <1>1 DEF Ec8aInv, Ec8aTypeOK, AtWork, Busy
<1>4. QED BY <1>1, <1>2, <1>3 DEF Ec8aInv

LEMMA RestartInv ==
    ASSUME Ec8aInv, NEW connected \in {"up", "down"}, Restart(connected) PROVE Ec8aInv'
<1> USE DEF Ec8aInv
<1>1. /\ UNCHANGED <<row, inbox>> /\ channel' = connected
      /\ \A w \in Workers : work'[w] = Idle
      /\ \A o \in Rows, w \in Helpers :
            work[w].row = o /\ work[w].step # "done" => fate'[o] = fate[o] \cup {"lost"}
      /\ \A o \in Rows : fate'[o] = {} => fate[o] = {}
  BY DEF Restart
<1>2. Ec8aTypeOK'
  <2>1. work' \in [Workers -> JobState]
    BY IdleJob DEF Restart
  <2>2. fate' \in [Rows -> SUBSET {"overlapped", "lost"}]
    BY DEF Restart, Ec8aTypeOK
  <2>3. QED BY <1>1, <2>1, <2>2 DEF Ec8aTypeOK
<1>3. \A o \in Rows : Busy(o)' = {}
  BY <1>1, IdleJob, HelpersAndRows DEF Busy
<1>4. AtWork'
  BY <1>1, IdleJob, HelpersAndRows DEF AtWork, Workers
<1>5. work'[Consumer] = Idle
  BY <1>1 DEF Workers
<1>6. ASSUME NEW o \in Rows, fate'[o] = {}, Attended(o) PROVE Attended(o)'
  <2>1. CASE Untouched(o)
    BY <1>1, <1>5, <2>1 DEF Attended, Untouched
  <2>2. CASE Fresh(Consumer, o)
    <3>1. inbox # <<>> /\ o = Head(inbox)
      BY <2>2, IdleJob, HelpersAndRows DEF AtWork, Fresh
    <3>2. QED BY <1>1, <1>5, <3>1, TailFact DEF Attended, Untouched
  <2>3. ASSUME NEW v \in Helpers, Fresh(v, o) PROVE Attended(o)'
    <3>1. work[v].step = "done" /\ Settled(o)
      BY <1>1, <1>6, <2>3 DEF Fresh
    <3>2. o \notin Range(inbox)
      BY <1>1, <1>6, <2>3 DEF AtWork, Fresh
    <3>3. QED BY <1>1, <1>3, <3>1, <3>2 DEF Attended, Underway, Settled
  <2>4. CASE ~Underway(o) /\ Settled(o)
    BY <1>1, <1>3, <2>4 DEF Attended, Underway, Settled
  <2>5. QED BY <1>6, <2>1, <2>2, <2>3, <2>4 DEF Attended, Workers
<1>7. QED BY <1>1, <1>2, <1>4, <1>6

LEMMA Ec8aStutter == ASSUME Ec8aInv, UNCHANGED ec8aVars PROVE Ec8aInv'
<1>1. \A o \in Rows : Attended(o) => Attended(o)'
  BY DEF ec8aVars, Attended, Untouched, Fresh, Settled, Underway, Busy
<1>2. Ec8aTypeOK' /\ AtWork'
  BY DEF ec8aVars, Ec8aInv, Ec8aTypeOK, AtWork, Busy
<1>3. QED BY <1>1, <1>2 DEF ec8aVars, Ec8aInv

LEMMA Ec8aNextInv == ASSUME Ec8aInv, [Ec8aNext]_ec8aVars PROVE Ec8aInv'
<1>1. ASSUME NEW w \in Workers, WorkOn(w) PROVE Ec8aInv'
  BY <1>1, ReadRowInv, AskInv, StoreInv, DoneInv DEF WorkOn
<1>2. ASSUME NEW r \in Rows, NEW f \in Sheets, NEW photo \in BOOLEAN, Save(r, f, photo)
      PROVE  Ec8aInv'
  BY <1>2, SaveInv
<1>3. ASSUME NEW r \in Rows, NEW to \in {"APPROVED", "REJECTED"}, DecideRow(r, to) PROVE Ec8aInv'
  BY <1>3, DecideRowInv
<1>4. ASSUME NEW r \in Rows, Attach(r) \/ SubmitRow(r) PROVE Ec8aInv'
  BY <1>4, AttachInv, SubmitRowInv
<1>5. ASSUME NEW connected \in {"up", "down"}, Restart(connected) PROVE Ec8aInv'
  BY <1>5, RestartInv
<1>6. QED BY <1>1, <1>2, <1>3, <1>4, <1>5, ConsumeInv, FailInv, DisconnectInv, Ec8aStutter
             DEF Ec8aNext

LEMMA Ec8aInvariance == Ec8aSpec => []Ec8aInv
<1>1. Ec8aInv /\ [Ec8aNext]_ec8aVars => Ec8aInv'
  BY Ec8aNextInv
<1>2. QED BY <1>1, Ec8aInitInv, PTL DEF Ec8aSpec

\* Rows, the broker's queue and the jobs at work stay within their types, whatever the model
\* answers and whenever the process stops or loses the broker.
THEOREM Ec8aTyped == Ec8aSpec => []Ec8aTypeOK
<1>1. Ec8aInv => Ec8aTypeOK
  BY DEF Ec8aInv
<1>2. QED BY <1>1, Ec8aInvariance, PTL

\* A sheet whose own figures do not add up is recommended for return and sorts first,
\* whatever the photo shows (mergeVisionWithArithmetic); and once no job of a submitted row is
\* waiting or running, its chip is about the figures it has, for any number of rows, jobs,
\* broken connections and restarts, unless a job of it was lost or ran beside another.
THEOREM Ec8aChipsFit == Ec8aSpec => []ChipsFit
<1>1. Ec8aInv => ChipsFit
  <2>1. SUFFICES ASSUME Ec8aInv, NEW r \in Rows
                 PROVE  LET chip == row[r].chip
                        IN  /\ Broken(chip.of) # {} =>
                                  chip.recommendation = "RETURN" /\ SortRank(chip) = 0
                            /\ row[r].status \in {"SUBMITTED", "APPROVED"} /\ ~Underway(r)
                                  /\ fate[r] = {} =>
                                  chip.of = row[r].figures /\ chip.engine = "OCR"
    BY DEF ChipsFit
  <2>2. Flagged(row[r].chip)
    BY <2>1 DEF Ec8aInv
  <2>3. \A chip : chip.recommendation = "RETURN" => SortRank(chip) = 0
    BY DEF SortRank
  <2>4. ASSUME row[r].status \in Decided, ~Underway(r), fate[r] = {} PROVE Settled(r)
    <3>1. Attended(r)
      BY <2>1, <2>4 DEF Ec8aInv
    <3>2. ~Untouched(r)
      BY <2>4 DEF Untouched, Underway, Range
    <3>3. \A w \in Workers : ~Fresh(w, r)
      BY <2>4 DEF Fresh, Underway, Busy
    <3>4. QED BY <3>1, <3>2, <3>3 DEF Attended
  <2>5. QED BY <2>2, <2>3, <2>4 DEF Flagged, Settled, Decided
<1>2. QED BY <1>1, Ec8aInvariance, PTL

(***************************************************************************)
(* Social.                                                                 *)
(***************************************************************************)

\* What a sync works from is an answer of Pulseforge.
Pulled ==
    /\ pull = [step |-> pull.step, states |-> pull.states, lgas |-> pull.lgas, at |-> pull.at]
    /\ pull.step # "idle" =>
          \E answer \in Moods : pull.states = answer.states /\ pull.lgas = answer.lgas

MoodInv ==
    /\ DOMAIN reading = States \cup LGAs
    /\ \A x \in States \cup LGAs : reading[x] # NoReading => reading[x].of = {x}
    /\ Pulled

\* An LGA that a row is stored for is the one the row is about, by its full name or as the
\* only LGA of its name.
LEMMA PlaceOfRow ==
    ASSUME NEW answer \in Moods, NEW r \in answer.lgas, NEW x \in PlaceOf(r)
    PROVE  r.at = x
<1>1. /\ r.at[2] = r.lga /\ r.state \in {r.at[1], "none"}
      /\ r.at \in LGAs \/ \A y \in LGAs : y[2] # r.lga
  BY MoodsNameTheirPlace
<1>2. CASE x \in LGAs /\ x = <<r.state, r.lga>>
  <2>1. x[1] = r.state /\ x[2] = r.lga /\ r.state # "none"
    BY <1>2, Places
  <2>2. r.at \in LGAs /\ r.at[1] = r.state
    BY <1>1, <1>2, <2>1
  <2>3. r.at = <<r.state, r.lga>>
    BY <1>1, <2>2, Places
  <2>4. QED BY <1>2, <2>3
<1>3. CASE x \in {y \in LGAs : y[2] = r.lga} /\ Cardinality({y \in LGAs : y[2] = r.lga}) = 1
  <2> DEFINE bare == {y \in LGAs : y[2] = r.lga}
  <2>1. IsFiniteSet(bare) /\ Cardinality(bare) = 1
    BY <1>3, Places, FS_Subset
  <2>2. x \in bare /\ r.at \in bare
    BY <1>1, <1>3
  <2> HIDE DEF bare
  <2>3. PICK y : bare = {y}
    BY <2>1, FS_Singleton
  <2>4. QED BY <2>2, <2>3
<1>4. QED BY <1>2, <1>3 DEF PlaceOf

LEMMA MoodInitInv == SocialInit => MoodInv
BY DEF SocialInit, MoodInv, Pulled, NoPull

LEMMA SyncStatesInv == ASSUME MoodInv, SyncStates PROVE MoodInv'
<1> USE DEF MoodInv
<1>1. PICK answer \in Moods : pull.states = answer.states /\ pull.lgas = answer.lgas
  BY DEF Pulled, SyncStates
<1>2. Pulled'
  BY <1>1 DEF Pulled, SyncStates
<1>3. DOMAIN reading' = States \cup LGAs
  BY DEF SyncStates
<1>4. ASSUME NEW x \in States \cup LGAs, reading'[x] # NoReading PROVE reading'[x].of = {x}
  <2>1. CASE \E r \in pull.states : <<r.state>> = x
    <3>1. PICK r \in pull.states : <<r.state>> = x /\ reading'[x] = [counts |-> r.counts, of |-> {r.at}]
      <4> DEFINE r == CHOOSE r \in pull.states : <<r.state>> = x
      <4>1. r \in pull.states /\ <<r.state>> = x
        BY <2>1
      <4>2. reading'[x] = [counts |-> r.counts, of |-> {r.at}]
        BY <1>4, <2>1 DEF SyncStates
      <4>3. QED BY <4>1, <4>2
    <3>2. r.at = <<r.state>>
      BY <1>1, <3>1, MoodsNameTheirPlace
    <3>3. QED BY <3>1, <3>2
  <2>2. CASE ~\E r \in pull.states : <<r.state>> = x
    BY <1>4, <2>2 DEF SyncStates
  <2>3. QED BY <2>1, <2>2
<1>5. QED BY <1>2, <1>3, <1>4

LEMMA SyncLgasInv == ASSUME MoodInv, SyncLgas PROVE MoodInv'
<1> USE DEF MoodInv
<1>1. PICK answer \in Moods : pull.states = answer.states /\ pull.lgas = answer.lgas
  BY DEF Pulled, SyncLgas
<1>2. Pulled'
  BY <1>1 DEF Pulled, SyncLgas
<1>3. DOMAIN reading' = States \cup LGAs
  BY DEF SyncLgas
<1>4. ASSUME NEW x \in States \cup LGAs, reading'[x] # NoReading PROVE reading'[x].of = {x}
  <2> DEFINE rows == {r \in pull.lgas : x \in PlaceOf(r)}
  <2>1. reading'[x] = IF x \in LGAs /\ rows # {}
                      THEN LET r == CHOOSE r \in rows : TRUE IN [counts |-> r.counts, of |-> {r.at}]
                      ELSE reading[x]
    BY <1>4 DEF SyncLgas
  <2>2. CASE x \in LGAs /\ rows # {}
    <3> DEFINE r == CHOOSE r \in rows : TRUE
    <3>1. r \in rows
      BY <2>2
    <3>2. r \in answer.lgas /\ x \in PlaceOf(r)
      BY <1>1, <3>1
    <3>3. r.at = x
      BY <3>2, PlaceOfRow
    <3>4. reading'[x] = [counts |-> r.counts, of |-> {r.at}]
      BY <2>1, <2>2
    <3> HIDE DEF r
    <3>5. QED BY <3>3, <3>4
  <2>3. CASE ~(x \in LGAs /\ rows # {})
    BY <1>4, <2>1, <2>3
  <2>4. QED BY <2>2, <2>3
<1>5. QED BY <1>2, <1>3, <1>4

LEMMA MoodNextInv == ASSUME MoodInv, [SocialNext]_socialVars PROVE MoodInv'
<1>1. CASE UNCHANGED <<reading, pull>>
  BY <1>1 DEF MoodInv, Pulled
<1>2. ASSUME NEW answer \in Moods, Pull(answer) PROVE MoodInv'
  BY <1>2 DEF MoodInv, Pulled, Pull
<1>3. ASSUME UNCHANGED reading, pull' = NoPull PROVE MoodInv'
  BY <1>3 DEF MoodInv, Pulled, NoPull
<1>4. \/ UNCHANGED <<reading, pull>>
      \/ UNCHANGED reading /\ pull' = NoPull
      \/ \E answer \in Moods : Pull(answer)
      \/ SyncStates \/ SyncLgas
  BY DEF SocialNext, socialVars, Ingest, Queue, Toggle, TaskStep, ConsumeJob, ClassifyPosts, WritePost,
         CountHour, StoreHour, AnalysisFails, SocialRestarts, Sync, SyncCampaign, Tick, moodVars
<1>5. QED BY <1>1, <1>2, <1>3, <1>4, SyncStatesInv, SyncLgasInv

\* What a place is shown with was said of that place, for any states and LGAs, namesakes
\* among them, and any answers whose rows name their place (pulseforge-sync, syncStates and
\* syncLgas).
THEOREM SocialReadingsOfTheirPlace == SocialSpec => []ReadingsOfTheirPlace
<1>1. MoodInv /\ [SocialNext]_socialVars => MoodInv'
  BY MoodNextInv
<1>2. MoodInv => ReadingsOfTheirPlace
  BY DEF MoodInv, ReadingsOfTheirPlace, StateMood
<1>3. QED BY <1>1, <1>2, MoodInitInv, PTL DEF SocialSpec

-----------------------------------------------------------------------------
(* The hours.                                                              *)

SocialJob == [posts : SUBSET Posts, again : BOOLEAN]
HoursOf(posts) == {PostedAt[p] : p \in posts}

\* What an analysis has in hand: posts that are stored and, of their hours, those to come.
Analysis(t) ==
    \/ task[t] = IdleTask
    \/ /\ DOMAIN task[t] = DOMAIN IdleTask
       /\ task[t].posts \subseteq Posts /\ \A p \in task[t].posts : post[p] # "absent"
       /\ task[t].again \in BOOLEAN
       /\ \/ task[t].step = "classify"
          \/ /\ task[t].step = "write"
             /\ \A w \in task[t].left : w[1] \in task[t].posts /\ w[2] # "absent"
          \/ /\ task[t].step = "count"
             /\ task[t].hours \subseteq HoursOf(task[t].posts)
          \/ /\ task[t].step = "store"
             /\ task[t].hours \subseteq HoursOf(task[t].posts)
             /\ \E h \in task[t].hours : task[t].left = {h}

\* An analysis that will store a count of the hour.
Due(t, h) ==
    \/ task[t].step \in {"classify", "write"} /\ h \in HoursOf(task[t].posts)
    \/ task[t].step \in {"count", "store"} /\ h \in task[t].hours

Waits(h) == \E job \in Range(jobs) : h \in HoursOf(job.posts)

Complete(h) == Stored(h) # {} /\ Stored(h) \cap dead = {} /\ \A p \in Stored(h) : Analysed(p)
Counted(h) == window[h].engine = "pulseforge" \/ window[h].counts = CountsOf(h)
Accounted(h) == Counted(h) \/ Waits(h) \/ \E t \in Analyses : Due(t, h)

\* What an analysis has counted and not stored yet is right, unless posts came in since.
Exact(t) ==
    task[t].step = "store" =>
        \A h \in Hours : h \in task[t].left /\ Complete(h) => task[t].counted = CountsOf(h)

OneAnalysis == \A t, u \in Analyses : task[t] # IdleTask /\ task[u] # IdleTask => t = u

HourInv ==
    /\ DOMAIN task = Analyses /\ DOMAIN post = Posts /\ DOMAIN window = Hours
    /\ feed \subseteq Posts /\ jobs \in Seq(SocialJob)
    /\ \A job \in Range(jobs) : \A p \in job.posts : post[p] # "absent"
    /\ \A t \in Analyses : Analysis(t)
    /\ broker => OneAnalysis /\ \A t \in Analyses : Exact(t)
    /\ broker => \A h \in Hours : Complete(h) => Accounted(h)

LEMMA SamePosts ==
    ASSUME UNCHANGED post, NEW h
    PROVE  CountsOf(h)' = CountsOf(h) /\ Stored(h)' = Stored(h) /\ \A p : Analysed(p)' <=> Analysed(p)
BY DEF CountsOf, Stored, Analysed

LEMMA SameHours ==
    ASSUME HourInv, UNCHANGED <<post, broker, jobs, dead, task>>, DOMAIN window' = Hours,
           feed' \in {feed, {}},
           \A h \in Hours : window'[h] = window[h] \/ window'[h].engine = "pulseforge"
    PROVE  HourInv'
<1>1. ASSUME NEW h \in Hours, Complete(h)', broker PROVE Accounted(h)'
  <2>1. Complete(h)
    BY <1>1, SamePosts DEF Complete
  <2>2. Accounted(h)
    BY <1>1, <2>1 DEF HourInv
  <2>3. Counted(h) => Counted(h)'
    BY SamePosts DEF Counted
  <2>4. \A t \in Analyses : Due(t, h) => Due(t, h)'
    BY SamePosts DEF Due
  <2>5. Waits(h) => Waits(h)'
    BY DEF Waits
  <2>6. QED BY <2>2, <2>3, <2>4, <2>5 DEF Accounted
<1>2. \A t \in Analyses : Analysis(t) => Analysis(t)'
  BY DEF Analysis
<1>3. OneAnalysis => OneAnalysis'
  BY DEF OneAnalysis
<1>4. \A t \in Analyses : Exact(t) => Exact(t)'
  BY SamePosts DEF Exact, Complete
<1>5. QED BY <1>1, <1>2, <1>3, <1>4 DEF HourInv

LEMMA HourInitInv == SocialInit => HourInv
<1> SUFFICES ASSUME SocialInit PROVE HourInv
  OBVIOUS
<1>1. \A h : Stored(h) = {}
  BY DEF SocialInit, Stored
<1>2. \A t \in Analyses : task[t] = IdleTask
  BY DEF SocialInit
<1>3. jobs \in Seq(SocialJob) /\ Range(jobs) = {}
  BY DEF SocialInit, Range
<1>4. \A h \in Hours : ~Complete(h)
  BY <1>1 DEF Complete
<1>5. (\A t \in Analyses : Analysis(t) /\ Exact(t)) /\ OneAnalysis
  BY <1>2 DEF Analysis, OneAnalysis, Exact, IdleTask
<1>6. DOMAIN task = Analyses /\ DOMAIN post = Posts /\ DOMAIN window = Hours /\ feed = {}
  BY DEF SocialInit
<1>7. QED BY <1>3, <1>4, <1>5, <1>6 DEF HourInv

LEMMA QueuedJobs == ASSUME jobs \in Seq(SocialJob) PROVE Range(jobs) \subseteq SocialJob
BY ElementOfSeq, LenProperties DEF Range

LEMMA IngestInv == ASSUME HourInv, NEW batch \in SUBSET Posts, Ingest(batch) PROVE HourInv'
<1> USE DEF HourInv
<1>1. /\ UNCHANGED <<broker, jobs, dead, task, window>> /\ feed' = batch
      /\ DOMAIN post' = Posts
      /\ \A p \in Posts : post'[p] = post[p] \/ (post[p] = "absent" /\ post'[p] = "new")
  BY DEF Ingest
<1>2. \A p \in Posts : post[p] # "absent" => post'[p] # "absent"
  BY <1>1
<1>3. \A job \in Range(jobs)' : \A p \in job.posts : post'[p] # "absent"
  <2>1. ASSUME NEW job \in Range(jobs), NEW p \in job.posts PROVE p \in Posts /\ post[p] # "absent"
    BY <2>1, QueuedJobs DEF SocialJob
  <2>2. QED BY <1>1, <1>2, <2>1
<1>4. \A t \in Analyses : Analysis(t) => Analysis(t)'
  BY <1>1, <1>2 DEF Analysis
<1>5. OneAnalysis => OneAnalysis'
  BY <1>1 DEF OneAnalysis
<1>6. ASSUME NEW h \in Hours, Complete(h)'
      PROVE  Complete(h) /\ CountsOf(h)' = CountsOf(h)
  <2>1. \A p \in Posts : PostedAt[p] = h => post'[p] = post[p]
    BY <1>1, <1>6 DEF Complete, Stored, Analysed
  <2>2. Stored(h)' = Stored(h)
    BY <2>1 DEF Stored
  <2>3. \A p \in Stored(h) : post'[p] = post[p]
    BY <2>1 DEF Stored
  <2>4. CountsOf(h)' = CountsOf(h)
    <3>1. \A S : {p \in Stored(h)' : post'[p] \in S} = {p \in Stored(h) : post[p] \in S}
      BY <2>2, <2>3
    <3>2. QED BY <2>2, <3>1 DEF CountsOf
  <2>5. Complete(h)
    BY <1>1, <1>6, <2>2, <2>3 DEF Complete, Analysed
  <2>6. QED BY <2>4, <2>5
<1>7. ASSUME NEW h \in Hours, Complete(h)', broker PROVE Accounted(h)'
  <2>1. Accounted(h)
    BY <1>6, <1>7
  <2>2. Counted(h) => Counted(h)'
    BY <1>1, <1>6, <1>7 DEF Counted
  <2>3. \A t \in Analyses : Due(t, h) => Due(t, h)'
    BY <1>1 DEF Due
  <2>4. Waits(h) => Waits(h)'
    BY <1>1 DEF Waits
  <2>5. QED BY <2>1, <2>2, <2>3, <2>4 DEF Accounted
<1>8. \A t \in Analyses : Exact(t) => Exact(t)'
  BY <1>1, <1>6 DEF Exact
<1>9. QED BY <1>1, <1>3, <1>4, <1>5, <1>7, <1>8

\* A job at either end of the queue.
LEMMA Appended ==
    ASSUME NEW S, NEW s \in Seq(S), NEW e \in S
    PROVE  Append(s, e) \in Seq(S) /\ Range(Append(s, e)) = Range(s) \cup {e}
<1>1. /\ DOMAIN s = 1 .. Len(s) /\ DOMAIN Append(s, e) = 1 .. Len(s) + 1
      /\ Len(s) \in Nat /\ Append(s, e)[Len(s) + 1] = e /\ Append(s, e) \in Seq(S)
      /\ \A i \in 1 .. Len(s) : Append(s, e)[i] = s[i]
  BY AppendProperties
<1>2. \A o : o \in Range(Append(s, e)) <=> \E i \in 1 .. Len(s) + 1 : Append(s, e)[i] = o
  BY <1>1 DEF Range
<1>3. \A o : o \in Range(s) <=> \E i \in 1 .. Len(s) : s[i] = o
  BY <1>1 DEF Range
<1>4. \A i : i \in 1 .. Len(s) + 1 <=> i \in 1 .. Len(s) \/ i = Len(s) + 1
  BY <1>1
<1>5. QED BY <1>1, <1>2, <1>3, <1>4

LEMMA Prepended ==
    ASSUME NEW S, NEW s \in Seq(S), NEW e \in S
    PROVE  <<e>> \o s \in Seq(S) /\ Range(<<e>> \o s) = Range(s) \cup {e}
<1>1. <<e>> \in Seq(S) /\ Len(<<e>>) = 1 /\ <<e>>[1] = e
  OBVIOUS
<1>2. PICK q : q = <<e>> \o s
  OBVIOUS
<1>3. /\ q \in Seq(S) /\ Len(q) = 1 + Len(s)
      /\ \A i \in 1 .. Len(q) : q[i] = IF i <= 1 THEN e ELSE s[i - 1]
  BY <1>1, <1>2, ConcatProperties
<1>4. DOMAIN q = 1 .. Len(q) /\ DOMAIN s = 1 .. Len(s) /\ Len(s) \in Nat
  BY <1>3, LenProperties
<1>5. \A i \in DOMAIN s : i + 1 \in DOMAIN q /\ q[i + 1] = s[i]
  BY <1>3, <1>4
<1>6. \A i \in DOMAIN q : q[i] = e \/ (i - 1 \in DOMAIN s /\ q[i] = s[i - 1])
  BY <1>3, <1>4
<1>7. 1 \in DOMAIN q /\ q[1] = e
  BY <1>3, <1>4
<1>8. Range(q) \subseteq Range(s) \cup {e}
  BY <1>6 DEF Range
<1>9. Range(s) \subseteq Range(q)
  BY <1>5 DEF Range
<1>10. e \in Range(q)
  BY <1>7 DEF Range
<1>11. QED BY <1>2, <1>3, <1>8, <1>9, <1>10

LEMMA Dequeued ==
    ASSUME NEW S, NEW s \in Seq(S), s # <<>>
    PROVE  Tail(s) \in Seq(S) /\ Head(s) \in S /\ Range(s) = Range(Tail(s)) \cup {Head(s)}
<1>1. /\ Tail(s) \in Seq(S) /\ Len(Tail(s)) = Len(s) - 1
      /\ \A i \in 1 .. Len(Tail(s)) : Tail(s)[i] = s[i + 1]
      /\ Head(s) = s[1] /\ Len(s) \in Nat \ {0} /\ Head(s) \in S
      /\ DOMAIN s = 1 .. Len(s) /\ DOMAIN Tail(s) = 1 .. Len(s) - 1
  BY HeadTailProperties
<1>2. \A i \in DOMAIN s : s[i] = Head(s) \/ (i - 1 \in DOMAIN Tail(s) /\ s[i] = Tail(s)[i - 1])
  BY <1>1
<1>3. \A i \in DOMAIN Tail(s) : i + 1 \in DOMAIN s /\ Tail(s)[i] = s[i + 1]
  BY <1>1
<1>4. 1 \in DOMAIN s
  BY <1>1
<1>5. Range(s) \subseteq Range(Tail(s)) \cup {Head(s)}
  BY <1>2 DEF Range
<1>6. Range(Tail(s)) \subseteq Range(s)
  BY <1>3 DEF Range
<1>7. Head(s) \in Range(s)
  BY <1>1, <1>4 DEF Range
<1>8. QED BY <1>1, <1>5, <1>6, <1>7

\* A job is put into the queue, at either end.
LEMMA JobPut ==
    ASSUME HourInv, NEW job \in SocialJob, \A p \in job.posts : post[p] # "absent",
           jobs' \in {Append(jobs, job), <<job>> \o jobs}, UNCHANGED post
    PROVE  /\ jobs' \in Seq(SocialJob)
           /\ \A j \in Range(jobs)' : \A p \in j.posts : post'[p] # "absent"
           /\ \A h : Waits(h) => Waits(h)'
           /\ \A h \in HoursOf(job.posts) : Waits(h)'
<1>1. jobs \in Seq(SocialJob) /\ \A j \in Range(jobs) : \A p \in j.posts : post[p] # "absent"
  BY DEF HourInv
<1>2. jobs' \in Seq(SocialJob) /\ Range(jobs)' = Range(jobs) \cup {job}
  <2>1. CASE jobs' = Append(jobs, job)
    BY <1>1, <2>1, Appended
  <2>2. CASE jobs' = <<job>> \o jobs
    BY <1>1, <2>2, Prepended
  <2>3. QED BY <2>1, <2>2
<1>3. \A j \in Range(jobs)' : \A p \in j.posts : post'[p] # "absent"
  BY <1>1, <1>2
<1>4. \A h : Waits(h) => Waits(h)'
  BY <1>2 DEF Waits
<1>5. \A h \in HoursOf(job.posts) : Waits(h)'
  BY <1>2 DEF Waits
<1>6. QED BY <1>2, <1>3, <1>4, <1>5

LEMMA IdleFacts == IdleTask.step = "idle" /\ \A t, h : task[t] = IdleTask => ~Due(t, h)
BY DEF IdleTask, Due

\* A step of one analysis that leaves the posts alone.
LEMMA TaskMoves ==
    ASSUME HourInv, NEW t \in Analyses, DOMAIN task' = Analyses, DOMAIN window' = Hours,
           feed' \in {feed, {}},
           \A u \in Analyses \ {t} : task'[u] = task[u], UNCHANGED <<post, broker>>,
           dead \subseteq dead', jobs' \in Seq(SocialJob),
           \A job \in Range(jobs)' : \A p \in job.posts : post'[p] # "absent",
           Analysis(t)', Exact(t)',
           broker /\ task'[t] # IdleTask => \A u \in Analyses \ {t} : task[u] = IdleTask,
           \A h \in Hours : broker /\ Complete(h)' /\ (Counted(h) \/ Waits(h) \/ Due(t, h)) =>
               Counted(h)' \/ Waits(h)' \/ Due(t, h)'
    PROVE  HourInv'
<1> USE DEF HourInv
<1>1. \A u \in Analyses : Analysis(u)'
  BY DEF Analysis
<1>2. broker => OneAnalysis'
  BY DEF OneAnalysis
<1>3. ASSUME NEW h \in Hours, broker, Complete(h)' PROVE Accounted(h)'
  <2>1. Complete(h)
    BY <1>3, SamePosts DEF Complete
  <2>2. Accounted(h)
    BY <1>3, <2>1
  <2>3. \A u \in Analyses \ {t} : Due(u, h) => Due(u, h)'
    BY DEF Due
  <2>4. CASE Counted(h) \/ Waits(h) \/ Due(t, h)
    BY <1>3, <2>4 DEF Accounted
  <2>5. QED BY <2>2, <2>3, <2>4 DEF Accounted
<1>4. broker => \A u \in Analyses : Exact(u)'
  <2>1. \A h : Complete(h)' => Complete(h)
    BY SamePosts DEF Complete
  <2>2. \A u \in Analyses \ {t} : Exact(u) => Exact(u)'
    BY <2>1, SamePosts DEF Exact
  <2>3. QED BY <2>2
<1>5. QED BY <1>1, <1>2, <1>3, <1>4

LEMMA StartFacts ==
    ASSUME HourInv, NEW t \in Analyses, NEW job, Start(t, job)
    PROVE  /\ DOMAIN task' = Analyses /\ \A u \in Analyses \ {t} : task'[u] = task[u]
           /\ DOMAIN task'[t] = DOMAIN IdleTask
           /\ task'[t].step = "classify" /\ task'[t].posts = job.posts /\ task'[t].again = job.again
BY DEF HourInv, Start, IdleTask

LEMMA QueueInv == ASSUME HourInv, Queue PROVE HourInv'
<1> USE DEF HourInv
<1>1. UNCHANGED <<post, broker, dead, window>> /\ feed' = {}
  BY DEF Queue
<1>2. CASE UNCHANGED <<jobs, task>>
  BY <1>1, <1>2, SameHours
<1>3. ASSUME NEW job \in SocialJob, \A p \in job.posts : post[p] # "absent",
             jobs' = Append(jobs, job), UNCHANGED task
      PROVE  HourInv'
  <2>1. /\ jobs' \in Seq(SocialJob) /\ \A j \in Range(jobs)' : \A p \in j.posts : post'[p] # "absent"
        /\ \A h : Waits(h) => Waits(h)'
    BY <1>1, <1>3, JobPut
  <2>2. ASSUME NEW h \in Hours, Complete(h)', broker PROVE Accounted(h)'
    <3>1. Accounted(h)
      BY <1>1, <2>2, SamePosts DEF Complete
    <3>2. (Counted(h) => Counted(h)') /\ \A t \in Analyses : Due(t, h) => Due(t, h)'
      BY <1>1, <1>3, SamePosts DEF Counted, Due
    <3>3. QED BY <2>1, <3>1, <3>2 DEF Accounted
  <2>3. (\A t \in Analyses : Analysis(t)' /\ (Exact(t) => Exact(t)')) /\ (OneAnalysis => OneAnalysis')
    BY <1>1, <1>3, SamePosts DEF Analysis, OneAnalysis, Exact, Complete
  <2>4. QED BY <1>1, <1>3, <2>1, <2>2, <2>3
<1>4. ASSUME NEW job \in SocialJob, \A p \in job.posts : post[p] # "absent", ~broker,
             NEW t \in Analyses, Start(t, job), UNCHANGED jobs
      PROVE  HourInv'
  <2>1. Analysis(t)' /\ Exact(t)'
    BY <1>1, <1>4, StartFacts DEF Analysis, SocialJob, Exact
  <2>2. \A h : Waits(h) => Waits(h)'
    BY <1>4 DEF Waits
  <2>3. QED BY <1>1, <1>4, <2>1, <2>2, StartFacts, TaskMoves
<1>5. QED
  <2> DEFINE job == [posts |-> {p \in feed : post[p] = "new"}, again |-> FALSE]
  <2>1. job \in SocialJob /\ \A p \in job.posts : post[p] # "absent"
    BY DEF SocialJob
  <2>2. \/ UNCHANGED <<jobs, task>>
        \/ jobs' = Append(jobs, job) /\ UNCHANGED task
        \/ ~broker /\ UNCHANGED jobs /\ \E t \in Analyses : Start(t, job)
    BY DEF Queue
  <2> HIDE DEF job
  <2>3. QED BY <1>2, <1>3, <1>4, <2>1, <2>2

LEMMA ConsumeJobInv == ASSUME HourInv, NEW t \in Analyses, ConsumeJob(t) PROVE HourInv'
<1> USE DEF HourInv
<1>1. /\ UNCHANGED <<post, feed, broker, dead, window>> /\ jobs # <<>> /\ jobs' = Tail(jobs)
      /\ Start(t, Head(jobs)) /\ \A u \in Analyses : task[u] = IdleTask
  BY DEF ConsumeJob
<1>2. PICK job \in SocialJob : job = Head(jobs)
  BY <1>1, Dequeued
<1>3. jobs' \in Seq(SocialJob) /\ Range(jobs) = Range(jobs)' \cup {job}
  BY <1>1, <1>2, Dequeued
<1>4. /\ DOMAIN task' = Analyses /\ \A u \in Analyses \ {t} : task'[u] = task[u]
      /\ DOMAIN task'[t] = DOMAIN IdleTask
      /\ task'[t].step = "classify" /\ task'[t].posts = job.posts /\ task'[t].again = job.again
  BY <1>1, <1>2, StartFacts
<1>5. Analysis(t)' /\ Exact(t)'
  BY <1>1, <1>3, <1>4 DEF Analysis, SocialJob, Exact
<1>6. ASSUME NEW h \in Hours, Counted(h) \/ Waits(h) \/ Due(t, h)
      PROVE  Counted(h)' \/ Waits(h)' \/ Due(t, h)'
  <2>1. Counted(h) => Counted(h)'
    BY <1>1, SamePosts DEF Counted
  <2>2. Waits(h) => Waits(h)' \/ h \in HoursOf(job.posts)
    BY <1>3 DEF Waits
  <2>3. h \in HoursOf(job.posts) => Due(t, h)'
    BY <1>4 DEF Due
  <2>4. QED BY <1>1, <1>6, <2>1, <2>2, <2>3, IdleFacts
<1>7. QED BY <1>1, <1>3, <1>4, <1>5, <1>6, TaskMoves

\* A step within an analysis: nothing else changes but the window, perhaps.
LEMMA WithinTask ==
    ASSUME HourInv, NEW t \in Analyses, task[t] # IdleTask, DOMAIN task' = Analyses,
           \A u \in Analyses \ {t} : task'[u] = task[u], UNCHANGED <<post, broker, jobs, dead>>,
           DOMAIN window' = Hours, UNCHANGED feed, Analysis(t)', Exact(t)',
           \A h \in Hours : broker /\ Complete(h) /\ (Counted(h) \/ Due(t, h)) => Counted(h)' \/ Due(t, h)'
    PROVE  HourInv'
<1>1. \A h \in Hours : Complete(h)' => Complete(h)
  BY SamePosts DEF Complete
<1>2. \A h : Waits(h) => Waits(h)'
  BY DEF Waits
<1>3. broker => \A u \in Analyses \ {t} : task[u] = IdleTask
  BY DEF HourInv, OneAnalysis
<1>4. \A h \in Hours : broker /\ Complete(h)' /\ (Counted(h) \/ Waits(h) \/ Due(t, h)) =>
               Counted(h)' \/ Waits(h)' \/ Due(t, h)'
  BY <1>1, <1>2
<1>5. /\ jobs' \in Seq(SocialJob) /\ \A job \in Range(jobs)' : \A p \in job.posts : post'[p] # "absent"
  BY DEF HourInv
<1>6. QED BY <1>3, <1>4, <1>5, TaskMoves

LEMMA ClassifyPostsInv ==
    ASSUME HourInv, NEW t \in Analyses, NEW answered, ClassifyPosts(t, answered) PROVE HourInv'
<1> USE DEF HourInv
<1>1. /\ UNCHANGED <<post, feed, broker, jobs, dead, window>> /\ task[t].step = "classify"
      /\ task[t] # IdleTask
  BY IdleFacts DEF ClassifyPosts
<1>2. PICK sentiment \in [answered -> Sentiments \cup {"UNKNOWN"}] :
          task' = [task EXCEPT ![t].step = "write",
              ![t].left = {<<p, IF p \in answered THEN sentiment[p] ELSE "UNKNOWN">> :
                               p \in task[t].posts}]
  BY DEF ClassifyPosts
<1> DEFINE left == {<<p, IF p \in answered THEN sentiment[p] ELSE "UNKNOWN">> : p \in task[t].posts}
<1>3. \A w \in left : w[1] \in task[t].posts /\ w[2] # "absent"
  BY PostsAndHours
<1>4. task' = [task EXCEPT ![t].step = "write", ![t].left = left]
  BY <1>2
<1> HIDE DEF left
<1>5. DOMAIN task[t] = DOMAIN IdleTask /\ Analysis(t)
  BY <1>1 DEF Analysis
<1>6. /\ DOMAIN task' = Analyses /\ \A u \in Analyses \ {t} : task'[u] = task[u]
      /\ DOMAIN task'[t] = DOMAIN IdleTask /\ task'[t].posts = task[t].posts
      /\ task'[t].step = "write" /\ task'[t].left = left /\ task'[t].again = task[t].again
  BY <1>4, <1>5 DEF IdleTask
<1>7. Analysis(t)' /\ Exact(t)'
  BY <1>1, <1>3, <1>5, <1>6 DEF Analysis, Exact
<1>8. \A h \in Hours : Counted(h) \/ Due(t, h) => Counted(h)' \/ Due(t, h)'
  <2>1. \A h : Counted(h) => Counted(h)'
    BY <1>1, SamePosts DEF Counted
  <2>2. \A h : Due(t, h) => Due(t, h)'
    BY <1>1, <1>6 DEF Due
  <2>3. QED BY <2>1, <2>2
<1>9. QED BY <1>1, <1>6, <1>7, <1>8, WithinTask

LEMMA CountHourInv == ASSUME HourInv, NEW t \in Analyses, CountHour(t) PROVE HourInv'
<1> USE DEF HourInv
<1>1. /\ UNCHANGED <<post, feed, broker, jobs, dead, window>> /\ task[t].step = "count"
      /\ task[t] # IdleTask
  BY IdleFacts DEF CountHour
<1>2. PICK h \in task[t].hours :
          task' = [task EXCEPT ![t].step = "store", ![t].left = {h}, ![t].counted = CountsOf(h)]
  BY DEF CountHour
<1>3. DOMAIN task[t] = DOMAIN IdleTask /\ Analysis(t) /\ task[t].hours \subseteq HoursOf(task[t].posts)
  BY <1>1 DEF Analysis
<1>4. PICK counts : counts = CountsOf(h)
  OBVIOUS
<1>5. /\ DOMAIN task' = Analyses /\ \A u \in Analyses \ {t} : task'[u] = task[u]
      /\ DOMAIN task'[t] = DOMAIN IdleTask /\ task'[t].posts = task[t].posts
      /\ task'[t].step = "store" /\ task'[t].left = {h} /\ task'[t].again = task[t].again
      /\ task'[t].hours = task[t].hours /\ task'[t].counted = counts
  BY <1>2, <1>3, <1>4 DEF IdleTask
<1>6. Analysis(t)'
  BY <1>1, <1>2, <1>3, <1>5 DEF Analysis
<1>7. Exact(t)'
  BY <1>1, <1>4, <1>5, SamePosts DEF Exact
<1>8. \A o \in Hours : Counted(o) \/ Due(t, o) => Counted(o)' \/ Due(t, o)'
  <2>1. \A o : Counted(o) => Counted(o)'
    BY <1>1, SamePosts DEF Counted
  <2>2. \A o : Due(t, o) => Due(t, o)'
    BY <1>1, <1>5 DEF Due
  <2>3. QED BY <2>1, <2>2
<1>9. QED BY <1>1, <1>5, <1>6, <1>7, <1>8, WithinTask

LEMMA StoreHourInv == ASSUME HourInv, NEW t \in Analyses, StoreHour(t) PROVE HourInv'
<1> USE DEF HourInv
<1>1. /\ UNCHANGED <<post, feed, broker, jobs, dead>> /\ task[t].step = "store"
      /\ task[t] # IdleTask
  BY IdleFacts DEF StoreHour
<1>2. /\ DOMAIN task[t] = DOMAIN IdleTask /\ Analysis(t)
      /\ task[t].hours \subseteq HoursOf(task[t].posts)
      /\ \E h \in task[t].hours : task[t].left = {h}
  BY <1>1 DEF Analysis
<1>3. PICK h \in task[t].hours : task[t].left = {h}
  BY <1>2
<1>4. /\ window' = [window EXCEPT ![h] = [engine |-> "social", counts |-> task[t].counted]]
      /\ task' = [task EXCEPT ![t] =
                 IF task[t].hours = {h} THEN IdleTask
                 ELSE [@ EXCEPT !.step = "count", !.hours = task[t].hours \ {h}, !.left = {},
                                !.counted = {}]]
  BY <1>3 DEF StoreHour
<1>5. DOMAIN task' = Analyses /\ \A u \in Analyses \ {t} : task'[u] = task[u]
  BY <1>4
<1>6. \/ task'[t] = IdleTask /\ task[t].hours = {h}
      \/ /\ DOMAIN task'[t] = DOMAIN IdleTask /\ task'[t].posts = task[t].posts
         /\ task'[t].step = "count" /\ task'[t].again = task[t].again
         /\ task'[t].hours = task[t].hours \ {h}
  BY <1>2, <1>4 DEF IdleTask
<1>7. Analysis(t)' /\ Exact(t)'
  BY <1>1, <1>2, <1>6 DEF Analysis, Exact, IdleTask
<1>8. DOMAIN window' = Hours /\ \A o \in Hours \ {h} : window'[o] = window[o]
  BY <1>4
<1>9. ASSUME broker, NEW o \in Hours, Complete(o), Counted(o) \/ Due(t, o) PROVE Counted(o)' \/ Due(t, o)'
  <2>1. CASE o # h /\ Counted(o)
    BY <1>1, <1>8, <2>1, SamePosts DEF Counted
  <2>2. CASE o # h /\ Due(t, o)
    <3>1. o \in task[t].hours
      BY <1>1, <2>2 DEF Due
    <3>2. QED BY <1>6, <2>2, <3>1 DEF Due
  <2>3. CASE o = h
    <3>1. window'[h] = [engine |-> "social", counts |-> task[t].counted]
      BY <1>4, <2>3
    <3>2. task[t].counted = CountsOf(h)
      BY <1>1, <1>3, <1>9, <2>3 DEF Exact
    <3>3. window'[h].counts = CountsOf(h)'
      BY <1>1, <3>1, <3>2, SamePosts
    <3>4. QED BY <2>3, <3>3 DEF Counted
  <2>4. QED BY <1>9, <2>1, <2>2, <2>3
<1>10. QED BY <1>1, <1>5, <1>7, <1>8, <1>9, WithinTask

LEMMA WritePostInv == ASSUME HourInv, NEW t \in Analyses, WritePost(t) PROVE HourInv'
<1> USE DEF HourInv
<1>1. /\ UNCHANGED <<feed, broker, jobs, dead, window>> /\ task[t].step = "write"
      /\ task[t] # IdleTask
  BY IdleFacts DEF WritePost
<1>2. /\ DOMAIN task[t] = DOMAIN IdleTask /\ Analysis(t) /\ task[t].posts \subseteq Posts
      /\ \A w \in task[t].left : w[1] \in task[t].posts /\ w[2] # "absent"
  BY <1>1 DEF Analysis
<1>3. PICK w \in task[t].left :
          /\ post' = [post EXCEPT ![w[1]] = w[2]]
          /\ task' = [task EXCEPT ![t].left = @ \ {w},
                 ![t].step = IF task[t].left = {w} THEN "count" ELSE "write",
                 ![t].hours = {PostedAt[p] : p \in task[t].posts}]
  BY DEF WritePost
<1>4. PICK hours : hours = HoursOf(task[t].posts)
  OBVIOUS
<1>5. task' = [task EXCEPT ![t].left = @ \ {w},
                 ![t].step = IF task[t].left = {w} THEN "count" ELSE "write",
                 ![t].hours = hours]
  BY <1>3, <1>4 DEF HoursOf
<1>6. /\ DOMAIN task' = Analyses /\ \A u \in Analyses \ {t} : task'[u] = task[u]
      /\ DOMAIN task'[t] = DOMAIN IdleTask /\ task'[t].posts = task[t].posts
      /\ task'[t].step \in {"write", "count"} /\ task'[t].left \subseteq task[t].left
      /\ task'[t].again = task[t].again /\ task'[t].hours = hours
  BY <1>2, <1>5 DEF IdleTask
<1>7. /\ w[1] \in Posts /\ w[1] \in task[t].posts /\ w[2] # "absent" /\ DOMAIN post' = Posts
      /\ \A p \in Posts : post[p] # "absent" => post'[p] # "absent"
      /\ \A p \in Posts \ {w[1]} : post'[p] = post[p]
  BY <1>2, <1>3
<1>8. \A u \in Analyses : Analysis(u)'
  <2>1. Analysis(t)'
    <3>1. \A p \in task'[t].posts : post'[p] # "absent"
      BY <1>1, <1>2, <1>6, <1>7 DEF Analysis
    <3>2. task[t].again \in BOOLEAN
      BY <1>1 DEF Analysis
    <3>3. CASE task'[t].step = "write"
      BY <1>2, <1>6, <3>1, <3>2, <3>3 DEF Analysis
    <3>4. CASE task'[t].step = "count"
      BY <1>2, <1>4, <1>6, <3>1, <3>2, <3>4 DEF Analysis
    <3>5. QED BY <1>6, <3>3, <3>4
  <2>2. ASSUME NEW u \in Analyses \ {t} PROVE Analysis(u)'
    <3>1. Analysis(u) /\ task'[u] = task[u]
      BY <1>6
    <3>2. task[u].posts \subseteq Posts => \A p \in task[u].posts : post[p] # "absent" => post'[p] # "absent"
      BY <1>7
    <3>3. QED BY <3>1, <3>2 DEF Analysis
  <2>3. QED BY <2>1, <2>2
<1>9. \A job \in Range(jobs)' : \A p \in job.posts : post'[p] # "absent"
  <2>1. ASSUME NEW job \in Range(jobs), NEW p \in job.posts PROVE p \in Posts /\ post[p] # "absent"
    BY <2>1, QueuedJobs DEF SocialJob
  <2>2. QED BY <1>1, <1>7, <2>1
<1>10. broker => OneAnalysis' /\ \A u \in Analyses : Exact(u)'
  BY <1>1, <1>6, IdleFacts DEF OneAnalysis, Exact
<1>11. ASSUME NEW h \in Hours, broker, Complete(h)' PROVE Accounted(h)'
  <2>1. CASE h \in HoursOf(task[t].posts)
    <3>1. Due(t, h)'
      BY <1>4, <1>6, <2>1 DEF Due
    <3>2. QED BY <3>1 DEF Accounted
  <2>2. CASE h \notin HoursOf(task[t].posts)
    <3>1. PostedAt[w[1]] # h
      BY <1>7, <2>2 DEF HoursOf
    <3>2. Stored(h)' = Stored(h) /\ \A p \in Stored(h) : post'[p] = post[p]
      BY <1>7, <3>1 DEF Stored
    <3>3. CountsOf(h)' = CountsOf(h)
      <4>1. \A S : {p \in Stored(h)' : post'[p] \in S} = {p \in Stored(h) : post[p] \in S}
        BY <3>2
      <4>2. QED BY <3>2, <4>1 DEF CountsOf
    <3>4. Complete(h)
      BY <1>1, <1>11, <3>2 DEF Complete, Analysed
    <3>5. Accounted(h) /\ ~Due(t, h)
      BY <1>1, <1>11, <2>2, <3>4 DEF Due
    <3>6. Counted(h) => Counted(h)'
      BY <1>1, <3>3 DEF Counted
    <3>7. \A u \in Analyses \ {t} : Due(u, h) => Due(u, h)'
      BY <1>6 DEF Due
    <3>8. Waits(h) => Waits(h)'
      BY <1>1 DEF Waits
    <3>9. QED BY <3>5, <3>6, <3>7, <3>8 DEF Accounted
  <2>3. QED BY <2>1, <2>2
<1>12. QED BY <1>1, <1>6, <1>7, <1>8, <1>9, <1>10, <1>11

LEMMA BackInQueue ==
    ASSUME HourInv, NEW t \in Analyses, task[t] # IdleTask
    PROVE  /\ Redelivered(t) \in SocialJob /\ \A p \in Redelivered(t).posts : post[p] # "absent"
           /\ \A h : Due(t, h) => h \in HoursOf(Redelivered(t).posts)
<1>1. Analysis(t)
  BY DEF HourInv
<1>2. Redelivered(t) \in SocialJob /\ Redelivered(t).posts = task[t].posts
  BY <1>1 DEF Analysis, Redelivered, SocialJob
<1>3. QED BY <1>1, <1>2 DEF Analysis, Due

LEMMA AnalysisFailsInv == ASSUME HourInv, NEW t \in Analyses, AnalysisFails(t) PROVE HourInv'
<1> USE DEF HourInv
<1>1. /\ UNCHANGED <<post, feed, broker, window>> /\ task[t] # IdleTask
      /\ task' = [task EXCEPT ![t] = IdleTask]
      /\ dead \subseteq dead' /\ (broker /\ task[t].again => task[t].posts \subseteq dead')
  BY DEF AnalysisFails
<1>2. PICK job \in SocialJob : job = Redelivered(t)
  BY <1>1, BackInQueue
<1>3. jobs' = IF broker /\ ~task[t].again THEN <<job>> \o jobs ELSE jobs
  BY <1>2 DEF AnalysisFails
<1>4. /\ DOMAIN task' = Analyses /\ task'[t] = IdleTask
      /\ \A u \in Analyses \ {t} : task'[u] = task[u]
  BY <1>1
<1>5. Analysis(t)' /\ Exact(t)'
  BY <1>4 DEF Analysis, Exact, IdleTask
<1>6. CASE broker /\ ~task[t].again
  <2>1. jobs' = <<job>> \o jobs
    BY <1>3, <1>6
  <2>2. /\ jobs' \in Seq(SocialJob) /\ \A j \in Range(jobs)' : \A p \in j.posts : post'[p] # "absent"
        /\ \A h : Waits(h) => Waits(h)'
        /\ \A h \in HoursOf(job.posts) : Waits(h)'
    BY <1>1, <1>2, <2>1, BackInQueue, JobPut
  <2>3. \A h \in Hours : Due(t, h) => Waits(h)'
    BY <1>1, <1>2, <2>2, BackInQueue
  <2>4. \A h : Counted(h) => Counted(h)'
    BY <1>1, SamePosts DEF Counted
  <2>5. QED BY <1>1, <1>4, <1>5, <2>2, <2>3, <2>4, TaskMoves
<1>7. CASE ~(broker /\ ~task[t].again)
  <2>1. UNCHANGED jobs
    BY <1>3, <1>7
  <2>2. /\ \A h : Waits(h) => Waits(h)'
        /\ jobs' \in Seq(SocialJob) /\ \A j \in Range(jobs)' : \A p \in j.posts : post'[p] # "absent"
    BY <1>1, <2>1 DEF Waits
  <2>3. \A h : Counted(h) => Counted(h)'
    BY <1>1, SamePosts DEF Counted
  <2>4. ASSUME NEW h \in Hours, broker, Complete(h)', Due(t, h) PROVE FALSE
    <3>1. task[t].posts \subseteq dead'
      BY <1>1, <1>7, <2>4 DEF Analysis
    <3>2. PICK p \in task[t].posts : PostedAt[p] = h
      BY <1>1, <2>4, BackInQueue DEF HoursOf, Redelivered
    <3>3. p \in Posts /\ post[p] # "absent"
      BY <1>1 DEF Analysis
    <3>4. p \in Stored(h)'
      BY <1>1, <3>2, <3>3 DEF Stored
    <3>5. QED BY <2>4, <3>1, <3>4 DEF Complete
  <2>5. QED BY <1>1, <1>4, <1>5, <2>2, <2>3, <2>4, TaskMoves
<1>8. QED BY <1>6, <1>7

LEMMA SocialRestartsInv == ASSUME HourInv, SocialRestarts PROVE HourInv'
<1> USE DEF HourInv
<1> DEFINE held == {t \in Analyses : task[t] # IdleTask}
<1>1. /\ UNCHANGED <<post, broker, dead, window>> /\ feed' = {}
      /\ DOMAIN task' = Analyses /\ \A t \in Analyses : task'[t] = IdleTask
      /\ jobs' = IF broker /\ held # {} THEN <<Redelivered(CHOOSE t \in held : TRUE)>> \o jobs ELSE jobs
  BY DEF SocialRestarts
<1>2. (\A t \in Analyses : Analysis(t)' /\ Exact(t)') /\ OneAnalysis'
  BY <1>1 DEF Analysis, Exact, OneAnalysis, IdleTask
<1>3. /\ jobs' \in Seq(SocialJob) /\ \A j \in Range(jobs)' : \A p \in j.posts : post'[p] # "absent"
      /\ \A h \in Hours : Waits(h) => Waits(h)'
      /\ broker => \A h \in Hours, t \in Analyses : Due(t, h) => Waits(h)'
  <2>1. CASE broker /\ held # {}
    <3>1. PICK t \in Analyses : task[t] # IdleTask /\ t = CHOOSE u \in held : TRUE
      BY <2>1
    <3>2. PICK job \in SocialJob : job = Redelivered(t)
      BY <3>1, BackInQueue
    <3>3. jobs' = <<job>> \o jobs
      BY <1>1, <2>1, <3>1, <3>2
    <3>4. /\ jobs' \in Seq(SocialJob) /\ \A j \in Range(jobs)' : \A p \in j.posts : post'[p] # "absent"
          /\ \A h : Waits(h) => Waits(h)'
          /\ \A h \in HoursOf(job.posts) : Waits(h)'
      BY <1>1, <3>1, <3>2, <3>3, BackInQueue, JobPut
    <3>5. \A u \in Analyses \ {t} : task[u] = IdleTask
      BY <2>1, <3>1 DEF OneAnalysis
    <3>6. \A h \in Hours, u \in Analyses : Due(u, h) => Waits(h)'
      BY <3>1, <3>2, <3>4, <3>5, BackInQueue, IdleFacts
    <3>7. QED BY <3>4, <3>6
  <2>2. CASE ~(broker /\ held # {})
    <3>1. UNCHANGED jobs
      BY <1>1, <2>2
    <3>2. broker => \A t \in Analyses : task[t] = IdleTask
      BY <2>2
    <3>3. QED BY <1>1, <3>1, <3>2, IdleFacts DEF Waits
  <2>3. QED BY <2>1, <2>2
<1>4. ASSUME NEW h \in Hours, broker, Complete(h)' PROVE Accounted(h)'
  <2>1. Complete(h)
    BY <1>1, <1>4, SamePosts DEF Complete
  <2>2. Counted(h) => Counted(h)'
    BY <1>1, SamePosts DEF Counted
  <2>3. QED BY <1>3, <1>4, <2>1, <2>2 DEF Accounted
<1>5. QED BY <1>1, <1>2, <1>3, <1>4

LEMMA SyncCampaignInv == ASSUME HourInv, SyncCampaign PROVE HourInv'
<1>1. /\ UNCHANGED <<post, feed, broker, jobs, dead, task>> /\ DOMAIN window' = Hours
      /\ \A h \in Hours : window'[h] = window[h] \/ window'[h].engine = "pulseforge"
  BY DEF SyncCampaign, postVars, HourInv
<1>2. QED BY <1>1, SameHours

LEMMA HourNextInv == ASSUME HourInv, [SocialNext]_socialVars PROVE HourInv'
<1>1. CASE UNCHANGED <<postVars, window>>
  BY <1>1, SameHours DEF postVars, HourInv
<1>2. ASSUME NEW a, Toggle(a) PROVE HourInv'
  BY <1>2, SameHours DEF Toggle, HourInv
<1>3. CASE Sync \/ Tick
  BY <1>1, <1>3, SyncCampaignInv DEF Sync, Pull, SyncStates, SyncLgas, Tick
<1>4. ASSUME NEW t \in Analyses, TaskStep(t) \/ AnalysisFails(t) PROVE HourInv'
  BY <1>4, ConsumeJobInv, WritePostInv, CountHourInv, StoreHourInv, ClassifyPostsInv, AnalysisFailsInv
     DEF TaskStep
<1>5. CASE UNCHANGED socialVars
  BY <1>1, <1>5 DEF socialVars, postVars
<1>6. QED BY <1>2, <1>3, <1>4, <1>5, IngestInv, QueueInv, SocialRestartsInv DEF SocialNext

\* Once the queue is empty the hours whose posts are all analysed are counted to the last
\* post (social-analyze.worker, rebuildSnapshots), for any number of posts, batches, repeated
\* jobs and restarts: the channel hands out one message at a time, so that no count is
\* overtaken by an older one.
THEOREM SocialHoursAreCounted == SocialSpec => []HoursAreCounted
<1>1. HourInv => HoursAreCounted
  <2>1. SUFFICES ASSUME HourInv, broker, jobs = <<>>, \A t \in Analyses : task[t] = IdleTask,
                        NEW h \in Hours, Complete(h)
                 PROVE  Counted(h)
    BY DEF HoursAreCounted, Complete, Counted
  <2>2. Accounted(h)
    BY <2>1 DEF HourInv
  <2>3. ~Waits(h)
    BY <2>1 DEF Waits, Range
  <2>4. QED BY <2>1, <2>2, <2>3, IdleFacts DEF Accounted
<1>2. HourInv /\ [SocialNext]_socialVars => HourInv'
  BY HourNextInv
<1>3. QED BY <1>1, <1>2, HourInitInv, PTL DEF SocialSpec
============================================================================
