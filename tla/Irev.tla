--------------------------------- MODULE Irev ---------------------------------
(***************************************************************************)
(* Comparison with the official result sheets (modules/irev).              *)
(*                                                                         *)
(* The electoral commission's portal shows a scan of the sheet of each     *)
(* polling unit, and may replace or withdraw it.  Jobs of one queue fetch  *)
(* the list of a ward, keep a snapshot of every unit's scan and of what    *)
(* the vision model read on it, and compare that with the figures the      *)
(* agent submitted.  Timers look again at what is old, unread or awaited.  *)
(*                                                                         *)
(* One ward is modelled.  A scan is a model value and stands for its URL,  *)
(* its hash and the figures on it; a second copy of a job that is already  *)
(* queued is left out, since it would find what the first one finds.       *)
(***************************************************************************)
EXTENDS Naturals, Sequences, FiniteSets, SequencesExt

CONSTANTS
    PUs,          \* the polling units of the ward
    Docs,         \* scans the portal may show
    Eligible,     \* those on hosts that still serve scans
    Legible,      \* those the vision model can read
    Figures,      \* figures an agent may submit
    Reading,      \* the figures on each scan
    MaxAttempts,  \* MAX_ATTEMPTS of a job, 3 in the code
    Slots         \* jobs in progress at once

ASSUME Scans ==
    /\ Eligible \subseteq Docs
    /\ Legible \subseteq Eligible    \* a dead host serves nothing that could be read
    /\ Reading \in [Docs -> Figures]
    /\ MaxAttempts \in Nat \ {0}

NoDoc == "no scan"
Blank == "blank"      \* a sheet without votes: nothing to compare

ASSUME NotAScan == NoDoc \notin Docs /\ Blank \notin Figures

Extract == [of : Docs, legible : BOOLEAN]
NoExtract == [of |-> NoDoc, legible |-> FALSE]
NoPU == "no unit"

ASSUME WardHasUnits == IsFiniteSet(PUs) /\ NoPU \notin PUs

Snapshot == [doc : Docs \cup {NoDoc}, extract : Extract \cup {NoExtract},
             status : {"NONE", "FETCHED", "OCR_READY", "OCR_FAILED", "NOT_ON_IREV"}]
NoSnapshot == [doc |-> NoDoc, extract |-> NoExtract, status |-> "NONE"]

Waiting == {"PENDING", "IREV_MISSING"}    \* recommendation WAIT_IREV
Compared == {"MATCH", "MISMATCH"}
Verdict == [status : {"NONE", "UNREADABLE", "REPLACED"} \cup Waiting \cup Compared,
            doc : Docs \cup {NoDoc}, figures : Figures \cup {Blank}]
NoVerdict == [status |-> "NONE", doc |-> NoDoc, figures |-> Blank]
Pending == [NoVerdict EXCEPT !.status = "PENDING"]

Job == [kind : {"compare", "catalog", "ocr"}, pu : PUs \cup {NoPU},
        force : BOOLEAN, attempt : 1 .. MaxAttempts]
CompareJob(p, force) == [kind |-> "compare", pu |-> p, force |-> force, attempt |-> 1]
OcrJob(p) == [kind |-> "ocr", pu |-> p, force |-> FALSE, attempt |-> 1]
CatalogJob == [kind |-> "catalog", pu |-> NoPU, force |-> FALSE, attempt |-> 1]

VARIABLES
    portal,     \* the scan the portal shows of each unit
    agent,      \* the figures of each unit's result row, Blank without any
    sent,       \* units whose result has been submitted
    snap,       \* irevPuSnapshot of each unit
    revision,   \* what was read on the newest scan that was replaced
    verdict,    \* irevVerification of each unit's result row
    cataloged,  \* how long ago the ward was catalogued
    queue,      \* jobs waiting
    pc,         \* the next await of each job in progress
    at          \* its local variables

vars == <<portal, agent, sent, snap, revision, verdict, cataloged, queue, pc, at>>
outside == <<portal, agent, sent>>

NoWork == [job |-> CatalogJob, figures |-> Blank, seen |-> <<>>, before |-> <<>>,
           left |-> {}, pu |-> NoPU, doc |-> NoDoc, extract |-> NoExtract,
           replaced |-> FALSE, cached |-> FALSE]

Steps == {"idle", "fetch", "rows", "row", "snapshot", "read", "judge",
          "ocr", "ocrLive", "ocrRead"}

Init ==
    /\ portal = [p \in PUs |-> NoDoc]
    /\ agent = [p \in PUs |-> Blank]
    /\ sent = {}
    /\ snap = [p \in PUs |-> NoSnapshot]
    /\ revision = [p \in PUs |-> NoExtract]
    /\ verdict = [p \in PUs |-> NoVerdict]
    /\ cataloged = "never"
    /\ queue = <<>>
    /\ pc = [w \in Slots |-> "idle"]
    /\ at = [w \in Slots |-> NoWork]

Goto(w, step, q) ==
    /\ pc' = [pc EXCEPT ![w] = step]
    /\ at' = [at EXCEPT ![w] = q]

Finish(w) == Goto(w, "idle", NoWork)

Queued(jobs) == queue \o SetToSeq(jobs \ ToSet(queue))

-----------------------------------------------------------------------------
(* The portal, the agents and the operators.                               *)

Publish(p, d) ==
    /\ portal' = [portal EXCEPT ![p] = d]
    /\ UNCHANGED <<agent, sent, snap, revision, verdict, cataloged, queue, pc, at>>

\* An agent submits a result; the event is answered by a job of its own.
Submit(p, f) ==
    /\ agent' = [agent EXCEPT ![p] = f]
    /\ sent' = sent \cup {p}
    /\ queue' = Queued({CompareJob(p, FALSE)})
    /\ UNCHANGED <<portal, snap, revision, verdict, cataloged, pc, at>>

\* An operator asks for a fresh comparison of a result ...
Refresh(p) ==
    /\ p \in sent
    /\ queue' = Queued({CompareJob(p, TRUE)})
    /\ UNCHANGED <<outside, snap, revision, verdict, cataloged, pc, at>>

\* ... or of all that have none yet, and of the ward's catalog.
RefreshPending ==
    /\ queue' = Queued({CatalogJob} \cup
           {CompareJob(p, verdict[p].status = "PENDING") :
               p \in {u \in sent : verdict[u].status \in {"NONE"} \cup Waiting}})
    /\ UNCHANGED <<outside, snap, revision, verdict, cataloged, pc, at>>

-----------------------------------------------------------------------------
(* The timers.                                                             *)

\* (Mutant: a ward that was catalogued once is not looked at again.)
CatalogDueOnce == cataloged = "never"

CatalogDue == cataloged # "fresh"

CatalogTick ==
    /\ CatalogDue
    /\ queue' = Queued({CatalogJob})
    /\ UNCHANGED <<outside, snap, revision, verdict, cataloged, pc, at>>

CatalogAges ==
    /\ cataloged = "fresh"
    /\ cataloged' = "stale"
    /\ UNCHANGED <<outside, snap, revision, verdict, queue, pc, at>>

\* Scans nobody could read yet.
Unread == {p \in PUs : snap[p].doc # NoDoc /\ snap[p].status \in {"FETCHED", "OCR_FAILED"}}

BackfillTick ==
    /\ queue' = Queued({OcrJob(p) : p \in Unread})
    /\ UNCHANGED <<outside, snap, revision, verdict, cataloged, pc, at>>

\* (Mutant: only rows the portal had nothing for are asked about again.)
AwaitedMissingOnly == {p \in sent : verdict[p].status = "IREV_MISSING"}

Awaited == {p \in sent : verdict[p].status \in Waiting}

WaitTick ==
    /\ queue' = Queued({CompareJob(p, FALSE) : p \in Awaited})
    /\ UNCHANGED <<outside, snap, revision, verdict, cataloged, pc, at>>
-----------------------------------------------------------------------------
(* One job.                                                                *)

Take(w) ==
    /\ pc[w] = "idle" /\ queue # <<>>
    /\ queue' = Tail(queue)
    /\ LET job == Head(queue)
           q == [NoWork EXCEPT !.job = job, !.pu = job.pu]
       IN CASE job.kind = "ocr" -> Goto(w, "ocr", [q EXCEPT !.left = {job.pu}])
            [] job.kind = "compare" -> Goto(w, "fetch", [q EXCEPT !.figures = agent[job.pu]])
            [] OTHER -> Goto(w, "fetch", q)
    /\ UNCHANGED <<outside, snap, revision, verdict, cataloged>>

\* The ward's list from the portal, once the rate limiter lets the job pass.
FetchWard(w) ==
    /\ pc[w] = "fetch"
    /\ Goto(w, "rows", [at[w] EXCEPT !.seen = portal])
    /\ UNCHANGED <<outside, snap, revision, verdict, cataloged, queue>>

Retried(job) ==
    IF job.attempt < MaxAttempts THEN Queued({[job EXCEPT !.attempt = @ + 1]}) ELSE queue

\* No slot in time: the job is put back after a while, a few times.
Limited(w) ==
    /\ pc[w] = "fetch" \/ (pc[w] = "ocr" /\ at[w].job.kind = "ocr")
    /\ queue' = Retried(at[w].job)
    /\ Finish(w)
    /\ UNCHANGED <<outside, snap, revision, verdict, cataloged>>

\* The ward cannot be found on the portal, or its list comes back empty.
PortalFails(w) ==
    /\ pc[w] = "fetch"
    /\ verdict' = IF at[w].job.kind = "compare"
                  THEN [verdict EXCEPT ![at[w].pu] = Pending] ELSE verdict
    /\ Finish(w)
    /\ UNCHANGED <<outside, snap, revision, cataloged, queue>>

\* persistWardCatalog reads the ward's snapshots at once and rewrites them in turn.
ReadRows(w) ==
    /\ pc[w] = "rows"
    /\ Goto(w, "row", [at[w] EXCEPT !.before = snap, !.left = PUs])
    /\ UNCHANGED <<outside, snap, revision, verdict, cataloged, queue>>

Substituted(old, doc) ==
    old.extract # NoExtract /\ old.doc # NoDoc /\ doc # NoDoc /\ old.doc # doc

\* (Mutant: what was read on the scan before stays on the row of the new one.)
CatalogedKeeping(old, current, doc) ==
    [doc |-> doc, extract |-> current.extract,
     status |-> IF doc = NoDoc THEN "NOT_ON_IREV"
                ELSE IF old.status = "OCR_READY" THEN "OCR_READY" ELSE "FETCHED"]

\* The row of a unit the portal shows doc for, old when the list was read.
Cataloged(old, current, doc) ==
    LET same == doc # NoDoc /\ old.doc = doc
    IN [doc |-> doc, extract |-> IF same THEN current.extract ELSE NoExtract,
        status |-> IF doc = NoDoc THEN "NOT_ON_IREV"
                   ELSE IF same /\ old.status = "OCR_READY" THEN "OCR_READY" ELSE "FETCHED"]

CatalogRow(w, p) ==
    /\ pc[w] = "row" /\ p \in at[w].left
    /\ LET old == at[w].before[p]
           doc == at[w].seen[p]
       IN /\ snap' = [snap EXCEPT ![p] = Cataloged(old, @, doc)]
          /\ revision' = IF Substituted(old, doc)
                         THEN [revision EXCEPT ![p] = old.extract] ELSE revision
    /\ Goto(w, "row", [at[w] EXCEPT !.left = @ \ {p}])
    /\ UNCHANGED <<outside, verdict, cataloged, queue>>

\* A comparison goes on to its own unit, a catalog job to the scans of the
\* ward that nobody has read.
MarkCataloged(w) ==
    /\ pc[w] = "row" /\ at[w].left = {}
    /\ cataloged' = "fresh"
    /\ LET unread == {p \in PUs : snap[p].status = "FETCHED" /\ snap[p].doc \in Eligible}
       IN IF at[w].job.kind = "compare" THEN Goto(w, "snapshot", at[w])
          ELSE IF unread = {} THEN Finish(w)
          ELSE Goto(w, "ocr", [at[w] EXCEPT !.left = unread])
    /\ UNCHANGED <<outside, snap, revision, verdict, queue>>

-----------------------------------------------------------------------------
(* The comparison of one unit.                                             *)

\* What is to be compared: a reading that fits the scan, nothing where the
\* portal has nothing, otherwise the scan that has to be read first.
ReadSnapshot(w) ==
    /\ pc[w] = "snapshot"
    /\ LET p == at[w].pu
           doc == at[w].seen[p]
           old == snap[p]
           known == ~at[w].job.force /\ old.doc = doc /\ old.extract # NoExtract
           q == [at[w] EXCEPT !.doc = doc, !.extract = IF known THEN old.extract ELSE NoExtract,
                              !.replaced = revision[p] # NoExtract \/ Substituted(old, doc)]
       IN IF known /\ old.status = "OCR_READY"
          THEN Goto(w, "judge", [q EXCEPT !.cached = TRUE]) /\ UNCHANGED <<snap, revision>>
          ELSE IF doc = NoDoc
          THEN /\ snap' = [snap EXCEPT ![p].doc = NoDoc, ![p].status = "NOT_ON_IREV"]
               /\ Goto(w, "judge", q)
               /\ UNCHANGED revision
          ELSE /\ revision' = IF Substituted(old, doc)
                              THEN [revision EXCEPT ![p] = old.extract] ELSE revision
               /\ Goto(w, "read", q)
               /\ UNCHANGED snap
    /\ UNCHANGED <<outside, verdict, cataloged, queue>>

Read(doc, served) == [of |-> doc, legible |-> doc \in Legible /\ served]

Outcome(extract) == IF extract.legible THEN "OCR_READY" ELSE "OCR_FAILED"

\* The vision model answers (served: the scan could be fetched and the model
\* was there), and the snapshot is stored with what it read.
ReadScan(w, served) ==
    /\ pc[w] = "read"
    /\ at[w].extract # NoExtract => served
    /\ LET q == at[w]
           x == IF q.extract # NoExtract THEN q.extract ELSE Read(q.doc, served)
       IN /\ snap' = [snap EXCEPT ![q.pu] = [doc |-> q.doc, extract |-> x, status |-> Outcome(x)]]
          /\ Goto(w, "judge", [q EXCEPT !.extract = x])
    /\ UNCHANGED <<outside, revision, verdict, cataloged, queue>>

\* (Mutant: a sheet that agrees is aligned although another scan was read before.)
JudgedByLatest(q) ==
    IF q.figures = Blank /\ q.doc # NoDoc THEN Pending
    ELSE [doc |-> q.doc, figures |-> q.figures,
          status |-> IF q.doc = NoDoc THEN "IREV_MISSING"
                     ELSE IF ~q.extract.legible /\ ~q.cached THEN "UNREADABLE"
                     ELSE IF q.extract.legible /\ Reading[q.extract.of] = q.figures
                     THEN "MATCH" ELSE "MISMATCH"]

\* (Mutant: what could not be read on a scan counts as a difference.)
JudgedUnread(q) ==
    IF q.figures = Blank /\ q.doc # NoDoc THEN Pending
    ELSE [doc |-> q.doc, figures |-> q.figures,
          status |-> IF q.doc = NoDoc THEN "IREV_MISSING"
                     ELSE IF q.replaced THEN "REPLACED"
                     ELSE IF q.extract.legible /\ Reading[q.extract.of] = q.figures
                     THEN "MATCH" ELSE "MISMATCH"]

\* compareAgentToIrev, on the agent's figures as the job found them.
Judged(q) ==
    IF q.figures = Blank /\ q.doc # NoDoc THEN Pending
    ELSE [doc |-> q.doc, figures |-> q.figures,
          status |-> IF q.doc = NoDoc THEN "IREV_MISSING"
                     ELSE IF q.replaced THEN "REPLACED"
                     ELSE IF ~q.extract.legible /\ ~q.cached THEN "UNREADABLE"
                     ELSE IF q.extract.legible /\ Reading[q.extract.of] = q.figures
                     THEN "MATCH" ELSE "MISMATCH"]

Judge(w) ==
    /\ pc[w] = "judge"
    /\ verdict' = [verdict EXCEPT ![at[w].pu] = Judged(at[w])]
    /\ Finish(w)
    /\ UNCHANGED <<outside, snap, revision, cataloged, queue>>

-----------------------------------------------------------------------------
(* Reading scans nobody compares: an ocr job, or the end of a catalog job.  *)

DoneWith(w, p) ==
    IF at[w].left = {p} THEN Finish(w)
    ELSE Goto(w, "ocr", [at[w] EXCEPT !.left = @ \ {p}])

\* A scan on a dead host is looked up again, one that was read is left alone.
FindScan(w, p) ==
    /\ pc[w] = "ocr" /\ p \in at[w].left
    /\ LET q == [at[w] EXCEPT !.pu = p, !.doc = snap[p].doc]
       IN IF snap[p].doc = NoDoc THEN DoneWith(w, p)
          ELSE IF snap[p].doc \notin Eligible THEN Goto(w, "ocrLive", q)
          ELSE IF snap[p].status = "OCR_READY" /\ snap[p].extract # NoExtract THEN DoneWith(w, p)
          ELSE Goto(w, "ocrRead", q)
    /\ UNCHANGED <<outside, snap, revision, verdict, cataloged, queue>>

\* In a catalog job the scans the limiter holds up get jobs of their own.
LimitedScan(w, p) ==
    /\ pc[w] = "ocr" /\ p \in at[w].left /\ at[w].job.kind = "catalog"
    /\ queue' = Queued({OcrJob(p)})
    /\ DoneWith(w, p)
    /\ UNCHANGED <<outside, snap, revision, verdict, cataloged>>

\* refreshLiveDocumentUrl; served: the portal answered.
FindLiveScan(w, served) ==
    /\ pc[w] = "ocrLive"
    /\ LET p == at[w].pu
       IN IF served /\ portal[p] \in Eligible
          THEN /\ snap' = [snap EXCEPT ![p] = [doc |-> portal[p], extract |-> NoExtract,
                                              status |-> "FETCHED"]]
               /\ Goto(w, "ocrRead", [at[w] EXCEPT !.doc = portal[p]])
          ELSE DoneWith(w, p) /\ UNCHANGED snap
    /\ UNCHANGED <<outside, revision, verdict, cataloged, queue>>

StoreScan(w, served) ==
    /\ pc[w] = "ocrRead"
    /\ LET x == Read(at[w].doc, served)
       IN snap' = [snap EXCEPT ![at[w].pu] =
                      [doc |-> at[w].doc, extract |-> x, status |-> Outcome(x)]]
    /\ DoneWith(w, at[w].pu)
    /\ UNCHANGED <<outside, revision, verdict, cataloged, queue>>

-----------------------------------------------------------------------------
(* What can fail.                                                          *)

\* A job in progress ends with its process, or on an error; unless the broker
\* still holds it, it is gone.
Die(w) ==
    /\ pc[w] # "idle"
    /\ \/ UNCHANGED queue
       \/ queue' = Queued({at[w].job})
    /\ Finish(w)
    /\ UNCHANGED <<outside, snap, revision, verdict, cataloged>>

\* Jobs of the process itself (an agent's submission, a retry's timer) wait in
\* memory only.
Lose(i) ==
    /\ i \in DOMAIN queue
    /\ queue' = RemoveAt(queue, i)
    /\ UNCHANGED <<outside, snap, revision, verdict, cataloged, pc, at>>

-----------------------------------------------------------------------------
Environment ==
    \/ \E p \in PUs, d \in Docs \cup {NoDoc} : d # portal[p] /\ Publish(p, d)
    \/ \E p \in PUs, f \in Figures \cup {Blank} : Submit(p, f)
    \/ \E p \in PUs : Refresh(p)
    \/ RefreshPending

Timers == CatalogTick \/ CatalogAges \/ BackfillTick \/ WaitTick

Work(w) ==
    \/ Take(w) \/ FetchWard(w) \/ ReadRows(w)
    \/ \E p \in PUs : CatalogRow(w, p)
    \/ MarkCataloged(w) \/ ReadSnapshot(w) \/ ReadScan(w, TRUE) \/ Judge(w)
    \/ \E p \in PUs : FindScan(w, p)
    \/ FindLiveScan(w, TRUE) \/ StoreScan(w, TRUE)

Faults ==
    \/ \E w \in Slots :
        \/ Limited(w) \/ PortalFails(w) \/ ReadScan(w, FALSE)
        \/ \E p \in PUs : LimitedScan(w, p)
        \/ FindLiveScan(w, FALSE) \/ StoreScan(w, FALSE) \/ Die(w)
    \/ \E i \in DOMAIN queue : Lose(i)

Next == Environment \/ Timers \/ (\E w \in Slots : Work(w)) \/ Faults

Spec == Init /\ [][Next]_vars

\* The timers fire for ever, and a job in progress comes to its next await.
Fairness ==
    /\ WF_vars(CatalogTick) /\ WF_vars(CatalogAges)
    /\ WF_vars(BackfillTick) /\ WF_vars(WaitTick)
    /\ \A w \in Slots : WF_vars(Work(w))

-----------------------------------------------------------------------------
TypeOK ==
    /\ portal \in [PUs -> Docs \cup {NoDoc}]
    /\ agent \in [PUs -> Figures \cup {Blank}] /\ sent \subseteq PUs
    /\ snap \in [PUs -> Snapshot] /\ revision \in [PUs -> Extract \cup {NoExtract}]
    /\ verdict \in [PUs -> Verdict]
    /\ cataloged \in {"never", "fresh", "stale"}
    /\ queue \in Seq(Job) /\ pc \in [Slots -> Steps]
    /\ \A p \in PUs : p \notin sent => verdict[p] = NoVerdict

\* A snapshot that is ready holds what was read on the very scan it names: no
\* reading survives the replacement or the withdrawal of its scan.
ReadyIsRead ==
    \A p \in PUs : snap[p].status = "OCR_READY" =>
        snap[p].doc # NoDoc /\ snap[p].extract = [of |-> snap[p].doc, legible |-> TRUE]

\* A comparison is with the scan it names: the verdict agrees exactly when that
\* scan shows the figures compared, whatever was published meanwhile.
VerdictFits ==
    \A p \in PUs : verdict[p].status \in Compared =>
        (verdict[p].status = "MATCH") = (Reading[verdict[p].doc] = verdict[p].figures)

\* Once another scan of the unit was read and replaced, no comparison says that
\* agent and portal agree.
ReplacedStaysOpen ==
    [][\A p \in PUs :
          revision[p] # NoExtract /\ verdict'[p] # verdict[p] => verdict'[p].status \notin Compared]_vars

\* Every readable scan on the portal has been read.
AllRead ==
    \A p \in PUs : portal[p] \in Eligible \cap Legible =>
        snap[p] = [doc |-> portal[p], status |-> "OCR_READY",
                   extract |-> [of |-> portal[p], legible |-> TRUE]]

\* No comparable result waits although the portal has a scan.
NobodyWaits ==
    \A p \in PUs : portal[p] # NoDoc /\ agent[p] # Blank => verdict[p].status \notin Waiting

\* "IReV published a different scan after we already read one: investigate even
\* if the new sheet matches the agent".
ReplacementShown ==
    \A p \in PUs : revision[p] # NoExtract => verdict[p].status \notin Compared
=============================================================================
