------------------------------ MODULE Collation ------------------------------
(***************************************************************************)
(* The result collation service (modules/collation/collation.service.ts).  *)
(*                                                                         *)
(* Agents type the sheet of a polling unit, the ward officer approves it,  *)
(* and every approval or return recomputes ("rolls up") the rows of the    *)
(* ward, the LGA and the state above it.  No handler uses a database       *)
(* transaction: each awaited Prisma call is a step of its own here, every  *)
(* update is by row id without looking at the status again, and two        *)
(* handlers running at once interleave at their awaits.                    *)
(*                                                                         *)
(* Figures are abstract.  Where the code adds numbers the model keeps the  *)
(* addends: a tally is the set of sheets a row's numbers are the sum of,   *)
(* so two equal tallies are two equal totals, and a sheet added twice or   *)
(* left out is visible.  One campaign and one contest are modelled.        *)
(***************************************************************************)
EXTENDS Naturals, Sequences

CONSTANTS
    PUs, Wards, LGAs, States, Nations,  \* the units of each collation level
    Parent,                             \* the unit each unit reports into
    Figures,                            \* what an officer can type on a sheet
    Typed,                              \* units whose officers type figures
    Slots                               \* requests the API serves at once

Units == PUs \cup Wards \cup LGAs \cup States \cup Nations

ASSUME Geography ==
    /\ PUs \cap (Wards \cup LGAs \cup States \cup Nations) = {}
    /\ Wards \cap (LGAs \cup States \cup Nations) = {}
    /\ LGAs \cap (States \cup Nations) = {}
    /\ States \cap Nations = {}
    /\ DOMAIN Parent = PUs \cup Wards \cup LGAs
    /\ \A p \in PUs : Parent[p] \in Wards
    /\ \A w \in Wards : Parent[w] \in LGAs
    /\ \A l \in LGAs : Parent[l] \in States

\* Every level but the ward's may type its figures (upsertResult, submitResult);
\* a configuration may bound the set further.
ASSUME TypedLevels == Typed \subseteq Units \ Wards

Statuses == {"NONE", "DRAFT", "SUBMITTED", "APPROVED", "REJECTED"}
Editable == {"DRAFT", "REJECTED"}
Returnable == {"SUBMITTED", "APPROVED"}
Reviewers == {"WARD", "LGA", "STATE", "NATIONAL", "ADMIN"}

Sheet == [of : Units, fig : Figures]
SheetOf(u, f) == {[of |-> u, fig |-> f]}

Children(u) == {k \in DOMAIN Parent : Parent[k] = u}

\* (Mutant: a returned ward or LGA drops out of the totals above it.)
CountableApproved(u) == {"APPROVED"}

\* The child rows a rollup adds up: approved sheets below a ward, and every
\* row that is not a draft above it.
Countable(u) ==
    IF u \in Wards THEN {"APPROVED"} ELSE {"APPROVED", "REJECTED", "SUBMITTED"}

\* (Mutant: the state is recomputed before the LGA.)
PathStateFirst(u) ==
    CASE u \in PUs -> <<Parent[u], Parent[Parent[Parent[u]]], Parent[Parent[u]]>>
      [] u \in Wards -> <<u, Parent[Parent[u]], Parent[u]>>
      [] u \in LGAs -> <<u, Parent[u]>>
      [] OTHER -> <<>>

\* The rows publishAncestryRollups recomputes after a change to u.
Path(u) ==
    CASE u \in PUs -> <<Parent[u], Parent[Parent[u]], Parent[Parent[Parent[u]]]>>
      [] u \in Wards -> <<u, Parent[u], Parent[Parent[u]]>>
      [] u \in LGAs -> <<u, Parent[u]>>
      [] OTHER -> <<>>

\* Who may return a row for correction.
MayReturn(by, u) ==
    \/ by = "WARD" /\ u \in PUs
    \/ by = "LGA" /\ u \in PUs \cup Wards
    \/ by = "STATE" /\ u \in LGAs
    \/ by = "NATIONAL" /\ u \in States
    \/ by = "ADMIN"

\* The children a reviewer may mark as the ones to correct.
Markable(by, u) ==
    IF (by = "LGA" /\ u \in Wards) \/ (by = "STATE" /\ u \in LGAs)
    THEN Children(u) ELSE {}

VARIABLES
    status,   \* status of the row of each unit, "NONE" when there is no row
    tally,    \* the sheets the numbers of each row are the sum of
    form,     \* does the row hold an EC8A photo?
    flags,    \* flaggedPollingUnitIds of a ward row, flaggedWardIds of an LGA row
    lastLog,  \* toStatus of the newest action log of the row, comments aside
    pc,       \* the next await of each request
    req       \* what each request has in its local variables

vars == <<status, tally, form, flags, lastLog, pc, req>>
rows == <<status, tally, form, flags>>

Steps == {"idle", "save", "attach", "submit", "approve", "wardCheck", "return",
          "log", "marked", "kid", "kidLog", "children", "existing", "rollup",
          "reread", "flagged", "nextFlagged"}
Ops == {"none", "upsert", "attach", "submit", "approve", "return", "bulk",
        "resubmit"}
Modes == {"clear", "keep", "plain"}
NoUnit == "no unit"

Request ==
    [op : Ops, unit : Units \cup {NoUnit},
     seen : SUBSET Sheet,        \* the figures about to be written
     photo : BOOLEAN,            \* the photo list about to be written
     entry : Statuses,           \* the toStatus about to be logged
     marked : SUBSET Units,      \* children the reviewer asked to correct
     kids : SUBSET Units,        \* marked children still to be returned
     kid : Units \cup {NoUnit},  \* the one returned last, not logged yet
     rest : SUBSET Units,        \* units a bulk return has still to return
     climb : Seq(Units),         \* rows still to be rolled up
     mode : Modes,               \* clearRejection, keepRejected or neither
     found : BOOLEAN,            \* did the rollup read any child row?
     prev : Statuses, prevFlags : SUBSET Units]  \* the row it is to replace

Blank ==
    [op |-> "none", unit |-> NoUnit, seen |-> {}, photo |-> FALSE,
     entry |-> "NONE", marked |-> {}, kids |-> {}, kid |-> NoUnit, rest |-> {},
     climb |-> <<>>, mode |-> "plain", found |-> FALSE, prev |-> "NONE",
     prevFlags |-> {}]

Call(op, u) == [Blank EXCEPT !.op = op, !.unit = u]

Init ==
    /\ status = [u \in Units |-> "NONE"]
    /\ tally = [u \in Units |-> {}]
    /\ form = [u \in Units |-> FALSE]
    /\ flags = [u \in Units |-> {}]
    /\ lastLog = [u \in Units |-> "NONE"]
    /\ pc = [r \in Slots |-> "idle"]
    /\ req = [r \in Slots |-> Blank]

\* The request goes on to a step, with its locals as q.
Goto(r, step, q) ==
    /\ pc' = [pc EXCEPT ![r] = step]
    /\ req' = [req EXCEPT ![r] = q]

Finish(r) == Goto(r, "idle", Blank)

\* What follows the last rollup of a request.
AfterRollups(r, q) ==
    CASE q.op = "resubmit" -> Goto(r, "reread", q)
      [] q.op = "bulk" /\ q.rest # {} -> Goto(r, "nextFlagged", q)
      [] OTHER -> Finish(r)

\* publishAncestryRollups from q.unit, the first rollup in the given mode.
RollUp(r, q, mode) ==
    LET path == Path(q.unit)
    IN  IF path = <<>> THEN AfterRollups(r, q)
        ELSE Goto(r, "children", [q EXCEPT !.climb = path, !.mode = mode])

-----------------------------------------------------------------------------
(* upsertResult: an officer saves figures as a draft.  The photos are the   *)
(* ones of the body or, when it names none, the ones read before the write. *)

StartUpsert(r, u, f, keepsPhotos, photo) ==
    /\ pc[r] = "idle"
    /\ u \in Typed
    /\ status[u] \in {"NONE"} \cup Editable
    /\ u \notin PUs => photo = FALSE
    /\ keepsPhotos => photo = form[u]
    /\ Goto(r, "save", [Call("upsert", u) EXCEPT !.seen = SheetOf(u, f),
                                                 !.photo = photo])
    /\ UNCHANGED <<rows, lastLog>>

Save(r) ==
    LET u == req[r].unit
    IN  /\ pc[r] = "save"
        /\ status' = [status EXCEPT ![u] = "DRAFT"]
        /\ tally' = [tally EXCEPT ![u] = req[r].seen]
        /\ form' = [form EXCEPT ![u] = req[r].photo]
        /\ Finish(r)
        /\ UNCHANGED <<flags, lastLog>>

(* attachEc8aPhoto: one more photo on an editable sheet.                    *)

StartAttach(r, p) ==
    /\ pc[r] = "idle"
    /\ p \in PUs \cap Typed
    /\ status[p] \in Editable
    /\ Goto(r, "attach", Call("attach", p))
    /\ UNCHANGED <<rows, lastLog>>

Attach(r) ==
    /\ pc[r] = "attach"
    /\ form' = [form EXCEPT ![req[r].unit] = TRUE]
    /\ Finish(r)
    /\ UNCHANGED <<status, tally, flags, lastLog>>

(* submitResult.                                                            *)

StartSubmit(r, u) ==
    /\ pc[r] = "idle"
    /\ u \in Typed
    /\ status[u] \in Editable
    /\ u \in PUs => form[u]
    /\ Goto(r, "submit", Call("submit", u))
    /\ UNCHANGED <<rows, lastLog>>

Submit(r) ==
    LET u == req[r].unit
    IN  /\ pc[r] = "submit"
        /\ status' = [status EXCEPT ![u] = "SUBMITTED"]
        /\ Goto(r, "log", [req[r] EXCEPT !.entry = "SUBMITTED"])
        /\ UNCHANGED <<tally, form, flags, lastLog>>

(* approveResult: the ward officer publishes a submitted sheet.             *)

\* (Mutant: anything that is not yet approved can be.)
StartApproveUnchecked(r, p) ==
    /\ pc[r] = "idle"
    /\ p \in PUs
    /\ status[p] \notin {"NONE", "APPROVED"}
    /\ Goto(r, "approve", Call("approve", p))
    /\ UNCHANGED <<rows, lastLog>>

StartApprove(r, p) ==
    /\ pc[r] = "idle"
    /\ p \in PUs
    /\ status[p] = "SUBMITTED"
    /\ Goto(r, "approve", Call("approve", p))
    /\ UNCHANGED <<rows, lastLog>>

Approve(r) ==
    LET p == req[r].unit
    IN  /\ pc[r] = "approve"
        /\ status' = [status EXCEPT ![p] = "APPROVED"]
        /\ flags' = [flags EXCEPT ![p] = {}]
        /\ Goto(r, "log", [req[r] EXCEPT !.entry = "APPROVED"])
        /\ UNCHANGED <<tally, form, lastLog>>

(* rejectResult and reopenCollationResult: a reviewer returns a row.        *)

\* The checks of rejectResult, up to its first read of another row.
BeginReturn(r, q, by) ==
    LET u == q.unit
    IN  Goto(r, IF by = "WARD" /\ status[u] = "APPROVED" THEN "wardCheck" ELSE "return", q)

StartReturn(r, u, by, marked) ==
    /\ pc[r] = "idle"
    /\ status[u] \in Returnable
    /\ MayReturn(by, u)
    /\ marked \subseteq Markable(by, u)
    /\ BeginReturn(r, [Call("return", u) EXCEPT !.marked = marked], by)
    /\ UNCHANGED <<rows, lastLog>>

\* isWardReturnedByLga: an approved sheet goes back only from a returned ward.
WardCheck(r) ==
    /\ pc[r] = "wardCheck"
    /\ IF status[Parent[req[r].unit]] = "REJECTED"
       THEN Goto(r, "return", req[r])
       ELSE Finish(r)
    /\ UNCHANGED <<rows, lastLog>>

Return(r) ==
    LET u == req[r].unit
    IN  /\ pc[r] = "return"
        /\ status' = [status EXCEPT ![u] = "REJECTED"]
        /\ flags' = IF req[r].marked = {} THEN flags
                    ELSE [flags EXCEPT ![u] = req[r].marked]
        /\ Goto(r, "log", [req[r] EXCEPT !.entry = "REJECTED"])
        /\ UNCHANGED <<tally, form, lastLog>>

ReturnRollups(r, q) ==
    RollUp(r, q, IF q.unit \in PUs THEN "plain" ELSE "keep")

\* autoReturnChildResults: the marked children that are submitted or approved
\* are returned with their parent, one after the other.
FindMarked(r) ==
    LET kids == {k \in req[r].marked : status[k] \in Returnable}
    IN  /\ pc[r] = "marked"
        /\ IF kids = {} THEN ReturnRollups(r, req[r])
           ELSE Goto(r, "kid", [req[r] EXCEPT !.kids = kids])
        /\ UNCHANGED <<rows, lastLog>>

ReturnKid(r, k) ==
    /\ pc[r] = "kid"
    /\ k \in req[r].kids
    /\ status' = [status EXCEPT ![k] = "REJECTED"]
    /\ Goto(r, "kidLog", [req[r] EXCEPT !.kids = @ \ {k}, !.kid = k])
    /\ UNCHANGED <<tally, form, flags, lastLog>>

\* (Mutant: children are returned without an action log.)
LogKidNot(r) ==
    LET q == [req[r] EXCEPT !.kid = NoUnit]
    IN  /\ pc[r] = "kidLog"
        /\ IF q.kids = {} THEN ReturnRollups(r, q) ELSE Goto(r, "kid", q)
        /\ UNCHANGED <<rows, lastLog>>

LogKid(r) ==
    LET q == [req[r] EXCEPT !.kid = NoUnit]
    IN  /\ pc[r] = "kidLog"
        /\ lastLog' = [lastLog EXCEPT ![req[r].kid] = "REJECTED"]
        /\ IF q.kids = {} THEN ReturnRollups(r, q) ELSE Goto(r, "kid", q)
        /\ UNCHANGED rows

-----------------------------------------------------------------------------
(* writeActionLog, and where each handler goes after it.                    *)

WriteLog(r) ==
    LET q == req[r]
    IN  /\ pc[r] = "log"
        /\ lastLog' = [lastLog EXCEPT ![q.unit] = q.entry]
        /\ CASE q.op = "approve" -> RollUp(r, q, "clear")
             [] q.op \in {"return", "bulk"} /\ q.marked # {} -> Goto(r, "marked", q)
             [] q.op \in {"return", "bulk"} /\ q.marked = {} -> ReturnRollups(r, q)
             [] OTHER -> Finish(r)
        /\ UNCHANGED rows

(* rollupToParent on the first row of the climb: read the children, read    *)
(* the row, write the row.                                                  *)

ReadChildren(r) ==
    LET u == Head(req[r].climb)
        counted == {k \in Children(u) : status[k] \in Countable(u)}
    IN  /\ pc[r] = "children"
        /\ Goto(r, "existing",
                [req[r] EXCEPT !.seen = UNION {tally[k] : k \in counted},
                               !.found = (counted # {})])
        /\ UNCHANGED <<rows, lastLog>>

\* (Mutant: only the first row of the climb is rolled up.)
NextRollupStops(r, q) == AfterRollups(r, [q EXCEPT !.climb = <<>>, !.seen = {}])

\* (Mutant: the options of the first rollup apply to the whole climb.)
NextRollupSameMode(r, q) ==
    LET n == [q EXCEPT !.climb = Tail(@), !.seen = {}, !.found = FALSE,
                       !.prev = "NONE", !.prevFlags = {}]
    IN  IF n.climb = <<>> THEN AfterRollups(r, n) ELSE Goto(r, "children", n)

\* The rest of the climb is rolled up with neither option.
NextRollup(r, q) ==
    LET n == [q EXCEPT !.climb = Tail(@), !.mode = "plain", !.seen = {},
                       !.found = FALSE, !.prev = "NONE", !.prevFlags = {}]
    IN  IF n.climb = <<>> THEN AfterRollups(r, n) ELSE Goto(r, "children", n)

ReadExisting(r) ==
    LET u == Head(req[r].climb)
    IN  /\ pc[r] = "existing"
        /\ IF ~req[r].found /\ status[u] = "NONE"
           THEN NextRollup(r, req[r])
           ELSE Goto(r, "rollup", [req[r] EXCEPT !.prev = status[u],
                                                 !.prevFlags = flags[u]])
        /\ UNCHANGED <<rows, lastLog>>

\* (Mutant: a rollup publishes the row even when it was returned.)
RollupStatusForgets(q) == IF q.mode = "keep" THEN "REJECTED" ELSE "APPROVED"

RollupStatus(q) ==
    IF q.mode = "keep" \/ (q.mode = "plain" /\ q.prev = "REJECTED")
    THEN "REJECTED" ELSE "APPROVED"

\* (Mutant: the marks survive republication.)
WriteRollupKeepsMarks(r) ==
    LET u == Head(req[r].climb)
    IN  /\ pc[r] = "rollup"
        /\ status' = [status EXCEPT ![u] = RollupStatus(req[r])]
        /\ tally' = [tally EXCEPT ![u] = req[r].seen]
        /\ NextRollup(r, req[r])
        /\ UNCHANGED <<form, flags, lastLog>>

\* (Mutant: the children are added to the total the row already has.)
WriteRollupAdds(r) ==
    LET u == Head(req[r].climb)
        new == RollupStatus(req[r])
    IN  /\ pc[r] = "rollup"
        /\ status' = [status EXCEPT ![u] = new]
        /\ tally' = [tally EXCEPT ![u] = @ \cup req[r].seen]
        /\ flags' = [flags EXCEPT ![u] = IF new = "REJECTED" THEN req[r].prevFlags ELSE {}]
        /\ NextRollup(r, req[r])
        /\ UNCHANGED <<form, lastLog>>

WriteRollup(r) ==
    LET u == Head(req[r].climb)
        new == RollupStatus(req[r])
    IN  /\ pc[r] = "rollup"
        /\ status' = [status EXCEPT ![u] = new]
        /\ tally' = [tally EXCEPT ![u] = req[r].seen]
        /\ flags' = [flags EXCEPT ![u] = IF new = "REJECTED" THEN req[r].prevFlags ELSE {}]
        /\ NextRollup(r, req[r])
        /\ UNCHANGED <<form, lastLog>>

-----------------------------------------------------------------------------
(* resubmitWardToLga and resubmitLgaToState: a returned rollup is           *)
(* republished, and the log quotes the status read back afterwards.         *)

StartResubmit(r, u) ==
    /\ pc[r] = "idle"
    /\ u \in Wards \cup LGAs
    /\ status[u] = "REJECTED"
    /\ RollUp(r, Call("resubmit", u), "clear")
    /\ UNCHANGED <<rows, lastLog>>

Reread(r) ==
    /\ pc[r] = "reread"
    /\ Goto(r, "log", [req[r] EXCEPT !.entry = status[req[r].unit]])
    /\ UNCHANGED <<rows, lastLog>>

(* returnLgaFlaggedPus: the ward officer returns the sheets the LGA marked, *)
(* by one rejectResult after the other.                                     *)

StartReturnFlagged(r, w) ==
    /\ pc[r] = "idle"
    /\ w \in Wards
    /\ status[w] = "REJECTED"
    /\ flags[w] # {}
    /\ Goto(r, "flagged", [Call("bulk", w) EXCEPT !.rest = flags[w]])
    /\ UNCHANGED <<rows, lastLog>>

FindFlagged(r) ==
    LET found == {p \in req[r].rest : status[p] \in Returnable}
    IN  /\ pc[r] = "flagged"
        /\ IF found = {} THEN Finish(r)
           ELSE Goto(r, "nextFlagged", [req[r] EXCEPT !.rest = found])
        /\ UNCHANGED <<rows, lastLog>>

ReturnNextFlagged(r, p) ==
    /\ pc[r] = "nextFlagged"
    /\ p \in req[r].rest
    /\ IF status[p] \in Returnable
       THEN BeginReturn(r, [req[r] EXCEPT !.unit = p, !.rest = @ \ {p}], "WARD")
       ELSE Finish(r)
    /\ UNCHANGED <<rows, lastLog>>

\* A database error or a restart ends a request between two of its awaits.
Fail(r) ==
    /\ pc[r] # "idle"
    /\ Finish(r)
    /\ UNCHANGED <<rows, lastLog>>

-----------------------------------------------------------------------------
Arrive(r) ==
    \/ \E u \in Units, f \in Figures, keepsPhotos, photo \in BOOLEAN :
           StartUpsert(r, u, f, keepsPhotos, photo)
    \/ \E p \in PUs : StartAttach(r, p)
    \/ \E u \in Units : StartSubmit(r, u)
    \/ \E p \in PUs : StartApprove(r, p)
    \/ \E u \in Units, by \in Reviewers :
           \E marked \in SUBSET Markable(by, u) : StartReturn(r, u, by, marked)
    \/ \E u \in Units : StartResubmit(r, u)
    \/ \E w \in Wards : StartReturnFlagged(r, w)

Proceed(r) ==
    \/ Save(r) \/ Attach(r) \/ Submit(r) \/ Approve(r)
    \/ WardCheck(r) \/ Return(r) \/ FindMarked(r)
    \/ \E k \in Units : ReturnKid(r, k)
    \/ LogKid(r)
    \/ WriteLog(r)
    \/ ReadChildren(r) \/ ReadExisting(r) \/ WriteRollup(r)
    \/ Reread(r) \/ FindFlagged(r)
    \/ \E p \in Units : ReturnNextFlagged(r, p)

Serve == \E r \in Slots : Arrive(r) \/ Proceed(r)

Next == Serve \/ \E r \in Slots : Fail(r)

Spec == Init /\ [][Next]_vars

\* Without failures: a request that has been accepted runs on to its end, and
\* nobody has to send a request.
ReliableSpec == Init /\ [][Serve]_vars /\ \A r \in Slots : WF_vars(Proceed(r))
-----------------------------------------------------------------------------
Quiet == \A r \in Slots : pc[r] = "idle"

\* The types, and two facts on which rows exist: a row that does not has no
\* numbers and no marks, and nobody types the figures of a ward.
TypeOK ==
    /\ status \in [Units -> Statuses]
    /\ tally \in [Units -> SUBSET Sheet]
    /\ form \in [Units -> BOOLEAN]
    /\ flags \in [Units -> SUBSET Units]
    /\ lastLog \in [Units -> Statuses]
    /\ pc \in [Slots -> Steps]
    /\ req \in [Slots -> Request]
    /\ \A u \in Units : status[u] = "NONE" => tally[u] = {} /\ flags[u] = {}
    /\ \A w \in Wards : status[w] \notin {"DRAFT", "SUBMITTED"}

\* What the total of u should be: the approved sheets of a ward, and above it
\* the numbers of every row that is not a draft.
Beneath(u) ==
    UNION {tally[k] : k \in {c \in Children(u) :
        IF c \in PUs THEN status[c] = "APPROVED" ELSE status[c] \notin {"NONE", "DRAFT"}}}

WardTotalsAgree ==
    \A w \in Wards : status[w] # "NONE" => tally[w] = Beneath(w)

\* An LGA row that its officer has typed over is a draft or submitted.
LgaTotalsAgree ==
    \A l \in LGAs : status[l] \in {"APPROVED", "REJECTED"} => tally[l] = Beneath(l)

StateTotalsAgree ==
    \A s \in States :
        /\ status[s] = "APPROVED"
        /\ \A l \in Children(s) : status[l] \notin {"DRAFT", "SUBMITTED"}
        => tally[s] = Beneath(s)

\* Between requests every rolled-up row is exactly the sum of the rows below
\* it: a handler that changes what counts recomputes all rows it counts in,
\* in an order that reads no row before it is recomputed.
TotalsAgree == Quiet => WardTotalsAgree /\ LgaTotalsAgree /\ StateTotalsAgree

\* Between requests the audit trail ends where the row is: the newest log of
\* a submitted, approved or returned sheet, and of any returned rollup, says so.
AuditAgrees ==
    Quiet => \A u \in Units :
        \/ u \in PUs /\ status[u] \in Returnable
        \/ status[u] = "REJECTED"
        => lastLog[u] = status[u]

\* A ward carries marks for its officer only while it is returned, and an LGA
\* row never while it is published; the marks name units directly below.
MarksOnlyWhileReturned ==
    \A u \in Units :
        /\ flags[u] \subseteq Children(u)
        /\ u \in Wards /\ flags[u] # {} => status[u] = "REJECTED"
        /\ status[u] = "APPROVED" => flags[u] = {}

\* The units whose sheet can be among the addends of u: those at or below it.
Within(u) ==
    {u} \cup Children(u) \cup {k \in DOMAIN Parent :
        Parent[k] \in DOMAIN Parent /\ Parent[Parent[k]] = u}
        \cup {k \in PUs : Parent[Parent[Parent[k]]] = u}

\* However requests interleave and wherever they fail, no total adds two
\* sheets of one unit or a sheet from outside its own area.
CountedOnce ==
    \A u \in Units :
        /\ \A e \in tally[u] : e.of \in Within(u)
        /\ \A e, d \in tally[u] : e.of = d.of => e = d

\* A returned ward or LGA row becomes published again only where a handler
\* means to republish it (an approval in the ward, or its own resubmission),
\* never by a rollup that merely passes through it.
ReturnHolds ==
    [][\A u \in Wards \cup LGAs :
          status[u] = "REJECTED" /\ status'[u] = "APPROVED" =>
              \E r \in Slots :
                  /\ pc[r] = "rollup"
                  /\ \/ req[r].op = "approve" /\ u = Parent[req[r].unit]
                     \/ req[r].op = "resubmit" /\ u = req[r].unit]_vars

\* Every approved sheet reaches the totals of its ward, LGA and state, unless
\* it is returned meanwhile or the LGA's officer types figures of the LGA's own:
\* the rollups of an approval always run to the end.
Counted(p) ==
    \A u \in {Parent[p], Parent[Parent[p]], Parent[Parent[Parent[p]]]} : tally[p] \subseteq tally[u]

TypedOver(l) == status[l] \in {"DRAFT", "SUBMITTED"}

ApprovedIsCounted ==
    \A p \in PUs :
        status[p] = "APPROVED" ~>
            status[p] # "APPROVED" \/ Counted(p) \/ TypedOver(Parent[Parent[p]])

-----------------------------------------------------------------------------
(* What the API documentation and its error messages say.                   *)

\* "Ward officer: approve a submitted PU result. Published immediately to
\* Situation Room": when no request is running, the figures of an approved
\* sheet are in the totals of its ward, its LGA and its state.
ApprovalPublished ==
    Quiet => \A p \in PUs : status[p] = "APPROVED" => Counted(p)

(***************************************************************************)
(* Refinement: served one request at a time, the rows of the polling units *)
(* behave as ResultLifecycle says.                                         *)
(***************************************************************************)
Lifecycle == INSTANCE ResultLifecycle WITH
    Contents <- SUBSET Sheet,
    status <- [p \in PUs |-> status[p]],
    sheet <- [p \in PUs |-> tally[p]],
    form <- [p \in PUs |-> form[p]]

\* Every handler that changes a sheet does one step of its lifecycle.
FollowsLifecycle == Lifecycle!Spec
=============================================================================
