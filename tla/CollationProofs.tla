--------------------------- MODULE CollationProofs ---------------------------
(***************************************************************************)
(* Proofs about Collation for every geography, every number of requests    *)
(* served at once, and requests that fail anywhere.                        *)
(*                                                                         *)
(* The invariants are inductive together with one fact about requests in   *)
(* flight: what a request carries to its next write (the figures it has    *)
(* summed, the marks it has read) is good for the row it will write,       *)
(* because the geography never changes, however stale it is by then.       *)
(*                                                                         *)
(* The second half is about requests served one at a time, the case in     *)
(* which the code keeps the rest of its promises: a lone request knows     *)
(* that what it has checked and summed is still so when it writes.  The    *)
(* lifecycle and the returns then hold also when requests fail, the totals *)
(* and the action log where none does.  With two requests running at once  *)
(* TLC finds each of the four violated on the instance of publish_race.    *)
(***************************************************************************)
EXTENDS Collation, TLAPS

\* A set of sheets that can be the addends of the row of u.
Addends(u, S) ==
    /\ \A e \in S : e.of \in Within(u)
    /\ \A e, d \in S : e.of = d.of => e = d

\* What holds of the locals of every running request.
Base(q) ==
    /\ q \in Request
    /\ q.unit \in Units
    /\ q.marked \subseteq Children(q.unit)
    /\ q.op = "bulk" => q.marked = {}

\* What holds of the locals q of a request whose next step is step.
LocalOK(q, step) ==
    /\ q \in Request
    /\ step \in Steps
    /\ step # "idle" => Base(q)
    /\ step \in {"save", "submit"} => q.unit \in Typed
    /\ step = "save" => Addends(q.unit, q.seen)
    /\ step \in {"attach", "approve"} => q.unit \in PUs
    /\ step \in {"flagged", "nextFlagged"} => q.op = "bulk"
    /\ step = "kidLog" => q.kid \in Units
    /\ step \in {"children", "existing", "rollup"} => q.climb # <<>>
    /\ step \in {"existing", "rollup"} => Addends(Head(q.climb), q.seen)
    /\ step = "rollup" => q.prevFlags \subseteq Children(Head(q.climb))

InFlight == \A r \in Slots : LocalOK(req[r], pc[r])

IInv == TypeOK /\ InFlight /\ MarksOnlyWhileReturned /\ CountedOnce

-----------------------------------------------------------------------------
(* The geography.                                                           *)

\* The rows above any unit are rows of units.
LEMMA PathType == ASSUME NEW u \in Units PROVE Path(u) \in Seq(Units)
<1>1. CASE u \in PUs
  <2>1. Parent[u] \in Wards /\ Parent[Parent[u]] \in LGAs /\ Parent[Parent[Parent[u]]] \in States
    BY <1>1, Geography
  <2>2. Path(u) = <<Parent[u], Parent[Parent[u]], Parent[Parent[Parent[u]]]>>
    BY <1>1, Geography DEF Path
  <2> QED BY <2>1, <2>2 DEF Units
<1>2. CASE u \in Wards
  <2>1. Parent[u] \in LGAs /\ Parent[Parent[u]] \in States
    BY <1>2, Geography
  <2>2. Path(u) = <<u, Parent[u], Parent[Parent[u]]>>
    BY <1>2, Geography DEF Path
  <2> QED BY <2>1, <2>2 DEF Units
<1>3. CASE u \in LGAs
  <2>1. Parent[u] \in States
    BY <1>3, Geography
  <2>2. Path(u) = <<u, Parent[u]>>
    BY <1>3, Geography DEF Path
  <2> QED BY <2>1, <2>2 DEF Units
<1>4. CASE u \notin PUs /\ u \notin Wards /\ u \notin LGAs
  <2>1. Path(u) = <<>>
    BY <1>4, Geography DEF Path
  <2> QED BY <2>1
<1> QED BY <1>1, <1>2, <1>3, <1>4

\* What lies within a child lies within its parent.
LEMMA ChildWithin ==
    ASSUME NEW u \in Units, NEW k \in Children(u)
    PROVE  Within(k) \subseteq Within(u)
<1>1. k \in DOMAIN Parent /\ Parent[k] = u
  BY DEF Children
<1> SUFFICES ASSUME NEW x \in Within(k) PROVE x \in Within(u)
  OBVIOUS
<1>2. CASE x = k
  BY <1>1, <1>2 DEF Within, Children
<1>3. CASE x \in Children(k)
  BY <1>1, <1>3 DEF Within, Children
<1>4. CASE x \in DOMAIN Parent /\ Parent[x] \in DOMAIN Parent /\ Parent[Parent[x]] = k
  <2>1. x \in PUs
    BY <1>1, <1>4, Geography
  <2> QED BY <2>1, <1>1, <1>4 DEF Within
<1>5. CASE x \in PUs /\ Parent[Parent[Parent[x]]] = k
  <2>1. k \in States
    BY <1>5, Geography
  <2> QED BY <2>1, <1>1, Geography
<1> QED BY <1>2, <1>3, <1>4, <1>5 DEF Within

\* Two children of one unit have nothing in common.
LEMMA SiblingsApart ==
    ASSUME NEW u \in Units, NEW j \in Children(u), NEW k \in Children(u),
           NEW x \in Within(j), x \in Within(k)
    PROVE  j = k
<1>1. /\ j \in DOMAIN Parent /\ Parent[j] = u
      /\ k \in DOMAIN Parent /\ Parent[k] = u
  BY DEF Children
<1>2. CASE j \in PUs
  <2>1. k \in PUs
    BY <1>1, <1>2, Geography
  <2>2. Within(j) = {j} /\ Within(k) = {k}
    BY <1>2, <2>1, Geography DEF Within, Children
  <2> QED BY <2>2
<1>3. CASE j \in Wards
  <2>1. k \in Wards
    BY <1>1, <1>3, Geography
  <2>2. Within(j) = {j} \cup {p \in PUs : Parent[p] = j}
    BY <1>3, Geography DEF Within, Children
  <2>3. Within(k) = {k} \cup {p \in PUs : Parent[p] = k}
    BY <2>1, Geography DEF Within, Children
  <2> QED BY <1>3, <2>1, <2>2, <2>3, Geography
<1>4. CASE j \in LGAs
  <2>1. k \in LGAs
    BY <1>1, <1>4, Geography
  <2>2. ASSUME NEW l \in LGAs
        PROVE  Within(l) = {l} \cup {w \in Wards : Parent[w] = l}
                               \cup {p \in PUs : Parent[Parent[p]] = l}
    BY Geography DEF Within, Children
  <2> QED BY <1>4, <2>1, <2>2, Geography
<1> QED BY <1>1, <1>2, <1>3, <1>4, Geography

\* The sum of the rows of some children of u can be the row of u.
LEMMA SumOfChildren ==
    ASSUME TypeOK, CountedOnce, NEW u \in Units, NEW K \in SUBSET Children(u)
    PROVE  Addends(u, UNION {tally[k] : k \in K})
<1> DEFINE S == UNION {tally[k] : k \in K}
<1>0. K \subseteq Units
  BY Geography DEF Children, Units
<1>1. ASSUME NEW e \in S PROVE e.of \in Within(u)
  <2>1. PICK k \in K : e \in tally[k]
    BY <1>1
  <2> QED BY <2>1, <1>0, ChildWithin DEF CountedOnce
<1>2. ASSUME NEW e \in S, NEW d \in S, e.of = d.of PROVE e = d
  <2>1. PICK j \in K : e \in tally[j]
    BY <1>2
  <2>2. PICK k \in K : d \in tally[k]
    BY <1>2
  <2>3. e.of \in Within(j) /\ d.of \in Within(k)
    BY <2>1, <2>2, <1>0 DEF CountedOnce
  <2>4. j = k
    BY <2>3, <1>2, SiblingsApart
  <2> QED BY <2>1, <2>2, <2>4, <1>0, <1>2 DEF CountedOnce
<1> QED BY <1>1, <1>2 DEF Addends

-----------------------------------------------------------------------------
(* Requests on their way.                                                   *)

\* A request that goes on with good locals leaves all of them good.
LEMMA GotoOK ==
    ASSUME TypeOK, InFlight, NEW r \in Slots, NEW q, NEW step,
           LocalOK(q, step), Goto(r, step, q)
    PROVE  InFlight' /\ pc' \in [Slots -> Steps] /\ req' \in [Slots -> Request]
<1>1. q \in Request /\ step \in Steps
  BY DEF LocalOK
<1>2. pc' \in [Slots -> Steps] /\ req' \in [Slots -> Request]
  BY <1>1 DEF TypeOK, Goto
<1>3. ASSUME NEW s \in Slots PROVE LocalOK(req'[s], pc'[s])
  <2>1. CASE s = r
    BY <2>1 DEF TypeOK, Goto
  <2>2. CASE s # r
    BY <2>2 DEF TypeOK, Goto, InFlight
  <2> QED BY <2>1, <2>2
<1>4. InFlight'
  BY <1>3 DEF InFlight
<1> QED BY <1>2, <1>4

LEMMA BlankOK == LocalOK(Blank, "idle")
<1>1. Blank \in Request
  BY DEF Blank, Request, Ops, Modes, Statuses
<1> QED BY <1>1 DEF LocalOK, Steps

LEMMA CallOK ==
    ASSUME NEW op \in Ops, NEW u \in Units PROVE Base(Call(op, u))
<1>1. Blank \in Request
  BY BlankOK DEF LocalOK
<1>2. Call(op, u) \in Request
  BY <1>1 DEF Call, Request
<1>3. Call(op, u).unit = u
  BY <1>1 DEF Call, Request
<1>4. Call(op, u).marked = {}
  BY <1>1 DEF Call, Request, Blank
<1> QED BY <1>2, <1>3, <1>4 DEF Base

\* The changes of the locals on the way through publishAncestryRollups.
LEMMA AfterRollupsOK ==
    ASSUME TypeOK, InFlight, NEW r \in Slots, NEW q, Base(q), AfterRollups(r, q)
    PROVE  InFlight' /\ pc' \in [Slots -> Steps] /\ req' \in [Slots -> Request]
<1>1. CASE q.op = "resubmit"
  <2>1. Goto(r, "reread", q)
    BY <1>1 DEF AfterRollups
  <2>2. LocalOK(q, "reread")
    BY DEF LocalOK, Base, Steps
  <2> QED BY <2>1, <2>2, GotoOK
<1>2. CASE q.op = "bulk" /\ q.rest # {}
  <2>1. Goto(r, "nextFlagged", q)
    BY <1>2 DEF AfterRollups
  <2>2. LocalOK(q, "nextFlagged")
    BY <1>2 DEF LocalOK, Base, Steps
  <2> QED BY <2>1, <2>2, GotoOK
<1>3. CASE q.op # "resubmit" /\ ~(q.op = "bulk" /\ q.rest # {})
  <2>1. Goto(r, "idle", Blank)
    BY <1>3 DEF AfterRollups, Finish
  <2> QED BY <2>1, BlankOK, GotoOK
<1> QED BY <1>1, <1>2, <1>3

LEMMA RollUpOK ==
    ASSUME TypeOK, InFlight, NEW r \in Slots, NEW q, NEW mode \in Modes,
           Base(q), RollUp(r, q, mode)
    PROVE  InFlight' /\ pc' \in [Slots -> Steps] /\ req' \in [Slots -> Request]
<1>1. CASE Path(q.unit) = <<>>
  <2>1. AfterRollups(r, q)
    BY <1>1 DEF RollUp
  <2> QED BY <2>1, AfterRollupsOK
<1>2. CASE Path(q.unit) # <<>>
  <2> DEFINE n == [q EXCEPT !.climb = Path(q.unit), !.mode = mode]
  <2>1. Goto(r, "children", n)
    BY <1>2 DEF RollUp
  <2>2. n \in Request
    BY PathType DEF Base, Request
  <2>3. n.unit = q.unit /\ n.marked = q.marked /\ n.op = q.op /\ n.climb = Path(q.unit)
    BY DEF Base, Request
  <2>4. LocalOK(n, "children")
    BY <1>2, <2>2, <2>3 DEF LocalOK, Base, Steps
  <2> HIDE DEF n
  <2> QED BY <2>1, <2>4, GotoOK
<1> QED BY <1>1, <1>2

LEMMA NextRollupOK ==
    ASSUME TypeOK, InFlight, NEW r \in Slots, NEW q, Base(q), q.climb # <<>>,
           NextRollup(r, q)
    PROVE  InFlight' /\ pc' \in [Slots -> Steps] /\ req' \in [Slots -> Request]
<1> DEFINE n == [q EXCEPT !.climb = Tail(@), !.mode = "plain", !.seen = {},
                          !.found = FALSE, !.prev = "NONE", !.prevFlags = {}]
<1>1. n \in Request
  <2>1. Tail(q.climb) \in Seq(Units)
    BY DEF Base, Request
  <2> QED BY <2>1 DEF Base, Request, Modes, Statuses
<1>2. n.unit = q.unit /\ n.marked = q.marked /\ n.op = q.op
  BY DEF Base, Request
<1>3. Base(n)
  BY <1>1, <1>2 DEF Base
<1>4. IF n.climb = <<>> THEN AfterRollups(r, n) ELSE Goto(r, "children", n)
  BY DEF NextRollup
<1> HIDE DEF n
<1>5. CASE n.climb = <<>>
  BY <1>3, <1>4, <1>5, AfterRollupsOK
<1>6. CASE n.climb # <<>>
  <2>1. LocalOK(n, "children")
    BY <1>3, <1>6 DEF LocalOK, Base, Steps
  <2> QED BY <1>4, <1>6, <2>1, GotoOK
<1> QED BY <1>5, <1>6

LEMMA ReturnRollupsOK ==
    ASSUME TypeOK, InFlight, NEW r \in Slots, NEW q, Base(q), ReturnRollups(r, q)
    PROVE  InFlight' /\ pc' \in [Slots -> Steps] /\ req' \in [Slots -> Request]
<1> DEFINE mode == IF q.unit \in PUs THEN "plain" ELSE "keep"
<1>1. mode \in Modes /\ RollUp(r, q, mode)
  BY DEF ReturnRollups, Modes
<1> HIDE DEF mode
<1> QED BY <1>1, RollUpOK

-----------------------------------------------------------------------------
(* Steps that read rows, or write only the action log.                      *)

LEMMA RowsKept ==
    ASSUME IInv, UNCHANGED rows, lastLog' \in [Units -> Statuses],
           InFlight' /\ pc' \in [Slots -> Steps] /\ req' \in [Slots -> Request]
    PROVE  IInv'
<1>1. TypeOK'
  BY DEF IInv, TypeOK, rows
<1>2. MarksOnlyWhileReturned' /\ CountedOnce'
  BY DEF IInv, MarksOnlyWhileReturned, CountedOnce, rows
<1> QED BY <1>1, <1>2 DEF IInv

LEMMA ArriveKeeps ==
    ASSUME IInv, NEW r \in Slots, Arrive(r)
    PROVE  IInv'
<1>0. TypeOK /\ InFlight /\ MarksOnlyWhileReturned
  BY DEF IInv
<1>1. UNCHANGED rows /\ lastLog' \in [Units -> Statuses]
  BY <1>0 DEF Arrive, StartUpsert, StartAttach, StartSubmit, StartApprove, StartReturn,
              StartResubmit, StartReturnFlagged, TypeOK
<1>2. ASSUME NEW u \in Units, NEW f \in Figures, NEW keepsPhotos \in BOOLEAN,
             NEW photo \in BOOLEAN, StartUpsert(r, u, f, keepsPhotos, photo)
      PROVE  InFlight' /\ pc' \in [Slots -> Steps] /\ req' \in [Slots -> Request]
  <2> DEFINE q == [Call("upsert", u) EXCEPT !.seen = SheetOf(u, f), !.photo = photo]
  <2>1. Base(Call("upsert", u))
    BY CallOK DEF Ops
  <2>2. q \in Request /\ q.unit = u /\ q.marked = Call("upsert", u).marked
        /\ q.op = Call("upsert", u).op /\ q.seen = SheetOf(u, f)
    <3>1. SheetOf(u, f) \in SUBSET Sheet
      BY DEF SheetOf, Sheet
    <3>2. Call("upsert", u).unit = u
      BY DEF Call, Blank
    <3> HIDE DEF Call
    <3> QED BY <2>1, <3>1, <3>2 DEF Base, Request
  <2>3. Addends(u, SheetOf(u, f))
    BY DEF Addends, SheetOf, Within
  <2>4. u \in Typed /\ Goto(r, "save", q)
    BY <1>2 DEF StartUpsert
  <2>5. LocalOK(q, "save")
    BY <2>1, <2>2, <2>3, <2>4 DEF LocalOK, Base, Steps, Call
  <2> HIDE DEF q
  <2> QED BY <1>0, <2>4, <2>5, GotoOK
<1>3. ASSUME NEW p \in PUs, StartAttach(r, p)
      PROVE  InFlight' /\ pc' \in [Slots -> Steps] /\ req' \in [Slots -> Request]
  <2>1. p \in Units /\ Base(Call("attach", p)) /\ Call("attach", p).unit = p
    BY CallOK DEF Ops, Units, Call, Blank
  <2>2. LocalOK(Call("attach", p), "attach")
    BY <2>1 DEF LocalOK, Base, Steps
  <2> QED BY <1>0, <1>3, <2>2, GotoOK DEF StartAttach
<1>4. ASSUME NEW u \in Units, StartSubmit(r, u)
      PROVE  InFlight' /\ pc' \in [Slots -> Steps] /\ req' \in [Slots -> Request]
  <2>1. Base(Call("submit", u)) /\ Call("submit", u).unit = u
    BY CallOK DEF Ops, Call, Blank
  <2>2. u \in Typed
    BY <1>4 DEF StartSubmit
  <2>3. LocalOK(Call("submit", u), "submit")
    BY <2>1, <2>2 DEF LocalOK, Base, Steps
  <2> QED BY <1>0, <1>4, <2>3, GotoOK DEF StartSubmit
<1>5. ASSUME NEW p \in PUs, StartApprove(r, p)
      PROVE  InFlight' /\ pc' \in [Slots -> Steps] /\ req' \in [Slots -> Request]
  <2>1. p \in Units /\ Base(Call("approve", p)) /\ Call("approve", p).unit = p
    BY CallOK DEF Ops, Units, Call, Blank
  <2>2. LocalOK(Call("approve", p), "approve")
    BY <2>1 DEF LocalOK, Base, Steps
  <2> QED BY <1>0, <1>5, <2>2, GotoOK DEF StartApprove
<1>6. ASSUME NEW u \in Units, NEW by \in Reviewers, NEW marked \in SUBSET Markable(by, u),
             StartReturn(r, u, by, marked)
      PROVE  InFlight' /\ pc' \in [Slots -> Steps] /\ req' \in [Slots -> Request]
  <2> DEFINE q == [Call("return", u) EXCEPT !.marked = marked]
  <2>1. Base(Call("return", u))
    BY CallOK DEF Ops
  <2>2. marked \subseteq Children(u) /\ marked \subseteq Units
    BY Geography DEF Markable, Children, Units
  <2>3. q \in Request /\ q.unit = u /\ q.marked = marked /\ q.op = "return"
    BY <2>1, <2>2 DEF Base, Request, Call, Blank
  <2>4. Base(q)
    BY <2>2, <2>3 DEF Base
  <2>5. BeginReturn(r, q, by)
    BY <1>6 DEF StartReturn
  <2> HIDE DEF q
  <2>6. LocalOK(q, "wardCheck") /\ LocalOK(q, "return")
    BY <2>4 DEF LocalOK, Base, Steps
  <2> QED BY <1>0, <2>5, <2>6, GotoOK DEF BeginReturn
<1>7. ASSUME NEW u \in Units, StartResubmit(r, u)
      PROVE  InFlight' /\ pc' \in [Slots -> Steps] /\ req' \in [Slots -> Request]
  <2>1. Base(Call("resubmit", u))
    BY CallOK DEF Ops
  <2>2. RollUp(r, Call("resubmit", u), "clear")
    BY <1>7 DEF StartResubmit
  <2> QED BY <1>0, <2>1, <2>2, RollUpOK DEF Modes
<1>8. ASSUME NEW w \in Wards, StartReturnFlagged(r, w)
      PROVE  InFlight' /\ pc' \in [Slots -> Steps] /\ req' \in [Slots -> Request]
  <2> DEFINE q == [Call("bulk", w) EXCEPT !.rest = flags[w]]
  <2>1. w \in Units /\ Base(Call("bulk", w))
    BY CallOK DEF Ops, Units
  <2>2. flags[w] \subseteq Units
    BY <1>0, <2>1 DEF TypeOK
  <2>3. q \in Request /\ q.unit = w /\ q.marked = {} /\ q.op = "bulk"
    BY <2>1, <2>2 DEF Base, Request, Call, Blank
  <2>4. LocalOK(q, "flagged")
    BY <2>1, <2>3 DEF LocalOK, Base, Steps
  <2>5. Goto(r, "flagged", q)
    BY <1>8 DEF StartReturnFlagged
  <2> HIDE DEF q
  <2> QED BY <1>0, <2>4, <2>5, GotoOK
<1>9. InFlight' /\ pc' \in [Slots -> Steps] /\ req' \in [Slots -> Request]
  BY <1>2, <1>3, <1>4, <1>5, <1>6, <1>7, <1>8 DEF Arrive
<1> QED BY <1>1, <1>9, RowsKept

-----------------------------------------------------------------------------
(* Steps that write a row.                                                  *)

LEMMA SaveKeeps ==
    ASSUME IInv, NEW r \in Slots, Save(r) PROVE IInv'
<1> DEFINE u == req[r].unit
<1>0. TypeOK /\ InFlight /\ MarksOnlyWhileReturned /\ CountedOnce
  BY DEF IInv
<1>1. LocalOK(req[r], "save")
  BY <1>0 DEF InFlight, Save
<1>2. u \in Units /\ u \in Typed /\ u \notin Wards /\ Addends(u, req[r].seen)
      /\ req[r].seen \in SUBSET Sheet /\ req[r].photo \in BOOLEAN
  BY <1>1, TypedLevels DEF LocalOK, Base, Request
<1>3. InFlight' /\ pc' \in [Slots -> Steps] /\ req' \in [Slots -> Request]
  BY <1>0, BlankOK, GotoOK DEF Save, Finish
<1>4. TypeOK'
  BY <1>0, <1>2, <1>3 DEF TypeOK, Save, Statuses
<1>5. MarksOnlyWhileReturned'
  BY <1>0, <1>2 DEF TypeOK, Save, MarksOnlyWhileReturned
<1>6. CountedOnce'
  BY <1>0, <1>2 DEF TypeOK, Save, CountedOnce, Addends
<1> QED BY <1>3, <1>4, <1>5, <1>6 DEF IInv

LEMMA AttachKeeps ==
    ASSUME IInv, NEW r \in Slots, Attach(r) PROVE IInv'
<1>0. TypeOK /\ InFlight /\ MarksOnlyWhileReturned /\ CountedOnce
  BY DEF IInv
<1>1. InFlight' /\ pc' \in [Slots -> Steps] /\ req' \in [Slots -> Request]
  BY <1>0, BlankOK, GotoOK DEF Attach, Finish
<1>2. TypeOK'
  BY <1>0, <1>1 DEF TypeOK, Attach
<1>3. MarksOnlyWhileReturned' /\ CountedOnce'
  BY <1>0 DEF Attach, MarksOnlyWhileReturned, CountedOnce
<1> QED BY <1>1, <1>2, <1>3 DEF IInv

LEMMA SubmitKeeps ==
    ASSUME IInv, NEW r \in Slots, Submit(r) PROVE IInv'
<1> DEFINE u == req[r].unit
           q == [req[r] EXCEPT !.entry = "SUBMITTED"]
<1>0. TypeOK /\ InFlight /\ MarksOnlyWhileReturned /\ CountedOnce
  BY DEF IInv
<1>1. LocalOK(req[r], "submit")
  BY <1>0 DEF InFlight, Submit
<1>2. u \in Units /\ u \notin Wards
  BY <1>1, TypedLevels DEF LocalOK, Base
<1>3. LocalOK(q, "log")
  BY <1>1 DEF LocalOK, Base, Request, Statuses, Steps
<1>4. InFlight' /\ pc' \in [Slots -> Steps] /\ req' \in [Slots -> Request]
  BY <1>0, <1>3, GotoOK DEF Submit
<1>5. TypeOK'
  BY <1>0, <1>2, <1>4 DEF TypeOK, Submit, Statuses
<1>6. MarksOnlyWhileReturned' /\ CountedOnce'
  BY <1>0, <1>2 DEF TypeOK, Submit, MarksOnlyWhileReturned, CountedOnce
<1> QED BY <1>4, <1>5, <1>6 DEF IInv

LEMMA ApproveKeeps ==
    ASSUME IInv, NEW r \in Slots, Approve(r) PROVE IInv'
<1> DEFINE p == req[r].unit
           q == [req[r] EXCEPT !.entry = "APPROVED"]
<1>0. TypeOK /\ InFlight /\ MarksOnlyWhileReturned /\ CountedOnce
  BY DEF IInv
<1>1. LocalOK(req[r], "approve")
  BY <1>0 DEF InFlight, Approve
<1>2. p \in Units /\ p \in PUs /\ p \notin Wards
  BY <1>1, Geography DEF LocalOK, Units
<1>3. LocalOK(q, "log")
  BY <1>1 DEF LocalOK, Base, Request, Statuses, Steps
<1>4. InFlight' /\ pc' \in [Slots -> Steps] /\ req' \in [Slots -> Request]
  BY <1>0, <1>3, GotoOK DEF Approve
<1>5. TypeOK'
  BY <1>0, <1>2, <1>4 DEF TypeOK, Approve, Statuses
<1>6. MarksOnlyWhileReturned' /\ CountedOnce'
  BY <1>0, <1>2 DEF TypeOK, Approve, MarksOnlyWhileReturned, CountedOnce
<1> QED BY <1>4, <1>5, <1>6 DEF IInv

LEMMA ReturnKeeps ==
    ASSUME IInv, NEW r \in Slots, Return(r) PROVE IInv'
<1> DEFINE u == req[r].unit
           q == [req[r] EXCEPT !.entry = "REJECTED"]
<1>0. TypeOK /\ InFlight /\ MarksOnlyWhileReturned /\ CountedOnce
  BY DEF IInv
<1>1. LocalOK(req[r], "return")
  BY <1>0 DEF InFlight, Return
<1>2. u \in Units /\ req[r].marked \subseteq Children(u) /\ req[r].marked \in SUBSET Units
  BY <1>1 DEF LocalOK, Base, Request
<1>3. LocalOK(q, "log")
  BY <1>1 DEF LocalOK, Base, Request, Statuses, Steps
<1>4. InFlight' /\ pc' \in [Slots -> Steps] /\ req' \in [Slots -> Request]
  BY <1>0, <1>3, GotoOK DEF Return
<1>5. TypeOK'
  BY <1>0, <1>2, <1>4 DEF TypeOK, Return, Statuses
<1>6. MarksOnlyWhileReturned'
  BY <1>0, <1>2 DEF TypeOK, Return, MarksOnlyWhileReturned
<1>7. CountedOnce'
  BY <1>0 DEF Return, CountedOnce
<1> QED BY <1>4, <1>5, <1>6, <1>7 DEF IInv

LEMMA ReturnKidKeeps ==
    ASSUME IInv, NEW r \in Slots, NEW k \in Units, ReturnKid(r, k) PROVE IInv'
<1> DEFINE q == [req[r] EXCEPT !.kids = @ \ {k}, !.kid = k]
<1>0. TypeOK /\ InFlight /\ MarksOnlyWhileReturned /\ CountedOnce
  BY DEF IInv
<1>1. LocalOK(req[r], "kid")
  BY <1>0 DEF InFlight, ReturnKid
<1>2. q \in Request /\ q.unit = req[r].unit /\ q.marked = req[r].marked
      /\ q.op = req[r].op /\ q.kid = k
  BY <1>1 DEF LocalOK, Base, Request
<1>3. LocalOK(q, "kidLog")
  BY <1>1, <1>2 DEF LocalOK, Base, Steps
<1>4. Goto(r, "kidLog", q)
  BY DEF ReturnKid
<1> HIDE DEF q
<1>5. InFlight' /\ pc' \in [Slots -> Steps] /\ req' \in [Slots -> Request]
  BY <1>0, <1>3, <1>4, GotoOK
<1>6. TypeOK'
  BY <1>0, <1>5 DEF TypeOK, ReturnKid, Statuses
<1>7. MarksOnlyWhileReturned' /\ CountedOnce'
  BY <1>0 DEF TypeOK, ReturnKid, MarksOnlyWhileReturned, CountedOnce
<1> QED BY <1>5, <1>6, <1>7 DEF IInv

LEMMA WriteRollupKeeps ==
    ASSUME IInv, NEW r \in Slots, WriteRollup(r) PROVE IInv'
<1> DEFINE q == req[r]
           u == Head(q.climb)
           new == RollupStatus(q)
<1>0. TypeOK /\ InFlight /\ MarksOnlyWhileReturned /\ CountedOnce
  BY DEF IInv
<1>1. LocalOK(q, "rollup")
  BY <1>0 DEF InFlight, WriteRollup
<1>2. u \in Units /\ Addends(u, q.seen) /\ q.seen \in SUBSET Sheet
      /\ q.prevFlags \subseteq Children(u) /\ q.prevFlags \in SUBSET Units
  BY <1>1 DEF LocalOK, Base, Request
<1>3. new \in {"REJECTED", "APPROVED"}
  BY DEF RollupStatus
<1>4. /\ status' = [status EXCEPT ![u] = new]
      /\ tally' = [tally EXCEPT ![u] = q.seen]
      /\ flags' = [flags EXCEPT ![u] = IF new = "REJECTED" THEN q.prevFlags ELSE {}]
      /\ NextRollup(r, q)
      /\ UNCHANGED <<form, lastLog>>
  BY DEF WriteRollup
<1>5. InFlight' /\ pc' \in [Slots -> Steps] /\ req' \in [Slots -> Request]
  BY <1>0, <1>1, <1>4, NextRollupOK DEF LocalOK
<1> HIDE DEF q, u, new
<1>6. TypeOK'
  BY <1>0, <1>2, <1>3, <1>4, <1>5 DEF TypeOK, Statuses
<1>7. MarksOnlyWhileReturned'
  BY <1>0, <1>2, <1>3, <1>4 DEF TypeOK, MarksOnlyWhileReturned
<1>8. CountedOnce'
  BY <1>0, <1>2, <1>4 DEF TypeOK, CountedOnce, Addends
<1> QED BY <1>5, <1>6, <1>7, <1>8 DEF IInv

-----------------------------------------------------------------------------
(* The other steps, one lemma each for what it does to the request.         *)

LEMMA WardCheckMoves ==
    ASSUME TypeOK, InFlight, NEW r \in Slots, WardCheck(r)
    PROVE  InFlight' /\ pc' \in [Slots -> Steps] /\ req' \in [Slots -> Request]
<1>1. LocalOK(req[r], "wardCheck")
  BY DEF InFlight, WardCheck
<1>2. LocalOK(req[r], "return")
  BY <1>1 DEF LocalOK, Base, Steps
<1> QED BY <1>2, BlankOK, GotoOK DEF WardCheck, Finish

LEMMA FindMarkedMoves ==
    ASSUME TypeOK, InFlight, NEW r \in Slots, FindMarked(r)
    PROVE  InFlight' /\ pc' \in [Slots -> Steps] /\ req' \in [Slots -> Request]
<1> DEFINE kids == {k \in req[r].marked : status[k] \in Returnable}
           q == [req[r] EXCEPT !.kids = kids]
<1>1. LocalOK(req[r], "marked") /\ Base(req[r])
  BY DEF InFlight, FindMarked, LocalOK
<1>2. kids \in SUBSET Units
  BY <1>1 DEF Base, Request
<1> HIDE DEF kids
<1>3. q \in Request /\ q.unit = req[r].unit /\ q.marked = req[r].marked /\ q.op = req[r].op
  BY <1>1, <1>2 DEF Base, Request
<1>4. LocalOK(q, "kid")
  BY <1>1, <1>3 DEF LocalOK, Base, Steps
<1>5. IF kids = {} THEN ReturnRollups(r, req[r]) ELSE Goto(r, "kid", q)
  BY DEF FindMarked, kids
<1> HIDE DEF q
<1> QED BY <1>1, <1>4, <1>5, ReturnRollupsOK, GotoOK

LEMMA LogKidMoves ==
    ASSUME TypeOK, InFlight, NEW r \in Slots, LogKid(r)
    PROVE  InFlight' /\ pc' \in [Slots -> Steps] /\ req' \in [Slots -> Request]
<1> DEFINE q == [req[r] EXCEPT !.kid = NoUnit]
<1>1. LocalOK(req[r], "kidLog")
  BY DEF InFlight, LogKid
<1>2. q \in Request /\ q.unit = req[r].unit /\ q.marked = req[r].marked /\ q.op = req[r].op
  BY <1>1 DEF LocalOK, Base, Request
<1>3. LocalOK(q, "kid") /\ Base(q)
  BY <1>1, <1>2 DEF LocalOK, Base, Steps
<1>4. IF q.kids = {} THEN ReturnRollups(r, q) ELSE Goto(r, "kid", q)
  BY DEF LogKid
<1> HIDE DEF q
<1> QED BY <1>3, <1>4, ReturnRollupsOK, GotoOK

LEMMA WriteLogMoves ==
    ASSUME TypeOK, InFlight, NEW r \in Slots, WriteLog(r)
    PROVE  InFlight' /\ pc' \in [Slots -> Steps] /\ req' \in [Slots -> Request]
<1>1. LocalOK(req[r], "log") /\ Base(req[r])
  BY DEF InFlight, WriteLog, LocalOK
<1>2. LocalOK(req[r], "marked")
  BY <1>1 DEF LocalOK, Steps
<1>3. \/ RollUp(r, req[r], "clear")
      \/ Goto(r, "marked", req[r])
      \/ ReturnRollups(r, req[r])
      \/ Goto(r, "idle", Blank)
  BY DEF WriteLog, Finish
<1> QED BY <1>1, <1>2, <1>3, RollUpOK, ReturnRollupsOK, BlankOK, GotoOK DEF Modes

LEMMA ReadChildrenMoves ==
    ASSUME TypeOK, InFlight, CountedOnce, NEW r \in Slots, ReadChildren(r)
    PROVE  InFlight' /\ pc' \in [Slots -> Steps] /\ req' \in [Slots -> Request]
<1> DEFINE u == Head(req[r].climb)
           counted == {k \in Children(u) : status[k] \in Countable(u)}
           sum == UNION {tally[k] : k \in counted}
           q == [req[r] EXCEPT !.seen = sum, !.found = (counted # {})]
<1>1. LocalOK(req[r], "children")
  BY DEF InFlight, ReadChildren
<1>2. u \in Units
  BY <1>1 DEF LocalOK, Base, Request
<1>3. counted \subseteq Children(u) /\ counted \subseteq Units
  BY Geography DEF Children, Units
<1>4. Goto(r, "existing", q)
  BY DEF ReadChildren
<1> HIDE DEF counted
<1>5. Addends(u, sum)
  BY <1>2, <1>3, SumOfChildren
<1>6. sum \in SUBSET Sheet
  BY <1>3 DEF TypeOK
<1> HIDE DEF sum
<1>7. q \in Request /\ q.unit = req[r].unit /\ q.marked = req[r].marked
      /\ q.op = req[r].op /\ q.climb = req[r].climb /\ q.seen = sum
  BY <1>1, <1>6 DEF LocalOK, Base, Request
<1>8. LocalOK(q, "existing")
  BY <1>1, <1>5, <1>7 DEF LocalOK, Base, Steps
<1> HIDE DEF q
<1> QED BY <1>4, <1>8, GotoOK

LEMMA ReadExistingMoves ==
    ASSUME TypeOK, InFlight, MarksOnlyWhileReturned, NEW r \in Slots, ReadExisting(r)
    PROVE  InFlight' /\ pc' \in [Slots -> Steps] /\ req' \in [Slots -> Request]
<1> DEFINE u == Head(req[r].climb)
           q == [req[r] EXCEPT !.prev = status[u], !.prevFlags = flags[u]]
<1>1. LocalOK(req[r], "existing") /\ Base(req[r]) /\ req[r].climb # <<>>
  BY DEF InFlight, ReadExisting, LocalOK
<1>2. u \in Units
  BY <1>1 DEF Base, Request
<1>3. status[u] \in Statuses /\ flags[u] \in SUBSET Units /\ flags[u] \subseteq Children(u)
  BY <1>2 DEF TypeOK, MarksOnlyWhileReturned
<1>4. NextRollup(r, req[r]) \/ Goto(r, "rollup", q)
  BY DEF ReadExisting
<1>5. q \in Request /\ q.unit = req[r].unit /\ q.marked = req[r].marked /\ q.op = req[r].op
      /\ q.climb = req[r].climb /\ q.seen = req[r].seen /\ q.prevFlags = flags[u]
  BY <1>1, <1>3 DEF Base, Request
<1>6. LocalOK(q, "rollup")
  BY <1>1, <1>3, <1>5 DEF LocalOK, Base, Steps
<1> HIDE DEF q
<1> QED BY <1>1, <1>4, <1>6, NextRollupOK, GotoOK

LEMMA RereadMoves ==
    ASSUME TypeOK, InFlight, NEW r \in Slots, Reread(r)
    PROVE  InFlight' /\ pc' \in [Slots -> Steps] /\ req' \in [Slots -> Request]
<1> DEFINE q == [req[r] EXCEPT !.entry = status[req[r].unit]]
<1>1. LocalOK(req[r], "reread") /\ req[r].unit \in Units
  BY DEF InFlight, Reread, LocalOK, Base
<1>2. status[req[r].unit] \in Statuses
  BY <1>1 DEF TypeOK
<1>3. q \in Request /\ q.unit = req[r].unit /\ q.marked = req[r].marked /\ q.op = req[r].op
  BY <1>1, <1>2 DEF LocalOK, Base, Request
<1>4. LocalOK(q, "log")
  BY <1>1, <1>3 DEF LocalOK, Base, Steps
<1>5. Goto(r, "log", q)
  BY DEF Reread
<1> HIDE DEF q
<1> QED BY <1>4, <1>5, GotoOK

LEMMA FindFlaggedMoves ==
    ASSUME TypeOK, InFlight, NEW r \in Slots, FindFlagged(r)
    PROVE  InFlight' /\ pc' \in [Slots -> Steps] /\ req' \in [Slots -> Request]
<1> DEFINE found == {p \in req[r].rest : status[p] \in Returnable}
           q == [req[r] EXCEPT !.rest = found]
<1>1. LocalOK(req[r], "flagged") /\ Base(req[r])
  BY DEF InFlight, FindFlagged, LocalOK
<1>2. found \in SUBSET Units
  BY <1>1 DEF Base, Request
<1>3. Goto(r, "idle", Blank) \/ Goto(r, "nextFlagged", q)
  BY DEF FindFlagged, Finish
<1> HIDE DEF found
<1>4. q \in Request /\ q.unit = req[r].unit /\ q.marked = req[r].marked /\ q.op = req[r].op
  BY <1>1, <1>2 DEF Base, Request
<1>5. LocalOK(q, "nextFlagged")
  BY <1>1, <1>4 DEF LocalOK, Base, Steps
<1> HIDE DEF q
<1> QED BY <1>3, <1>5, BlankOK, GotoOK

LEMMA ReturnNextFlaggedMoves ==
    ASSUME TypeOK, InFlight, NEW r \in Slots, NEW p \in Units, ReturnNextFlagged(r, p)
    PROVE  InFlight' /\ pc' \in [Slots -> Steps] /\ req' \in [Slots -> Request]
<1> DEFINE q == [req[r] EXCEPT !.unit = p, !.rest = @ \ {p}]
<1>1. LocalOK(req[r], "nextFlagged") /\ Base(req[r])
  BY DEF InFlight, ReturnNextFlagged, LocalOK
<1>2. q \in Request /\ q.unit = p /\ q.marked = req[r].marked /\ q.op = req[r].op
  BY <1>1 DEF Base, Request
<1>3. BeginReturn(r, q, "WARD") \/ Goto(r, "idle", Blank)
  BY DEF ReturnNextFlagged, Finish
<1> HIDE DEF q
<1>4. Base(q)
  BY <1>1, <1>2 DEF LocalOK, Base
<1>5. LocalOK(q, "wardCheck") /\ LocalOK(q, "return")
  BY <1>4 DEF LocalOK, Base, Steps
<1> QED BY <1>3, <1>5, BlankOK, GotoOK DEF BeginReturn

LEMMA FailMoves ==
    ASSUME TypeOK, InFlight, NEW r \in Slots, Fail(r)
    PROVE  InFlight' /\ pc' \in [Slots -> Steps] /\ req' \in [Slots -> Request]
BY BlankOK, GotoOK DEF Fail, Finish

\* The action log is written with a status.
LEMMA LogKept ==
    ASSUME TypeOK, InFlight, NEW r \in Slots, WriteLog(r) \/ LogKid(r)
    PROVE  lastLog' \in [Units -> Statuses]
<1>1. CASE WriteLog(r)
  <2>1. req[r].entry \in Statuses
    BY <1>1 DEF InFlight, LocalOK, WriteLog, Request
  <2> QED BY <1>1, <2>1 DEF TypeOK, WriteLog
<1>2. CASE LogKid(r)
  BY <1>2 DEF TypeOK, LogKid, Statuses
<1> QED BY <1>1, <1>2

-----------------------------------------------------------------------------
(* The inductive invariant.                                                 *)

LEMMA InitOK == Init => IInv
<1> SUFFICES ASSUME Init PROVE IInv
  OBVIOUS
<1>1. Blank \in Request
  BY BlankOK DEF LocalOK
<1>2. TypeOK
  <2>1. \A u \in Units : status[u] = "NONE" /\ tally[u] = {} /\ flags[u] = {}
    BY DEF Init
  <2>2. Wards \subseteq Units
    BY DEF Units
  <2> QED BY <1>1, <2>1, <2>2 DEF Init, TypeOK, Statuses, Steps
<1>3. InFlight
  BY BlankOK DEF Init, InFlight
<1>4. MarksOnlyWhileReturned /\ CountedOnce
  BY DEF Init, MarksOnlyWhileReturned, CountedOnce
<1> QED BY <1>2, <1>3, <1>4 DEF IInv

LEMMA ProceedKeeps ==
    ASSUME IInv, NEW r \in Slots, Proceed(r) PROVE IInv'
<1>0. TypeOK /\ InFlight /\ MarksOnlyWhileReturned /\ CountedOnce
  BY DEF IInv
<1>1. CASE Save(r)
  BY <1>1, SaveKeeps
<1>2. CASE Attach(r)
  BY <1>2, AttachKeeps
<1>3. CASE Submit(r)
  BY <1>3, SubmitKeeps
<1>4. CASE Approve(r)
  BY <1>4, ApproveKeeps
<1>5. CASE WardCheck(r)
  BY <1>0, <1>5, WardCheckMoves, RowsKept DEF WardCheck, TypeOK
<1>6. CASE Return(r)
  BY <1>6, ReturnKeeps
<1>7. CASE FindMarked(r)
  BY <1>0, <1>7, FindMarkedMoves, RowsKept DEF FindMarked, TypeOK
<1>8. CASE \E k \in Units : ReturnKid(r, k)
  BY <1>8, ReturnKidKeeps
<1>9. CASE LogKid(r)
  BY <1>0, <1>9, LogKidMoves, LogKept, RowsKept DEF LogKid
<1>10. CASE WriteLog(r)
  BY <1>0, <1>10, WriteLogMoves, LogKept, RowsKept DEF WriteLog
<1>11. CASE ReadChildren(r)
  BY <1>0, <1>11, ReadChildrenMoves, RowsKept DEF ReadChildren, TypeOK
<1>12. CASE ReadExisting(r)
  BY <1>0, <1>12, ReadExistingMoves, RowsKept DEF ReadExisting, TypeOK
<1>13. CASE WriteRollup(r)
  BY <1>13, WriteRollupKeeps
<1>14. CASE Reread(r)
  BY <1>0, <1>14, RereadMoves, RowsKept DEF Reread, TypeOK
<1>15. CASE FindFlagged(r)
  BY <1>0, <1>15, FindFlaggedMoves, RowsKept DEF FindFlagged, TypeOK
<1>16. CASE \E p \in Units : ReturnNextFlagged(r, p)
  BY <1>0, <1>16, ReturnNextFlaggedMoves, RowsKept DEF ReturnNextFlagged, TypeOK
<1> QED BY <1>1, <1>2, <1>3, <1>4, <1>5, <1>6, <1>7, <1>8, <1>9, <1>10, <1>11, <1>12,
           <1>13, <1>14, <1>15, <1>16 DEF Proceed

LEMMA StutterKeeps == ASSUME IInv, UNCHANGED vars PROVE IInv'
BY DEF IInv, vars, TypeOK, InFlight, LocalOK, MarksOnlyWhileReturned, CountedOnce

LEMMA NextKeeps == IInv /\ [Next]_vars => IInv'
<1> SUFFICES ASSUME IInv, [Next]_vars PROVE IInv'
  OBVIOUS
<1>1. ASSUME NEW r \in Slots, Arrive(r) PROVE IInv'
  BY <1>1, ArriveKeeps
<1>2. ASSUME NEW r \in Slots, Proceed(r) PROVE IInv'
  BY <1>2, ProceedKeeps
<1>3. ASSUME NEW r \in Slots, Fail(r) PROVE IInv'
  BY <1>3, FailMoves, RowsKept DEF IInv, TypeOK, Fail
<1>4. CASE UNCHANGED vars
  BY <1>4, StutterKeeps
<1> QED BY <1>1, <1>2, <1>3, <1>4 DEF Next, Serve

\* The inductive invariant.
THEOREM Invariance == Spec => []IInv
<1> QED BY InitOK, NextKeeps, PTL DEF Spec

\* Whatever requests interleave or die, every row keeps its type, no row of a
\* ward is ever a draft, and a row that does not exist has no numbers.
THEOREM TypeCorrect == Spec => []TypeOK
<1>1. IInv => TypeOK
  BY DEF IInv
<1> QED BY <1>1, Invariance, PTL

\* Marks are on returned rows only, however stale the row a rollup has read
\* when it writes it back.
THEOREM MarksCorrect == Spec => []MarksOnlyWhileReturned
<1>1. IInv => MarksOnlyWhileReturned
  BY DEF IInv
<1> QED BY <1>1, Invariance, PTL

\* Totals may be stale, but no total ever counts one unit twice or counts a
\* unit of another area.
THEOREM CountedOnceCorrect == Spec => []CountedOnce
<1>1. IInv => CountedOnce
  BY DEF IInv
<1> QED BY <1>1, Invariance, PTL
-----------------------------------------------------------------------------
(* One request at a time.  What a lone request has read is still so when it *)
(* writes: the rows it has checked, the sum it has read, the rows it has    *)
(* still to recompute.                                                      *)

OneAtATime == \A r, s \in Slots : r = s

\* A climb goes from a row up to its state.
IsClimb(c) ==
    \/ \E w \in Wards : c = <<w, Parent[w], Parent[Parent[w]]>>
    \/ \E l \in LGAs : c = <<l, Parent[l]>>
    \/ \E s \in States : c = <<s>>

On(c) == {c[i] : i \in DOMAIN c}

Climbing == {"children", "existing", "rollup"}

\* Only an approval and a resubmission climb to publish, and only a row whose return is
\* logged is kept returned.
ModeOK(q) ==
    /\ q.mode = "clear" =>
          \/ q.op = "approve" /\ q.unit \in PUs /\ Head(q.climb) = Parent[q.unit]
          \/ q.op = "resubmit" /\ q.unit \in Wards \cup LGAs /\ Head(q.climb) = q.unit
    /\ q.mode = "keep" => lastLog[Head(q.climb)] = "REJECTED"

Marking(q) == q.marked # {} => q.unit \in Wards \cup LGAs

\* What a lone request with locals q knows about the rows before its next step.
Knows(q, step) ==
    /\ step # "idle" => Marking(q)
    /\ step = "save" => status[q.unit] \in {"NONE"} \cup Editable
    /\ step \in {"attach", "submit"} => status[q.unit] \in Editable
    /\ step = "submit" => (q.unit \in PUs => form[q.unit]) /\ q.op = "submit"
    /\ step = "approve" => status[q.unit] = "SUBMITTED" /\ q.op = "approve"
    /\ step \in {"wardCheck", "return"} =>
          status[q.unit] \in Returnable /\ q.op \in {"return", "bulk"}
    /\ step = "log" => q.entry = status[q.unit]
    /\ step = "reread" => q.op = "resubmit"
    /\ step = "log" /\ q.op = "approve" => q.unit \in PUs
    /\ step = "log" /\ q.op \in {"return", "bulk"} => q.entry = "REJECTED"
    /\ step \in {"marked", "kid", "kidLog"} =>
          /\ q.op \in {"return", "bulk"} /\ q.marked # {}
          /\ lastLog[q.unit] = "REJECTED"
    /\ step \in {"kid", "kidLog"} => \A k \in q.kids : k \in q.marked /\ status[k] \in Returnable
    /\ step = "kidLog" => q.kid \in q.marked /\ status[q.kid] = "REJECTED"
    /\ step \in Climbing => IsClimb(q.climb) /\ ModeOK(q)
    /\ step \in {"existing", "rollup"} => q.seen = Beneath(Head(q.climb))
    /\ step = "rollup" => q.prev = status[Head(q.climb)]

Known == \A r \in Slots : Knows(req[r], pc[r])

-----------------------------------------------------------------------------
(* Climbs.                                                                  *)

LEMMA ClimbHead ==
    ASSUME NEW c, IsClimb(c)
    PROVE  /\ c # <<>> /\ Head(c) \in Wards \cup LGAs \cup States /\ Head(c) \notin PUs
           /\ Tail(c) # <<>> => IsClimb(Tail(c))
           /\ On(c) = {Head(c)} \cup On(Tail(c))
           /\ Head(c) \in DOMAIN Parent => Parent[Head(c)] \in On(Tail(c))
<1>1. CASE \E w \in Wards : c = <<w, Parent[w], Parent[Parent[w]]>>
  <2>1. PICK w \in Wards : c = <<w, Parent[w], Parent[Parent[w]]>>
    BY <1>1
  <2>2. Parent[w] \in LGAs /\ w \notin PUs
    BY Geography
  <2>3. Head(c) = w /\ Tail(c) = <<Parent[w], Parent[Parent[w]]>> /\ c # <<>>
    BY <2>1
  <2>4. On(c) = {w, Parent[w], Parent[Parent[w]]}
    BY <2>1 DEF On
  <2>5. On(<<Parent[w], Parent[Parent[w]]>>) = {Parent[w], Parent[Parent[w]]}
    BY DEF On
  <2>6. IsClimb(<<Parent[w], Parent[Parent[w]]>>)
    BY <2>2 DEF IsClimb
  <2> QED BY <2>2, <2>3, <2>4, <2>5, <2>6
<1>2. CASE \E l \in LGAs : c = <<l, Parent[l]>>
  <2>1. PICK l \in LGAs : c = <<l, Parent[l]>>
    BY <1>2
  <2>2. Parent[l] \in States /\ l \notin PUs
    BY Geography
  <2>3. Head(c) = l /\ Tail(c) = <<Parent[l]>> /\ c # <<>>
    BY <2>1
  <2>4. On(c) = {l, Parent[l]}
    BY <2>1 DEF On
  <2>5. On(<<Parent[l]>>) = {Parent[l]}
    BY DEF On
  <2>6. IsClimb(<<Parent[l]>>)
    BY <2>2 DEF IsClimb
  <2> QED BY <2>2, <2>3, <2>4, <2>5, <2>6
<1>3. CASE \E s \in States : c = <<s>>
  <2>1. PICK s \in States : c = <<s>>
    BY <1>3
  <2>2. s \notin PUs /\ s \notin DOMAIN Parent
    BY Geography
  <2>3. Head(c) = s /\ Tail(c) = <<>> /\ c # <<>>
    BY <2>1
  <2>4. On(c) = {s} /\ On(<<>>) = {}
    BY <2>1 DEF On
  <2> QED BY <2>2, <2>3, <2>4
<1> QED BY <1>1, <1>2, <1>3 DEF IsClimb

\* The rows recomputed after a change to u, where there are any.
LEMMA PathClimbs ==
    ASSUME NEW u \in Units
    PROVE  /\ Path(u) # <<>> => IsClimb(Path(u))
           /\ u \in PUs => Path(u) # <<>> /\ Head(Path(u)) = Parent[u] /\ Parent[u] \in On(Path(u))
           /\ u \in Wards \cup LGAs => Path(u) # <<>> /\ Head(Path(u)) = u
                                       /\ u \in On(Path(u)) /\ Parent[u] \in On(Path(u))
           /\ u \in States \cup Nations => Path(u) = <<>>
<1>1. CASE u \in PUs
  <2>1. Parent[u] \in Wards /\ u \notin Wards \cup LGAs \cup States \cup Nations
    BY <1>1, Geography
  <2>2. Path(u) = <<Parent[u], Parent[Parent[u]], Parent[Parent[Parent[u]]]>>
    BY <1>1, Geography DEF Path
  <2>3. IsClimb(Path(u)) /\ Path(u) # <<>> /\ Head(Path(u)) = Parent[u]
    BY <2>1, <2>2 DEF IsClimb
  <2>4. Parent[u] \in On(Path(u))
    BY <2>2 DEF On
  <2> QED BY <1>1, <2>1, <2>3, <2>4
<1>2. CASE u \in Wards
  <2>1. u \notin PUs \cup States \cup Nations
    BY <1>2, Geography
  <2>2. Path(u) = <<u, Parent[u], Parent[Parent[u]]>>
    BY <1>2, Geography DEF Path
  <2>3. IsClimb(Path(u)) /\ Path(u) # <<>> /\ Head(Path(u)) = u
    BY <1>2, <2>2 DEF IsClimb
  <2>4. u \in On(Path(u)) /\ Parent[u] \in On(Path(u))
    BY <2>2 DEF On
  <2> QED BY <2>1, <2>3, <2>4
<1>3. CASE u \in LGAs
  <2>1. u \notin PUs \cup States \cup Nations
    BY <1>3, Geography
  <2>2. Path(u) = <<u, Parent[u]>>
    BY <1>3, Geography DEF Path
  <2>3. IsClimb(Path(u)) /\ Path(u) # <<>> /\ Head(Path(u)) = u
    BY <1>3, <2>2 DEF IsClimb
  <2>4. u \in On(Path(u)) /\ Parent[u] \in On(Path(u))
    BY <2>2 DEF On
  <2> QED BY <2>1, <2>3, <2>4
<1>4. CASE u \in States \cup Nations
  <2>1. u \notin PUs \cup Wards \cup LGAs
    BY <1>4, Geography
  <2>2. Path(u) = <<>>
    BY <2>1, Geography DEF Path
  <2> QED BY <2>1, <2>2
<1> QED BY <1>1, <1>2, <1>3, <1>4 DEF Units

-----------------------------------------------------------------------------
(* What a lone request knows stays so.                                      *)

LEMMA LoneGoto ==
    ASSUME OneAtATime, TypeOK, NEW r \in Slots, NEW step, NEW q, Goto(r, step, q)
    PROVE  pc' = [s \in Slots |-> step] /\ req' = [s \in Slots |-> q]
BY DEF OneAtATime, TypeOK, Goto

LEMMA KnownBy ==
    ASSUME OneAtATime, TypeOK, NEW r \in Slots, NEW step, NEW q, Goto(r, step, q),
           Knows(q, step)'
    PROVE  Known'
<1>1. \A s \in Slots : req'[s] = q /\ pc'[s] = step
  BY LoneGoto
<1> QED BY <1>1 DEF Known

LEMMA KnownIdle ==
    ASSUME OneAtATime, TypeOK, NEW r \in Slots, Finish(r)
    PROVE  Known'
<1>1. Knows(Blank, "idle")'
  BY DEF Knows, Climbing
<1> QED BY <1>1, KnownBy DEF Finish

LEMMA AfterRollupsKnown ==
    ASSUME OneAtATime, TypeOK, NEW r \in Slots, NEW q, Marking(q), AfterRollups(r, q)
    PROVE  Known'
<1>1. Knows(q, "nextFlagged")' /\ (q.op = "resubmit" => Knows(q, "reread")')
  BY DEF Knows, Climbing, Marking
<1>2. \/ q.op = "resubmit" /\ Goto(r, "reread", q)
      \/ Goto(r, "nextFlagged", q)
      \/ Finish(r)
  BY DEF AfterRollups
<1> QED BY <1>1, <1>2, KnownBy, KnownIdle

LEMMA RollUpKnown ==
    ASSUME OneAtATime, TypeOK, NEW r \in Slots, NEW q, NEW mode \in Modes, Base(q), Marking(q),
           mode = "clear" => \/ q.op = "approve" /\ q.unit \in PUs
                             \/ q.op = "resubmit" /\ q.unit \in Wards \cup LGAs,
           mode = "keep" => q.unit \notin PUs /\ lastLog'[q.unit] = "REJECTED",
           RollUp(r, q, mode)
    PROVE  Known'
<1>1. CASE Path(q.unit) = <<>>
  BY <1>1, AfterRollupsKnown DEF RollUp
<1>2. CASE Path(q.unit) # <<>>
  <2>1. PICK n : n = [q EXCEPT !.climb = Path(q.unit), !.mode = mode]
    OBVIOUS
  <2>2. Goto(r, "children", n)
    BY <1>2, <2>1 DEF RollUp
  <2>3. n.unit = q.unit /\ n.marked = q.marked /\ n.op = q.op /\ n.climb = Path(q.unit)
        /\ n.mode = mode
    BY <2>1 DEF Base, Request
  <2>4. IsClimb(n.climb) /\ Marking(n)
    BY <1>2, <2>3, PathClimbs DEF Base, Marking
  <2>5. q.unit \notin PUs => q.unit \in Wards \cup LGAs
    BY <1>2, PathClimbs DEF Base, Units
  <2>6. ModeOK(n)'
    BY <2>3, <2>5, PathClimbs DEF ModeOK, Base
  <2>7. Knows(n, "children")'
    BY <2>4, <2>6 DEF Knows, Climbing, Marking, IsClimb
  <2> QED BY <2>2, <2>7, KnownBy
<1> QED BY <1>1, <1>2

LEMMA NextRollupKnown ==
    ASSUME OneAtATime, TypeOK, NEW r \in Slots, NEW q, Base(q), Marking(q), IsClimb(q.climb),
           NextRollup(r, q)
    PROVE  Known'
<1>1. PICK n : n = [q EXCEPT !.climb = Tail(@), !.mode = "plain", !.seen = {},
                             !.found = FALSE, !.prev = "NONE", !.prevFlags = {}]
  OBVIOUS
<1>2. n.unit = q.unit /\ n.marked = q.marked /\ n.op = q.op /\ n.climb = Tail(q.climb)
      /\ n.mode = "plain"
  BY <1>1 DEF Base, Request
<1>3. IF n.climb = <<>> THEN AfterRollups(r, n) ELSE Goto(r, "children", n)
  BY <1>1 DEF NextRollup
<1>4. Marking(n)
  BY <1>2 DEF Marking
<1>5. CASE n.climb = <<>>
  BY <1>3, <1>4, <1>5, AfterRollupsKnown
<1>6. CASE n.climb # <<>>
  <2>1. IsClimb(n.climb)
    BY <1>2, <1>6, ClimbHead
  <2>2. Knows(n, "children")'
    BY <1>2, <1>4, <2>1 DEF Knows, Climbing, Marking, IsClimb, ModeOK
  <2> QED BY <1>3, <1>6, <2>2, KnownBy
<1> QED BY <1>5, <1>6

LEMMA ReturnRollupsKnown ==
    ASSUME OneAtATime, TypeOK, NEW r \in Slots, NEW q, Base(q), Marking(q),
           lastLog'[q.unit] = "REJECTED", ReturnRollups(r, q)
    PROVE  Known'
<1>1. PICK mode \in Modes : mode = IF q.unit \in PUs THEN "plain" ELSE "keep"
  BY DEF Modes
<1>2. RollUp(r, q, mode)
  BY <1>1 DEF ReturnRollups
<1> QED BY <1>1, <1>2, RollUpKnown
\* The locals with which a request arrives.
LEMMA CallFields ==
    ASSUME NEW op \in Ops, NEW u \in Units
    PROVE  /\ Call(op, u) \in Request /\ Call(op, u).op = op /\ Call(op, u).unit = u
           /\ Call(op, u).marked = {} /\ Call(op, u).kids = {}
<1>1. Blank \in Request
  BY BlankOK DEF LocalOK
<1> QED BY <1>1 DEF Call, Request, Blank

\* A request that arrives only reads.
LEMMA ArrivalReads ==
    ASSUME NEW r, Arrive(r) PROVE pc[r] = "idle" /\ UNCHANGED <<rows, lastLog>>
<1>1. ASSUME NEW u \in Units, NEW f \in Figures, NEW keepsPhotos \in BOOLEAN,
             NEW photo \in BOOLEAN, StartUpsert(r, u, f, keepsPhotos, photo)
      PROVE  pc[r] = "idle" /\ UNCHANGED <<rows, lastLog>>
  BY <1>1 DEF StartUpsert
<1>2. ASSUME NEW u, StartAttach(r, u) \/ StartSubmit(r, u) \/ StartApprove(r, u)
      PROVE  pc[r] = "idle" /\ UNCHANGED <<rows, lastLog>>
  BY <1>2 DEF StartAttach, StartSubmit, StartApprove
<1>3. ASSUME NEW u, NEW by, NEW marked, StartReturn(r, u, by, marked)
      PROVE  pc[r] = "idle" /\ UNCHANGED <<rows, lastLog>>
  BY <1>3 DEF StartReturn
<1>4. ASSUME NEW u, StartResubmit(r, u) \/ StartReturnFlagged(r, u)
      PROVE  pc[r] = "idle" /\ UNCHANGED <<rows, lastLog>>
  BY <1>4 DEF StartResubmit, StartReturnFlagged
<1> QED BY <1>1, <1>2, <1>3, <1>4 DEF Arrive

LEMMA BeginReturnKnown ==
    ASSUME OneAtATime, TypeOK, NEW r \in Slots, NEW q, NEW by, Marking(q),
           q.unit \in Units, status[q.unit] \in Returnable, q.op \in {"return", "bulk"},
           BeginReturn(r, q, by), UNCHANGED <<rows, lastLog>>
    PROVE  Known'
<1>1. Knows(q, "wardCheck")' /\ Knows(q, "return")'
  BY DEF Knows, Climbing, Marking, rows
<1>2. Goto(r, "wardCheck", q) \/ Goto(r, "return", q)
  BY DEF BeginReturn
<1> QED BY <1>1, <1>2, KnownBy

LEMMA ArriveKnown ==
    ASSUME OneAtATime, TypeOK, NEW r \in Slots, Arrive(r)
    PROVE  Known'
<1>0. UNCHANGED rows /\ UNCHANGED lastLog
  BY DEF Arrive, StartUpsert, StartAttach, StartSubmit, StartApprove, StartReturn,
         StartResubmit, StartReturnFlagged
<1>1. ASSUME NEW u \in Units, NEW f \in Figures, NEW keepsPhotos \in BOOLEAN,
             NEW photo \in BOOLEAN, StartUpsert(r, u, f, keepsPhotos, photo)
      PROVE  Known'
  <2>1. PICK q : q = [Call("upsert", u) EXCEPT !.seen = SheetOf(u, f), !.photo = photo]
    OBVIOUS
  <2>2. q.unit = u /\ q.marked = {}
    BY <2>1, CallFields DEF Ops, Request
  <2>3. status[u] \in {"NONE"} \cup Editable /\ Goto(r, "save", q)
    BY <1>1, <2>1 DEF StartUpsert
  <2>4. Knows(q, "save")'
    BY <1>0, <2>2, <2>3 DEF Knows, Climbing, Marking, rows
  <2> QED BY <2>3, <2>4, KnownBy
<1>2. ASSUME NEW p \in PUs, StartAttach(r, p) PROVE Known'
  <2>1. PICK q : q = Call("attach", p)
    OBVIOUS
  <2>2. q.unit = p /\ q.marked = {}
    BY <2>1, CallFields DEF Ops, Units
  <2>3. status[p] \in Editable /\ Goto(r, "attach", q)
    BY <1>2, <2>1 DEF StartAttach
  <2>4. Knows(q, "attach")'
    BY <1>0, <2>2, <2>3 DEF Knows, Climbing, Marking, rows
  <2> QED BY <2>3, <2>4, KnownBy
<1>3. ASSUME NEW u \in Units, StartSubmit(r, u) PROVE Known'
  <2>1. PICK q : q = Call("submit", u)
    OBVIOUS
  <2>2. q.unit = u /\ q.marked = {} /\ q.op = "submit"
    BY <2>1, CallFields DEF Ops
  <2>3. status[u] \in Editable /\ (u \in PUs => form[u]) /\ Goto(r, "submit", q)
    BY <1>3, <2>1 DEF StartSubmit
  <2>4. Knows(q, "submit")'
    BY <1>0, <2>2, <2>3 DEF Knows, Climbing, Marking, rows
  <2> QED BY <2>3, <2>4, KnownBy
<1>4. ASSUME NEW p \in PUs, StartApprove(r, p) PROVE Known'
  <2>1. PICK q : q = Call("approve", p)
    OBVIOUS
  <2>2. q.unit = p /\ q.marked = {} /\ q.op = "approve"
    BY <2>1, CallFields DEF Ops, Units
  <2>3. status[p] = "SUBMITTED" /\ Goto(r, "approve", q)
    BY <1>4, <2>1 DEF StartApprove
  <2>4. Knows(q, "approve")'
    BY <1>0, <2>2, <2>3 DEF Knows, Climbing, Marking, rows
  <2> QED BY <2>3, <2>4, KnownBy
<1>5. ASSUME NEW u \in Units, NEW by \in Reviewers, NEW marked \in SUBSET Markable(by, u),
             StartReturn(r, u, by, marked)
      PROVE  Known'
  <2>1. PICK q : q = [Call("return", u) EXCEPT !.marked = marked]
    OBVIOUS
  <2>2. q.unit = u /\ q.marked = marked /\ q.op = "return"
    BY <2>1, CallFields DEF Ops, Request
  <2>3. Marking(q)
    BY <2>2 DEF Marking, Markable
  <2>4. status[u] \in Returnable /\ BeginReturn(r, q, by)
    BY <1>5, <2>1 DEF StartReturn
  <2> QED BY <1>0, <2>2, <2>3, <2>4, BeginReturnKnown
<1>6. ASSUME NEW u \in Units, StartResubmit(r, u) PROVE Known'
  <2>1. PICK q : q = Call("resubmit", u)
    OBVIOUS
  <2>2. q.unit = u /\ q.marked = {} /\ q.op = "resubmit" /\ Base(q)
    BY <2>1, CallFields, CallOK DEF Ops
  <2>3. Marking(q)
    BY <2>2 DEF Marking
  <2>4. u \in Wards \cup LGAs /\ RollUp(r, q, "clear")
    BY <1>6, <2>1 DEF StartResubmit
  <2> QED BY <2>2, <2>3, <2>4, RollUpKnown DEF Modes
<1>7. ASSUME NEW w \in Wards, StartReturnFlagged(r, w) PROVE Known'
  <2>1. PICK q : q = [Call("bulk", w) EXCEPT !.rest = flags[w]]
    OBVIOUS
  <2>2. q.marked = {}
    BY <2>1, CallFields DEF Ops, Units, Request
  <2>3. Goto(r, "flagged", q)
    BY <1>7, <2>1 DEF StartReturnFlagged
  <2>4. Knows(q, "flagged")'
    BY <2>2 DEF Knows, Climbing, Marking
  <2> QED BY <2>3, <2>4, KnownBy
<1> QED BY <1>1, <1>2, <1>3, <1>4, <1>5, <1>6, <1>7 DEF Arrive

LEMMA SubmitKnown ==
    ASSUME OneAtATime, IInv, Known, NEW r \in Slots, Submit(r) PROVE Known'
<1>1. TypeOK /\ LocalOK(req[r], "submit") /\ Knows(req[r], "submit")
  BY DEF IInv, InFlight, Known, Submit
<1>2. PICK q : q = [req[r] EXCEPT !.entry = "SUBMITTED"]
  OBVIOUS
<1>3. q.unit = req[r].unit /\ q.marked = req[r].marked /\ q.op = "submit" /\ q.entry = "SUBMITTED"
  BY <1>1, <1>2 DEF LocalOK, Base, Request, Knows
<1>4. status'[q.unit] = "SUBMITTED" /\ Goto(r, "log", q)
  BY <1>1, <1>2, <1>3 DEF Submit, TypeOK, LocalOK, Base
<1>5. Knows(q, "log")'
  BY <1>1, <1>3, <1>4 DEF Knows, Climbing, Marking
<1> QED BY <1>1, <1>4, <1>5, KnownBy

LEMMA ApproveKnown ==
    ASSUME OneAtATime, IInv, Known, NEW r \in Slots, Approve(r) PROVE Known'
<1>1. TypeOK /\ LocalOK(req[r], "approve") /\ Knows(req[r], "approve")
  BY DEF IInv, InFlight, Known, Approve
<1>2. PICK q : q = [req[r] EXCEPT !.entry = "APPROVED"]
  OBVIOUS
<1>3. q.unit = req[r].unit /\ q.marked = req[r].marked /\ q.op = "approve" /\ q.entry = "APPROVED"
  BY <1>1, <1>2 DEF LocalOK, Base, Request, Knows
<1>4. status'[q.unit] = "APPROVED" /\ Goto(r, "log", q)
  BY <1>1, <1>2, <1>3 DEF Approve, TypeOK, LocalOK, Base
<1>5. Knows(q, "log")'
  BY <1>1, <1>3, <1>4 DEF Knows, Climbing, Marking, LocalOK
<1> QED BY <1>1, <1>4, <1>5, KnownBy

LEMMA ReturnKnown ==
    ASSUME OneAtATime, IInv, Known, NEW r \in Slots, Return(r) PROVE Known'
<1>1. TypeOK /\ LocalOK(req[r], "return") /\ Knows(req[r], "return")
  BY DEF IInv, InFlight, Known, Return
<1>2. PICK q : q = [req[r] EXCEPT !.entry = "REJECTED"]
  OBVIOUS
<1>3. q.unit = req[r].unit /\ q.marked = req[r].marked /\ q.op \in {"return", "bulk"}
      /\ q.entry = "REJECTED"
  BY <1>1, <1>2 DEF LocalOK, Base, Request, Knows
<1>4. status'[q.unit] = "REJECTED" /\ Goto(r, "log", q)
  BY <1>1, <1>2, <1>3 DEF Return, TypeOK, LocalOK, Base
<1>5. Knows(q, "log")'
  BY <1>1, <1>3, <1>4 DEF Knows, Climbing, Marking
<1> QED BY <1>1, <1>4, <1>5, KnownBy

LEMMA WardCheckKnown ==
    ASSUME OneAtATime, IInv, Known, NEW r \in Slots, WardCheck(r) PROVE Known'
<1>1. TypeOK /\ Knows(req[r], "wardCheck")
  BY DEF IInv, Known, WardCheck
<1>2. CASE Goto(r, "return", req[r])
  <2>1. PICK q : q = req[r]
    OBVIOUS
  <2>2. Knows(q, "return")'
    BY <1>1, <2>1 DEF WardCheck, Knows, Climbing, Marking, rows
  <2> QED BY <1>1, <1>2, <2>1, <2>2, KnownBy
<1>3. CASE Finish(r)
  BY <1>1, <1>3, KnownIdle
<1> QED BY <1>2, <1>3 DEF WardCheck

LEMMA FindMarkedKnown ==
    ASSUME OneAtATime, IInv, Known, NEW r \in Slots, FindMarked(r) PROVE Known'
<1>1. TypeOK /\ LocalOK(req[r], "marked") /\ Base(req[r]) /\ Knows(req[r], "marked")
  BY DEF IInv, InFlight, Known, FindMarked, LocalOK
<1>2. PICK o : o = req[r]
  OBVIOUS
<1>3. PICK kids : kids = {k \in o.marked : status[k] \in Returnable}
  OBVIOUS
<1>4. PICK q : q = [o EXCEPT !.kids = kids]
  OBVIOUS
<1>5. q.unit = o.unit /\ q.marked = o.marked /\ q.op = o.op /\ q.kids = kids
  BY <1>1, <1>2, <1>4 DEF Base, Request
<1>6. lastLog'[o.unit] = "REJECTED" /\ Marking(o) /\ Base(o) /\ UNCHANGED <<rows, lastLog>>
  BY <1>1, <1>2 DEF FindMarked, Knows
<1>7. CASE ReturnRollups(r, o)
  BY <1>1, <1>6, <1>7, ReturnRollupsKnown
<1>8. CASE Goto(r, "kid", q)
  <2>1. Knows(q, "kid")'
    BY <1>1, <1>2, <1>3, <1>5, <1>6 DEF Knows, Climbing, Marking, rows
  <2> QED BY <1>1, <1>8, <2>1, KnownBy
<1> QED BY <1>2, <1>3, <1>4, <1>7, <1>8 DEF FindMarked

LEMMA ReturnKidKnown ==
    ASSUME OneAtATime, IInv, Known, NEW r \in Slots, NEW k \in Units, ReturnKid(r, k)
    PROVE  Known'
<1>1. TypeOK /\ LocalOK(req[r], "kid") /\ Base(req[r]) /\ Knows(req[r], "kid")
  BY DEF IInv, InFlight, Known, ReturnKid, LocalOK
<1>2. PICK o : o = req[r]
  OBVIOUS
<1>3. PICK q : q = [o EXCEPT !.kids = @ \ {k}, !.kid = k]
  OBVIOUS
<1>4. q.unit = o.unit /\ q.marked = o.marked /\ q.op = o.op /\ q.kids = o.kids \ {k} /\ q.kid = k
  BY <1>1, <1>2, <1>3 DEF Base, Request
<1>5. /\ k \in o.kids /\ Goto(r, "kidLog", q) /\ status' = [status EXCEPT ![k] = "REJECTED"]
      /\ lastLog' = lastLog
  BY <1>2, <1>3 DEF ReturnKid
<1>6. status'[k] = "REJECTED" /\ \A j \in o.kids \ {k} : status'[j] = status[j]
  BY <1>1, <1>5 DEF TypeOK
<1>7. Knows(q, "kidLog")'
  BY <1>1, <1>2, <1>4, <1>5, <1>6 DEF Knows, Climbing, Marking
<1> QED BY <1>1, <1>5, <1>7, KnownBy

LEMMA LogKidKnown ==
    ASSUME OneAtATime, IInv, Known, NEW r \in Slots, LogKid(r) PROVE Known'
<1>1. TypeOK /\ LocalOK(req[r], "kidLog") /\ Base(req[r]) /\ Knows(req[r], "kidLog")
  BY DEF IInv, InFlight, Known, LogKid, LocalOK
<1>2. PICK o : o = req[r]
  OBVIOUS
<1>3. PICK q : q = [o EXCEPT !.kid = NoUnit]
  OBVIOUS
<1>4. q.unit = o.unit /\ q.marked = o.marked /\ q.op = o.op /\ q.kids = o.kids /\ q \in Request
  BY <1>1, <1>2, <1>3 DEF Base, Request
<1>5. /\ lastLog' = [lastLog EXCEPT ![o.kid] = "REJECTED"] /\ UNCHANGED rows
      /\ IF q.kids = {} THEN ReturnRollups(r, q) ELSE Goto(r, "kid", q)
  BY <1>2, <1>3 DEF LogKid
<1>6. lastLog'[o.unit] = "REJECTED"
  BY <1>1, <1>2, <1>5 DEF TypeOK, Knows, Base
<1>7. Base(q) /\ Marking(q)
  BY <1>1, <1>2, <1>4 DEF Base, Marking, Knows
<1>8. CASE q.kids = {}
  BY <1>1, <1>4, <1>5, <1>6, <1>7, <1>8, ReturnRollupsKnown
<1>9. CASE q.kids # {}
  <2>1. Knows(q, "kid")'
    BY <1>1, <1>2, <1>4, <1>5, <1>6, <1>7 DEF Knows, Climbing, Marking, rows
  <2> QED BY <1>1, <1>5, <1>9, <2>1, KnownBy
<1> QED BY <1>8, <1>9
LEMMA WriteLogKnown ==
    ASSUME OneAtATime, IInv, Known, NEW r \in Slots, WriteLog(r) PROVE Known'
<1>1. TypeOK /\ LocalOK(req[r], "log") /\ Base(req[r]) /\ Knows(req[r], "log")
  BY DEF IInv, InFlight, Known, WriteLog, LocalOK
<1>2. PICK q : q = req[r]
  OBVIOUS
<1>3. Base(q) /\ Marking(q) /\ lastLog' = [lastLog EXCEPT ![q.unit] = q.entry]
      /\ UNCHANGED rows
  BY <1>1, <1>2 DEF WriteLog, Knows
<1>4. lastLog'[q.unit] = q.entry
  BY <1>1, <1>3 DEF TypeOK, Base
<1>5. CASE q.op = "approve"
  <2>1. RollUp(r, q, "clear") /\ q.unit \in PUs
    BY <1>1, <1>2, <1>5 DEF WriteLog, Knows
  <2> QED BY <1>1, <1>3, <1>5, <2>1, RollUpKnown DEF Modes
<1>6. CASE q.op \in {"return", "bulk"} /\ q.marked # {}
  <2>1. Goto(r, "marked", q)
    BY <1>2, <1>6 DEF WriteLog
  <2>2. Knows(q, "marked")'
    BY <1>1, <1>2, <1>3, <1>4, <1>6 DEF Knows, Climbing, Marking
  <2> QED BY <1>1, <2>1, <2>2, KnownBy
<1>7. CASE q.op \in {"return", "bulk"} /\ q.marked = {}
  <2>1. ReturnRollups(r, q)
    BY <1>2, <1>7 DEF WriteLog
  <2>2. lastLog'[q.unit] = "REJECTED"
    BY <1>1, <1>2, <1>4, <1>7 DEF Knows
  <2> QED BY <1>1, <1>3, <2>1, <2>2, ReturnRollupsKnown
<1>8. CASE q.op \notin {"approve", "return", "bulk"}
  <2>1. Finish(r)
    BY <1>2, <1>8 DEF WriteLog
  <2> QED BY <1>1, <2>1, KnownIdle
<1> QED BY <1>5, <1>6, <1>7, <1>8

\* What rollupToParent adds up is what the row should be.
LEMMA CountedBeneath ==
    ASSUME TypeOK, NEW u \in Wards \cup LGAs \cup States
    PROVE  UNION {tally[k] : k \in {c \in Children(u) : status[c] \in Countable(u)}} = Beneath(u)
<1>1. ASSUME NEW k \in Children(u)
      PROVE  status[k] \in Countable(u) <=>
                 IF k \in PUs THEN status[k] = "APPROVED" ELSE status[k] \notin {"NONE", "DRAFT"}
  <2>1. k \in DOMAIN Parent /\ Parent[k] = u /\ k \in Units
    BY Geography DEF Children, Units
  <2>2. k \in PUs <=> u \in Wards
    BY <2>1, Geography
  <2>3. status[k] \in Statuses
    BY <2>1 DEF TypeOK
  <2> QED BY <2>2, <2>3 DEF Countable, Statuses
<1>2. {c \in Children(u) : status[c] \in Countable(u)} =
      {c \in Children(u) :
          IF c \in PUs THEN status[c] = "APPROVED" ELSE status[c] \notin {"NONE", "DRAFT"}}
  BY <1>1
<1> QED BY <1>2 DEF Beneath

LEMMA BeneathSame ==
    ASSUME UNCHANGED rows, NEW u PROVE Beneath(u)' = Beneath(u)
BY DEF rows, Beneath, Children

LEMMA ReadChildrenKnown ==
    ASSUME OneAtATime, IInv, Known, NEW r \in Slots, ReadChildren(r) PROVE Known'
<1>1. TypeOK /\ LocalOK(req[r], "children") /\ Base(req[r]) /\ Knows(req[r], "children")
  BY DEF IInv, InFlight, Known, ReadChildren, LocalOK
<1>2. PICK o : o = req[r]
  OBVIOUS
<1>3. PICK u : u = Head(o.climb)
  OBVIOUS
<1>4. PICK counted : counted = {k \in Children(u) : status[k] \in Countable(u)}
  OBVIOUS
<1>5. PICK sum : sum = UNION {tally[k] : k \in counted}
  OBVIOUS
<1>6. PICK q : q = [o EXCEPT !.seen = sum, !.found = (counted # {})]
  OBVIOUS
<1>7. q.unit = o.unit /\ q.marked = o.marked /\ q.op = o.op /\ q.climb = o.climb
      /\ q.seen = sum /\ q.mode = o.mode
  BY <1>1, <1>2, <1>6 DEF Base, Request
<1>8. IsClimb(o.climb) /\ ModeOK(o) /\ Marking(o)
  BY <1>1, <1>2 DEF Knows, Climbing
<1>9. sum = Beneath(u)
  BY <1>1, <1>3, <1>4, <1>5, <1>8, ClimbHead, CountedBeneath
<1>10. UNCHANGED <<rows, lastLog>> /\ Goto(r, "existing", q)
  BY <1>2, <1>3, <1>4, <1>5, <1>6 DEF ReadChildren
<1>11. sum = Beneath(u)'
  BY <1>9, <1>10, BeneathSame
<1>12. ModeOK(q)'
  BY <1>7, <1>8, <1>10 DEF ModeOK
<1>13. Knows(q, "existing")'
  BY <1>3, <1>7, <1>8, <1>11, <1>12 DEF Knows, Climbing, Marking, IsClimb
<1> QED BY <1>1, <1>10, <1>13, KnownBy

LEMMA ReadExistingKnown ==
    ASSUME OneAtATime, IInv, Known, NEW r \in Slots, ReadExisting(r) PROVE Known'
<1>1. TypeOK /\ LocalOK(req[r], "existing") /\ Base(req[r]) /\ Knows(req[r], "existing")
  BY DEF IInv, InFlight, Known, ReadExisting, LocalOK
<1>2. PICK o : o = req[r]
  OBVIOUS
<1>3. PICK u : u = Head(o.climb)
  OBVIOUS
<1>4. PICK q : q = [o EXCEPT !.prev = status[u], !.prevFlags = flags[u]]
  OBVIOUS
<1>5. q.unit = o.unit /\ q.marked = o.marked /\ q.op = o.op /\ q.climb = o.climb
      /\ q.seen = o.seen /\ q.mode = o.mode /\ q.prev = status[u]
  BY <1>1, <1>2, <1>4 DEF Base, Request
<1>6. IsClimb(o.climb) /\ ModeOK(o) /\ Marking(o) /\ o.seen = Beneath(u) /\ Base(o)
  BY <1>1, <1>2, <1>3 DEF Knows, Climbing
<1>7. UNCHANGED <<rows, lastLog>> /\ (NextRollup(r, o) \/ Goto(r, "rollup", q))
  BY <1>2, <1>3, <1>4 DEF ReadExisting
<1>8. CASE NextRollup(r, o)
  BY <1>1, <1>6, <1>8, NextRollupKnown
<1>9. CASE Goto(r, "rollup", q)
  <2>1. o.seen = Beneath(u)' /\ q.prev = status'[u]
    BY <1>5, <1>6, <1>7, BeneathSame DEF rows
  <2>2. ModeOK(q)'
    BY <1>5, <1>6, <1>7 DEF ModeOK
  <2>3. Knows(q, "rollup")'
    BY <1>3, <1>5, <1>6, <2>1, <2>2 DEF Knows, Climbing, Marking, IsClimb
  <2> QED BY <1>1, <1>9, <2>3, KnownBy
<1> QED BY <1>7, <1>8, <1>9

LEMMA WriteRollupKnown ==
    ASSUME OneAtATime, IInv, Known, NEW r \in Slots, WriteRollup(r) PROVE Known'
<1>1. TypeOK /\ LocalOK(req[r], "rollup") /\ Base(req[r]) /\ Knows(req[r], "rollup")
  BY DEF IInv, InFlight, Known, WriteRollup, LocalOK
<1>2. PICK q : q = req[r]
  OBVIOUS
<1>3. IsClimb(q.climb) /\ Marking(q) /\ Base(q)
  BY <1>1, <1>2 DEF Knows, Climbing
<1>4. NextRollup(r, q)
  BY <1>2 DEF WriteRollup
<1> QED BY <1>1, <1>3, <1>4, NextRollupKnown

LEMMA RereadKnown ==
    ASSUME OneAtATime, IInv, Known, NEW r \in Slots, Reread(r) PROVE Known'
<1>1. TypeOK /\ LocalOK(req[r], "reread") /\ Base(req[r]) /\ Knows(req[r], "reread")
  BY DEF IInv, InFlight, Known, Reread, LocalOK
<1>2. PICK o : o = req[r]
  OBVIOUS
<1>3. PICK q : q = [o EXCEPT !.entry = status[o.unit]]
  OBVIOUS
<1>4. q.unit = o.unit /\ q.marked = o.marked /\ q.op = o.op /\ q.entry = status[o.unit]
  BY <1>1, <1>2, <1>3 DEF Base, Request
<1>5. Goto(r, "log", q) /\ UNCHANGED rows
  BY <1>2, <1>3 DEF Reread
<1>6. o.op = "resubmit"
  BY <1>1, <1>2 DEF Reread, Knows
<1>7. Knows(q, "log")'
  BY <1>1, <1>2, <1>4, <1>5, <1>6 DEF Knows, Climbing, Marking, rows
<1> QED BY <1>1, <1>5, <1>7, KnownBy

LEMMA FindFlaggedKnown ==
    ASSUME OneAtATime, IInv, Known, NEW r \in Slots, FindFlagged(r) PROVE Known'
<1>1. TypeOK /\ LocalOK(req[r], "flagged") /\ Base(req[r]) /\ Knows(req[r], "flagged")
  BY DEF IInv, InFlight, Known, FindFlagged, LocalOK
<1>2. PICK found : found = {p \in req[r].rest : status[p] \in Returnable}
  OBVIOUS
<1>3. PICK q : q = [req[r] EXCEPT !.rest = found]
  OBVIOUS
<1>4. q.unit = req[r].unit /\ q.marked = req[r].marked
  BY <1>1, <1>3 DEF Base, Request
<1>5. Knows(q, "nextFlagged")'
  BY <1>1, <1>4 DEF Knows, Climbing, Marking
<1>6. Finish(r) \/ Goto(r, "nextFlagged", q)
  BY <1>2, <1>3 DEF FindFlagged
<1> QED BY <1>1, <1>5, <1>6, KnownBy, KnownIdle

LEMMA ReturnNextFlaggedKnown ==
    ASSUME OneAtATime, IInv, Known, NEW r \in Slots, NEW p \in Units, ReturnNextFlagged(r, p)
    PROVE  Known'
<1>1. TypeOK /\ LocalOK(req[r], "nextFlagged") /\ Base(req[r])
  BY DEF IInv, InFlight, ReturnNextFlagged, LocalOK
<1>2. PICK q : q = [req[r] EXCEPT !.unit = p, !.rest = @ \ {p}]
  OBVIOUS
<1>3. q.unit = p /\ q.marked = {} /\ q.op = "bulk"
  BY <1>1, <1>2 DEF LocalOK, Base, Request
<1>4. Marking(q)
  BY <1>3 DEF Marking
<1>5. CASE status[p] \in Returnable
  <2>1. BeginReturn(r, q, "WARD") /\ UNCHANGED <<rows, lastLog>>
    BY <1>2, <1>5 DEF ReturnNextFlagged
  <2> QED BY <1>1, <1>3, <1>4, <1>5, <2>1, BeginReturnKnown
<1>6. CASE status[p] \notin Returnable
  BY <1>1, <1>6, KnownIdle DEF ReturnNextFlagged
<1> QED BY <1>5, <1>6

LEMMA NextKnown ==
    ASSUME OneAtATime, IInv, Known, [Next]_vars
    PROVE  Known'
<1>1. TypeOK
  BY DEF IInv
<1>2. ASSUME NEW r \in Slots, Arrive(r) PROVE Known'
  BY <1>1, <1>2, ArriveKnown
<1>3. ASSUME NEW r \in Slots, Proceed(r) PROVE Known'
  <2>1. CASE Save(r) \/ Attach(r)
    BY <1>1, <2>1, KnownIdle DEF Save, Attach
  <2> QED BY <1>3, <2>1, SubmitKnown, ApproveKnown, WardCheckKnown, ReturnKnown, FindMarkedKnown,
             ReturnKidKnown, LogKidKnown, WriteLogKnown, ReadChildrenKnown, ReadExistingKnown,
             WriteRollupKnown, RereadKnown, FindFlaggedKnown, ReturnNextFlaggedKnown DEF Proceed
<1>4. ASSUME NEW r \in Slots, Fail(r) PROVE Known'
  BY <1>1, <1>4, KnownIdle DEF Fail
<1>5. CASE UNCHANGED vars
  BY <1>5 DEF vars, Known, Knows, Climbing, Marking, IsClimb, ModeOK, Beneath, Children
<1> QED BY <1>2, <1>3, <1>4, <1>5 DEF Next, Serve

LEMMA InitKnown == Init => Known
BY DEF Init, Known, Knows, Climbing
-----------------------------------------------------------------------------
(* The lifecycle of a sheet.                                                *)

\* A step that changes nothing of the rows of units is none of the lifecycle.
LEMMA OutOfSight ==
    ASSUME \A p \in PUs : status'[p] = status[p] /\ tally'[p] = tally[p] /\ form'[p] = form[p]
    PROVE  UNCHANGED Lifecycle!vars
<1>1. /\ [p \in PUs |-> status[p]]' = [p \in PUs |-> status[p]]
      /\ [p \in PUs |-> tally[p]]' = [p \in PUs |-> tally[p]]
      /\ [p \in PUs |-> form[p]]' = [p \in PUs |-> form[p]]
  OBVIOUS
<1> QED BY <1>1 DEF Lifecycle!vars

\* A step that moves the row of a unit to another status.
LEMMA MoveSeen ==
    ASSUME TypeOK, NEW u \in PUs, NEW to, status' = [status EXCEPT ![u] = to]
    PROVE  [p \in PUs |-> status[p]]' = [[p \in PUs |-> status[p]] EXCEPT ![u] = to]
BY DEF TypeOK, Units

LEMMA SheetsKept ==
    ASSUME UNCHANGED <<tally, form>>
    PROVE  UNCHANGED <<[p \in PUs |-> tally[p]], [p \in PUs |-> form[p]]>>
OBVIOUS

LEMMA RowAlone ==
    ASSUME TypeOK, NEW u \in Units, NEW to, status' = [status EXCEPT ![u] = to],
           UNCHANGED <<tally, form>>, u \notin PUs
    PROVE  UNCHANGED Lifecycle!vars
<1>1. \A p \in PUs : status'[p] = status[p]
  BY DEF TypeOK, Units
<1> QED BY <1>1, OutOfSight

LEMMA SaveSeen ==
    ASSUME IInv, Known, NEW r \in Slots, Save(r)
    PROVE  [Lifecycle!Next]_(Lifecycle!vars)
<1>0. PICK u : u = req[r].unit
  OBVIOUS
<1>1. TypeOK /\ LocalOK(req[r], "save") /\ Knows(req[r], "save")
  BY DEF IInv, InFlight, Known, Save
<1>2. u \in Units /\ req[r].seen \in SUBSET Sheet /\ req[r].photo \in BOOLEAN
      /\ status[u] \in {"NONE", "DRAFT", "REJECTED"}
  BY <1>0, <1>1 DEF LocalOK, Base, Request, Knows, Editable
<1>3. /\ status' = [status EXCEPT ![u] = "DRAFT"] /\ tally' = [tally EXCEPT ![u] = req[r].seen]
      /\ form' = [form EXCEPT ![u] = req[r].photo]
  BY <1>0 DEF Save
<1>4. CASE u \in PUs
  <2>1. [p \in PUs |-> status[p]]' = [[p \in PUs |-> status[p]] EXCEPT ![u] = "DRAFT"]
    BY <1>1, <1>3, <1>4 DEF TypeOK, Units
  <2>2. [p \in PUs |-> tally[p]]' = [[p \in PUs |-> tally[p]] EXCEPT ![u] = req[r].seen]
    BY <1>1, <1>3, <1>4 DEF TypeOK, Units
  <2>3. [p \in PUs |-> form[p]]' = [[p \in PUs |-> form[p]] EXCEPT ![u] = req[r].photo]
    BY <1>1, <1>3, <1>4 DEF TypeOK, Units
  <2>4. Lifecycle!Move(u, {"NONE", "DRAFT", "REJECTED"}, "DRAFT")
    BY <1>2, <1>4, <2>1 DEF Lifecycle!Move
  <2>5. Lifecycle!Save(u)
    BY <1>2, <2>2, <2>3, <2>4 DEF Lifecycle!Save
  <2> QED BY <1>4, <2>5 DEF Lifecycle!Next
<1>5. CASE u \notin PUs
  <2>1. \A p \in PUs : status'[p] = status[p] /\ tally'[p] = tally[p] /\ form'[p] = form[p]
    BY <1>1, <1>3, <1>5 DEF TypeOK, Units
  <2> QED BY <2>1, OutOfSight
<1> QED BY <1>4, <1>5

LEMMA AttachSeen ==
    ASSUME IInv, Known, NEW r \in Slots, Attach(r)
    PROVE  [Lifecycle!Next]_(Lifecycle!vars)
<1>0. PICK u : u = req[r].unit
  OBVIOUS
<1>1. TypeOK /\ LocalOK(req[r], "attach") /\ Knows(req[r], "attach")
  BY DEF IInv, InFlight, Known, Attach
<1>2. u \in PUs /\ status[u] \in {"DRAFT", "REJECTED"}
  BY <1>0, <1>1 DEF LocalOK, Knows, Editable
<1>3. form' = [form EXCEPT ![u] = TRUE] /\ UNCHANGED <<status, tally>>
  BY <1>0 DEF Attach
<1>4. [p \in PUs |-> form[p]]' = [[p \in PUs |-> form[p]] EXCEPT ![u] = TRUE]
  BY <1>1, <1>2, <1>3 DEF TypeOK, Units
<1>5. UNCHANGED <<[p \in PUs |-> status[p]], [p \in PUs |-> tally[p]]>>
  BY <1>3
<1>6. Lifecycle!Attach(u)
  BY <1>2, <1>4, <1>5 DEF Lifecycle!Attach
<1> QED BY <1>2, <1>6 DEF Lifecycle!Next

LEMMA SubmitSeen ==
    ASSUME IInv, Known, NEW r \in Slots, Submit(r)
    PROVE  [Lifecycle!Next]_(Lifecycle!vars)
<1>0. PICK u : u = req[r].unit
  OBVIOUS
<1>1. TypeOK /\ LocalOK(req[r], "submit") /\ Knows(req[r], "submit")
  BY DEF IInv, InFlight, Known, Submit
<1>2. u \in Units /\ status[u] \in {"DRAFT", "REJECTED"} /\ (u \in PUs => form[u])
  BY <1>0, <1>1 DEF LocalOK, Base, Knows, Editable
<1>3. status' = [status EXCEPT ![u] = "SUBMITTED"] /\ UNCHANGED <<tally, form>>
  BY <1>0 DEF Submit
<1>4. CASE u \in PUs
  <2>1. Lifecycle!Move(u, {"DRAFT", "REJECTED"}, "SUBMITTED")
    <3>1. [p \in PUs |-> status[p]]' = [[p \in PUs |-> status[p]] EXCEPT ![u] = "SUBMITTED"]
      BY <1>1, <1>3, <1>4, MoveSeen
    <3> QED BY <1>2, <1>4, <3>1 DEF Lifecycle!Move
  <2>2. Lifecycle!Submit(u)
    BY <1>2, <1>3, <1>4, <2>1, SheetsKept DEF Lifecycle!Submit
  <2> QED BY <1>4, <2>2 DEF Lifecycle!Next
<1>5. CASE u \notin PUs
  BY <1>1, <1>2, <1>3, <1>5, RowAlone
<1> QED BY <1>4, <1>5

LEMMA ApproveSeen ==
    ASSUME IInv, Known, NEW r \in Slots, Approve(r)
    PROVE  [Lifecycle!Next]_(Lifecycle!vars)
<1>0. PICK u : u = req[r].unit
  OBVIOUS
<1>1. TypeOK /\ LocalOK(req[r], "approve") /\ Knows(req[r], "approve")
  BY DEF IInv, InFlight, Known, Approve
<1>2. u \in Units /\ u \in PUs /\ status[u] \in {"SUBMITTED"}
  BY <1>0, <1>1 DEF LocalOK, Base, Knows
<1>3. status' = [status EXCEPT ![u] = "APPROVED"] /\ UNCHANGED <<tally, form>>
  BY <1>0 DEF Approve
<1>4. Lifecycle!Move(u, {"SUBMITTED"}, "APPROVED")
  <2>1. [p \in PUs |-> status[p]]' = [[p \in PUs |-> status[p]] EXCEPT ![u] = "APPROVED"]
    BY <1>1, <1>2, <1>3, MoveSeen
  <2> QED BY <1>2, <2>1 DEF Lifecycle!Move
<1>5. Lifecycle!Approve(u)
  BY <1>3, <1>4, SheetsKept DEF Lifecycle!Approve
<1> QED BY <1>2, <1>5 DEF Lifecycle!Next

\* A row returned, by its own reviewer or with its parent.
LEMMA ReturnedSeen ==
    ASSUME TypeOK, NEW u \in Units, status[u] \in Returnable,
           status' = [status EXCEPT ![u] = "REJECTED"], UNCHANGED <<tally, form>>
    PROVE  [Lifecycle!Next]_(Lifecycle!vars)
<1>1. CASE u \in PUs
  <2>1. status[u] \in {"SUBMITTED", "APPROVED"}
    BY DEF Returnable
  <2>2. Lifecycle!Move(u, {"SUBMITTED", "APPROVED"}, "REJECTED")
    <3>1. [p \in PUs |-> status[p]]' = [[p \in PUs |-> status[p]] EXCEPT ![u] = "REJECTED"]
      BY <1>1, MoveSeen
    <3> QED BY <1>1, <2>1, <3>1 DEF Lifecycle!Move
  <2>3. Lifecycle!Return(u)
    BY <2>2, SheetsKept DEF Lifecycle!Return
  <2> QED BY <1>1, <2>3 DEF Lifecycle!Next
<1>2. CASE u \notin PUs
  BY <1>2, RowAlone
<1> QED BY <1>1, <1>2

LEMMA ReturnSeen ==
    ASSUME IInv, Known, NEW r \in Slots, Return(r)
    PROVE  [Lifecycle!Next]_(Lifecycle!vars)
<1>1. TypeOK /\ LocalOK(req[r], "return") /\ Knows(req[r], "return")
  BY DEF IInv, InFlight, Known, Return
<1>2. req[r].unit \in Units /\ status[req[r].unit] \in Returnable
  BY <1>1 DEF LocalOK, Base, Knows
<1> QED BY <1>1, <1>2, ReturnedSeen DEF Return

LEMMA ReturnKidSeen ==
    ASSUME IInv, Known, NEW r \in Slots, NEW k \in Units, ReturnKid(r, k)
    PROVE  [Lifecycle!Next]_(Lifecycle!vars)
<1>1. TypeOK /\ status[k] \in Returnable
  BY DEF IInv, Known, Knows, ReturnKid
<1> QED BY <1>1, ReturnedSeen DEF ReturnKid

LEMMA WriteRollupSeen ==
    ASSUME IInv, Known, NEW r \in Slots, WriteRollup(r)
    PROVE  UNCHANGED Lifecycle!vars
<1> DEFINE u == Head(req[r].climb)
<1>1. TypeOK /\ u \notin PUs
  BY ClimbHead DEF IInv, Known, Knows, Climbing, WriteRollup
<1>2. /\ status' = [status EXCEPT ![u] = RollupStatus(req[r])]
      /\ tally' = [tally EXCEPT ![u] = req[r].seen] /\ UNCHANGED form
  BY DEF WriteRollup
<1>3. \A p \in PUs : status'[p] = status[p] /\ tally'[p] = tally[p] /\ form'[p] = form[p]
  BY <1>1, <1>2 DEF TypeOK, Units
<1> QED BY <1>3, OutOfSight

LEMMA StepSeen ==
    ASSUME IInv, Known, [Next]_vars
    PROVE  [Lifecycle!Next]_(Lifecycle!vars)
<1>1. CASE UNCHANGED rows
  BY <1>1, OutOfSight DEF rows
<1>2. ASSUME NEW r \in Slots, Arrive(r) PROVE UNCHANGED rows
  BY <1>2 DEF Arrive, StartUpsert, StartAttach, StartSubmit, StartApprove, StartReturn,
              StartResubmit, StartReturnFlagged
<1>3. ASSUME NEW r \in Slots, Proceed(r) PROVE [Lifecycle!Next]_(Lifecycle!vars)
  <2>1. \/ Save(r) \/ Attach(r) \/ Submit(r) \/ Approve(r) \/ Return(r)
        \/ \E k \in Units : ReturnKid(r, k)
        \/ WriteRollup(r)
        \/ UNCHANGED rows
    BY <1>3 DEF Proceed, WardCheck, FindMarked, LogKid, WriteLog, ReadChildren, ReadExisting,
                Reread, FindFlagged, ReturnNextFlagged
  <2> QED BY <1>1, <2>1, SaveSeen, AttachSeen, SubmitSeen, ApproveSeen, ReturnSeen, ReturnKidSeen,
             WriteRollupSeen
<1>4. ASSUME NEW r \in Slots, Fail(r) PROVE UNCHANGED rows
  BY <1>4 DEF Fail
<1>5. CASE UNCHANGED vars
  BY <1>1, <1>5 DEF vars, rows
<1> QED BY <1>1, <1>2, <1>3, <1>4, <1>5 DEF Next, Serve

LEMMA InitSeen == Init => Lifecycle!Init
<1> SUFFICES ASSUME Init PROVE Lifecycle!Init
  OBVIOUS
<1>1. \A p \in PUs : status[p] = "NONE" /\ tally[p] = {} /\ form[p] = FALSE
  BY DEF Init, Units
<1>2. [p \in PUs |-> tally[p]] \in [PUs -> SUBSET Sheet]
  BY <1>1
<1>3. [p \in PUs |-> status[p]] = [p \in PUs |-> "NONE"]
      /\ [p \in PUs |-> form[p]] = [p \in PUs |-> FALSE]
  BY <1>1
<1> QED BY <1>2, <1>3 DEF Lifecycle!Init

\* Where requests come one at a time, and even if they die between two awaits, a lone
\* request never writes on what it has read too long ago.
THEOREM LoneInvariance == ASSUME OneAtATime PROVE Spec => [](IInv /\ Known)
<1>1. IInv /\ Known /\ [Next]_vars => (IInv /\ Known)'
  BY NextKeeps, NextKnown
<1> QED BY <1>1, InitOK, InitKnown, PTL DEF Spec

\* Served one at a time, a sheet lives the life the API promises (ResultLifecycle): only
\* what was saved is submitted, only what was submitted is approved, and only what was
\* returned is edited again; every other handler leaves sheets alone.
THEOREM LifecycleFollowed == ASSUME OneAtATime PROVE Spec => FollowsLifecycle
<1>1. IInv /\ Known /\ [Next]_vars => [Lifecycle!Next]_(Lifecycle!vars)
  BY StepSeen
<1> QED BY <1>1, InitSeen, LoneInvariance, PTL DEF Spec, FollowsLifecycle, Lifecycle!Spec

-----------------------------------------------------------------------------
(* A return holds.                                                          *)

\* What a step may publish again.
Republished ==
    \A u \in Wards \cup LGAs :
        status[u] = "REJECTED" /\ status'[u] = "APPROVED" =>
            \E r \in Slots :
                /\ pc[r] = "rollup"
                /\ \/ req[r].op = "approve" /\ u = Parent[req[r].unit]
                   \/ req[r].op = "resubmit" /\ u = req[r].unit

LEMMA StepRepublishes ==
    ASSUME IInv, Known, [Next]_vars PROVE Republished
<1> SUFFICES ASSUME NEW u \in Wards \cup LGAs, status[u] = "REJECTED", status'[u] = "APPROVED"
             PROVE  \E r \in Slots :
                        /\ pc[r] = "rollup"
                        /\ \/ req[r].op = "approve" /\ u = Parent[req[r].unit]
                           \/ req[r].op = "resubmit" /\ u = req[r].unit
  BY DEF Republished
<1>0. TypeOK /\ u \in Units /\ u \notin PUs
  BY Geography DEF IInv, Units
<1>1. PICK r \in Slots : Proceed(r)
  <2>1. UNCHANGED status \/ \E r \in Slots : Proceed(r)
    BY DEF Next, Serve, vars, Fail, rows, Arrive, StartUpsert, StartAttach, StartSubmit,
           StartApprove, StartReturn, StartResubmit, StartReturnFlagged
  <2> QED BY <2>1
<1>2. Approve(r) \/ WriteRollup(r)
  <2>1. CASE Save(r) \/ Submit(r) \/ Return(r) \/ \E k \in Units : ReturnKid(r, k)
    <3>1. \E v : \E to \in {"DRAFT", "SUBMITTED", "REJECTED"} : status' = [status EXCEPT ![v] = to]
      BY <2>1 DEF Save, Submit, Return, ReturnKid
    <3> QED BY <1>0, <3>1 DEF TypeOK
  <2>2. CASE UNCHANGED status
    BY <2>2
  <2> QED BY <1>1, <2>1, <2>2
      DEF Proceed, rows, Attach, WardCheck, FindMarked, LogKid, WriteLog, ReadChildren, ReadExisting,
          Reread, FindFlagged, ReturnNextFlagged
<1>3. CASE Approve(r)
  <2>1. req[r].unit \in PUs
    BY <1>3 DEF IInv, InFlight, LocalOK, Approve
  <2> QED BY <1>0, <1>3, <2>1 DEF Approve, TypeOK
<1>4. CASE WriteRollup(r)
  <2>1. Knows(req[r], "rollup") /\ pc[r] = "rollup" /\ LocalOK(req[r], "rollup")
    BY <1>4 DEF Known, IInv, InFlight, WriteRollup
  <2>2. status' = [status EXCEPT ![Head(req[r].climb)] = RollupStatus(req[r])]
    BY <1>4 DEF WriteRollup
  <2>3. u = Head(req[r].climb) /\ RollupStatus(req[r]) = "APPROVED"
    BY <1>0, <2>2 DEF TypeOK
  <2>4. req[r].prev = "REJECTED" /\ ModeOK(req[r]) /\ req[r].mode \in Modes
    BY <2>1, <2>3 DEF Knows, Climbing, LocalOK, Request
  <2>5. req[r].mode = "clear"
    BY <2>3, <2>4 DEF RollupStatus, Modes
  <2> QED BY <2>1, <2>3, <2>4, <2>5 DEF ModeOK
<1> QED BY <1>2, <1>3, <1>4

\* Served one at a time, a row that was returned is published again only by an approval
\* in it or its own resubmission, also when requests die in the middle of a climb.
THEOREM ReturnsHold == ASSUME OneAtATime PROVE Spec => ReturnHolds
<1>1. IInv /\ Known /\ [Next]_vars => Republished
  BY StepRepublishes
<1>2. Republished => 
          \A u \in Wards \cup LGAs :
              status[u] = "REJECTED" /\ status'[u] = "APPROVED" =>
                  \E r \in Slots :
                      /\ pc[r] = "rollup"
                      /\ \/ req[r].op = "approve" /\ u = Parent[req[r].unit]
                         \/ req[r].op = "resubmit" /\ u = req[r].unit
  BY DEF Republished
<1> QED BY <1>1, <1>2, LoneInvariance, PTL DEF Spec, ReturnHolds
-----------------------------------------------------------------------------
(* The action log, where no request fails.                                  *)

Logged(u) ==
    (u \in PUs /\ status[u] \in Returnable) \/ status[u] = "REJECTED" => lastLog[u] = status[u]

\* A request that has written a status has its log entry to write next.
Owes(q, step, u) == (step = "log" /\ u = q.unit) \/ (step = "kidLog" /\ u = q.kid)

Trail == \A u \in Units : Logged(u) \/ \E r \in Slots : Owes(req[r], pc[r], u)

\* A step of r that changes no row and owes no less than before.
LEMMA TrailKept ==
    ASSUME OneAtATime, Trail, NEW r \in Slots, UNCHANGED <<rows, lastLog>>,
           \A u \in Units : Owes(req[r], pc[r], u) => Owes(req'[r], pc'[r], u)
    PROVE  Trail'
<1>1. ASSUME NEW u \in Units PROVE Logged(u)' \/ \E s \in Slots : Owes(req'[s], pc'[s], u)
  BY <1>1 DEF OneAtATime, Trail, Logged, rows
<1> QED BY <1>1 DEF Trail, Owes

\* A step of r, which owes nothing, that changes the status of one row.
LEMMA TrailWritten ==
    ASSUME OneAtATime, TypeOK, Trail, NEW r \in Slots, pc[r] \notin {"log", "kidLog"},
           NEW v \in Units, NEW to, status' = [status EXCEPT ![v] = to], UNCHANGED lastLog,
           Logged(v)' \/ Owes(req'[r], pc'[r], v)
    PROVE  Trail'
<1>1. ASSUME NEW u \in Units PROVE Logged(u)' \/ \E s \in Slots : Owes(req'[s], pc'[s], u)
  <2>1. CASE u = v
    BY <2>1
  <2>2. CASE u # v
    <3>1. status'[u] = status[u]
      BY <2>2 DEF TypeOK
    <3>2. Logged(u)
      BY DEF OneAtATime, Trail, Owes
    <3> QED BY <3>1, <3>2 DEF Logged
  <2> QED BY <2>1, <2>2
<1> QED BY <1>1 DEF Trail, Owes

\* A step of r that pays what it owes.
LEMMA TrailPaid ==
    ASSUME OneAtATime, TypeOK, Trail, NEW r \in Slots, NEW v, UNCHANGED rows,
           \A u \in Units : Owes(req[r], pc[r], u) => u = v,
           lastLog' = [lastLog EXCEPT ![v] = status[v]]
    PROVE  Trail'
<1>1. ASSUME NEW u \in Units PROVE Logged(u)'
  <2>1. CASE u = v
    BY <2>1 DEF TypeOK, Logged, rows
  <2>2. CASE u # v
    BY <2>2 DEF OneAtATime, TypeOK, Trail, Logged, rows
  <2> QED BY <2>1, <2>2
<1> QED BY <1>1 DEF Trail

LEMMA GotoHere ==
    ASSUME TypeOK, NEW r \in Slots, NEW step, NEW q, Goto(r, step, q)
    PROVE  pc'[r] = step /\ req'[r] = q
BY DEF TypeOK, Goto

LEMMA TrailProceeds ==
    ASSUME OneAtATime, IInv, Known, Trail, NEW r \in Slots, Proceed(r)
    PROVE  Trail'
<1>0. TypeOK /\ LocalOK(req[r], pc[r]) /\ Knows(req[r], pc[r])
  BY DEF IInv, InFlight, Known
<1>1. CASE Save(r)
  <2>1. PICK u \in Units : u = req[r].unit /\ status' = [status EXCEPT ![u] = "DRAFT"]
    BY <1>0, <1>1 DEF LocalOK, Base, Save
  <2>2. Logged(u)'
    BY <1>0, <2>1 DEF Logged, Returnable, TypeOK
  <2> QED BY <1>0, <1>1, <2>1, <2>2, TrailWritten DEF Save
<1>2. CASE Submit(r) \/ Approve(r) \/ Return(r)
  <2>1. PICK u \in Units : u = req[r].unit
    BY <1>0, <1>2 DEF LocalOK, Base, Submit, Approve, Return
  <2>2. PICK e \in Statuses : Goto(r, "log", [req[r] EXCEPT !.entry = e])
                              /\ status' = [status EXCEPT ![u] = e]
    BY <1>2, <2>1 DEF Submit, Approve, Return, Statuses
  <2>3. PICK q : q = [req[r] EXCEPT !.entry = e]
    OBVIOUS
  <2>4. q.unit = u
    BY <1>0, <2>1, <2>3 DEF LocalOK, Request
  <2>5. Owes(req'[r], pc'[r], u)
    BY <1>0, <2>2, <2>3, <2>4, GotoHere DEF Owes
  <2>6. pc[r] \notin {"log", "kidLog"} /\ UNCHANGED lastLog
    BY <1>2 DEF Submit, Approve, Return
  <2> QED BY <1>0, <2>2, <2>5, <2>6, TrailWritten
<1>3. CASE \E k \in Units : ReturnKid(r, k)
  <2>1. PICK k \in Units : ReturnKid(r, k)
    BY <1>3
  <2>2. PICK q : q = [req[r] EXCEPT !.kids = @ \ {k}, !.kid = k]
    OBVIOUS
  <2>3. q.kid = k
    BY <1>0, <2>2 DEF LocalOK, Request
  <2>4. Owes(req'[r], pc'[r], k)
    BY <1>0, <2>1, <2>2, <2>3, GotoHere DEF Owes, ReturnKid
  <2>5. /\ pc[r] = "kid" /\ UNCHANGED lastLog /\ status' = [status EXCEPT ![k] = "REJECTED"]
    BY <2>1 DEF ReturnKid
  <2> QED BY <1>0, <2>4, <2>5, TrailWritten
<1>4. CASE WriteRollup(r)
  <2>1. PICK u \in Units : u = Head(req[r].climb)
    BY <1>0, <1>4, ClimbHead DEF Knows, Climbing, WriteRollup, Units
  <2>2. u \notin PUs /\ ModeOK(req[r]) /\ req[r].prev = status[u] /\ pc[r] = "rollup"
    BY <1>0, <1>4, <2>1, ClimbHead DEF Knows, Climbing, WriteRollup
  <2>3. PICK new : new = RollupStatus(req[r])
    OBVIOUS
  <2>4. status' = [status EXCEPT ![u] = new] /\ UNCHANGED lastLog
    BY <1>4, <2>1, <2>3 DEF WriteRollup
  <2>5. new = "REJECTED" => lastLog[u] = "REJECTED"
    <3>1. CASE req[r].mode = "keep"
      BY <2>1, <2>2, <3>1 DEF ModeOK
    <3>2. CASE req[r].mode # "keep" /\ new = "REJECTED"
      <4>1. status[u] = "REJECTED"
        BY <2>2, <2>3, <3>2 DEF RollupStatus
      <4>2. Logged(u)
        BY <2>2 DEF OneAtATime, Trail, Owes
      <4> QED BY <4>1, <4>2 DEF Logged
    <3> QED BY <3>1, <3>2
  <2>6. status'[u] = new
    BY <1>0, <2>4 DEF TypeOK
  <2>7. Logged(u)'
    BY <2>2, <2>4, <2>5, <2>6 DEF Logged
  <2> QED BY <1>0, <2>2, <2>4, <2>7, TrailWritten
<1>5. CASE WriteLog(r)
  <2>1. PICK u : u = req[r].unit
    OBVIOUS
  <2>2. req[r].entry = status[u] /\ pc[r] = "log"
    BY <1>0, <1>5, <2>1 DEF Knows, WriteLog
  <2>3. lastLog' = [lastLog EXCEPT ![u] = status[u]] /\ UNCHANGED rows
    BY <1>5, <2>1, <2>2 DEF WriteLog
  <2> QED BY <1>0, <2>1, <2>2, <2>3, TrailPaid DEF Owes
<1>6. CASE LogKid(r)
  <2>1. PICK u : u = req[r].kid
    OBVIOUS
  <2>2. status[u] = "REJECTED" /\ pc[r] = "kidLog"
    BY <1>0, <1>6, <2>1 DEF Knows, LogKid
  <2>3. lastLog' = [lastLog EXCEPT ![u] = status[u]] /\ UNCHANGED rows
    BY <1>6, <2>1, <2>2 DEF LogKid
  <2> QED BY <1>0, <2>1, <2>2, <2>3, TrailPaid DEF Owes
<1>7. CASE Attach(r)
  BY <1>7 DEF Attach, OneAtATime, Trail, Logged, Owes
<1>8. CASE \/ WardCheck(r) \/ FindMarked(r) \/ ReadChildren(r) \/ ReadExisting(r) \/ Reread(r)
           \/ FindFlagged(r) \/ \E p \in Units : ReturnNextFlagged(r, p)
  <2>1. pc[r] \notin {"log", "kidLog"} /\ UNCHANGED <<rows, lastLog>>
    BY <1>8 DEF WardCheck, FindMarked, ReadChildren, ReadExisting, Reread, FindFlagged,
                ReturnNextFlagged
  <2> QED BY <2>1, TrailKept DEF Owes
<1> QED BY <1>1, <1>2, <1>3, <1>4, <1>5, <1>6, <1>7, <1>8 DEF Proceed

LEMMA ServeTrails ==
    ASSUME OneAtATime, IInv, Known, Trail, [Serve]_vars PROVE Trail'
<1>1. ASSUME NEW r \in Slots, Arrive(r) PROVE Trail'
  <2>1. pc[r] = "idle" /\ UNCHANGED <<rows, lastLog>>
    BY <1>1, ArrivalReads
  <2> QED BY <2>1, TrailKept DEF Owes
<1>2. CASE UNCHANGED vars
  BY <1>2 DEF vars, Trail, Logged, Owes
<1> QED BY <1>1, <1>2, TrailProceeds DEF Serve

LEMMA InitTrail == Init => Trail
BY DEF Init, Trail, Logged, Returnable

\* Served one at a time and where no request fails, the action log of a sheet, and of a
\* returned row of any level, ends where the row is: every handler and every child it
\* returns writes its log entry before the next request is served.
THEOREM AuditCorrect == ASSUME OneAtATime PROVE ReliableSpec => []AuditAgrees
<1>1. ReliableSpec => Spec
  <2>1. [Serve]_vars => [Next]_vars
    BY DEF Next
  <2> QED BY <2>1, PTL DEF ReliableSpec, Spec
<1>2. IInv /\ Known /\ Trail /\ [Serve]_vars => Trail'
  BY ServeTrails
<1>3. Trail => AuditAgrees
  BY DEF Trail, Logged, Owes, AuditAgrees, Quiet
<1> QED BY <1>1, <1>2, <1>3, InitTrail, LoneInvariance, PTL DEF ReliableSpec
-----------------------------------------------------------------------------
(* The totals, where no request fails.                                      *)

\* Which rows must be the sum of the rows below them.
Due(u) ==
    \/ u \in Wards /\ status[u] # "NONE"
    \/ u \in LGAs /\ status[u] \in {"APPROVED", "REJECTED"}
    \/ /\ u \in States /\ status[u] = "APPROVED"
       /\ \A l \in Children(u) : status[l] \notin {"DRAFT", "SUBMITTED"}

Right(u) == Due(u) => tally[u] = Beneath(u)

\* The rows a request will still recompute.
Stale(q, step) ==
    IF step \in {"log", "marked", "kid", "kidLog"} /\ q.op \in {"approve", "return", "bulk"}
    THEN On(Path(q.unit))
    ELSE IF step \in Climbing THEN On(q.climb) ELSE {}

Totals == \A u \in Units : Right(u) \/ \E r \in Slots : u \in Stale(req[r], pc[r])

\* What is right, and what is beneath a row, depend on the row and its children alone.
LEMMA BeneathFar ==
    ASSUME NEW u, \A k \in Children(u) : status'[k] = status[k] /\ tally'[k] = tally[k]
    PROVE  Beneath(u)' = Beneath(u)
<1>1. PICK S : S = {c \in Children(u) :
          IF c \in PUs THEN status[c] = "APPROVED" ELSE status[c] \notin {"NONE", "DRAFT"}}
  OBVIOUS
<1>2. PICK T : T = {c \in Children(u) :
          IF c \in PUs THEN status'[c] = "APPROVED" ELSE status'[c] \notin {"NONE", "DRAFT"}}
  OBVIOUS
<1>3. S = T
  BY <1>1, <1>2
<1>4. {tally[k] : k \in S} = {tally'[k] : k \in T}
  BY <1>1, <1>3
<1>5. Beneath(u) = UNION {tally[k] : k \in S}
  BY <1>1 DEF Beneath
<1>6. Beneath(u)' = UNION {tally'[k] : k \in T}
  BY <1>2 DEF Beneath, Children
<1> QED BY <1>4, <1>5, <1>6

LEMMA RightFar ==
    ASSUME NEW u, Right(u), status'[u] = status[u], tally'[u] = tally[u],
           \A k \in Children(u) : status'[k] = status[k] /\ tally'[k] = tally[k]
    PROVE  Right(u)'
<1>1. Beneath(u)' = Beneath(u)
  BY BeneathFar
<1>2. Due(u)' => Due(u)
  BY DEF Due, Children
<1> QED BY <1>1, <1>2 DEF Right

\* A sheet that is approved neither before nor after the step changes no total.
LEMMA BeneathBlind ==
    ASSUME NEW p \in PUs, NEW u,
           \A k \in Children(u) \ {p} : status'[k] = status[k] /\ tally'[k] = tally[k],
           status[p] # "APPROVED", status'[p] # "APPROVED"
    PROVE  Beneath(u)' = Beneath(u)
<1>1. PICK S : S = {c \in Children(u) :
          IF c \in PUs THEN status[c] = "APPROVED" ELSE status[c] \notin {"NONE", "DRAFT"}}
  OBVIOUS
<1>2. PICK T : T = {c \in Children(u) :
          IF c \in PUs THEN status'[c] = "APPROVED" ELSE status'[c] \notin {"NONE", "DRAFT"}}
  OBVIOUS
<1>3. S = T /\ p \notin S
  BY <1>1, <1>2
<1>4. {tally[k] : k \in S} = {tally'[k] : k \in T}
  BY <1>1, <1>3
<1>5. Beneath(u) = UNION {tally[k] : k \in S}
  BY <1>1 DEF Beneath
<1>6. Beneath(u)' = UNION {tally'[k] : k \in T}
  BY <1>2 DEF Beneath, Children
<1> QED BY <1>4, <1>5, <1>6

\* A step of r that changes no row, and drops only rows that are right.
LEMMA TotalsKept ==
    ASSUME OneAtATime, Totals, NEW r \in Slots, UNCHANGED rows,
           \A u \in Units : u \in Stale(req[r], pc[r]) => u \in Stale(req'[r], pc'[r]) \/ Right(u)
    PROVE  Totals'
<1>1. ASSUME NEW u \in Units PROVE Right(u)' \/ \E s \in Slots : u \in Stale(req'[s], pc'[s])
  <2>1. CASE Right(u)
    BY <2>1, RightFar DEF rows
  <2>2. CASE ~Right(u)
    <3>1. u \in Stale(req[r], pc[r])
      BY <2>2 DEF OneAtATime, Totals
    <3> QED BY <2>2, <3>1
  <2> QED BY <2>1, <2>2
<1> QED BY <1>1 DEF Totals, Stale

\* A step of r that changes the row v: only the totals of v and of the row above it can
\* go wrong.
LEMMA TotalsWritten ==
    ASSUME OneAtATime, Totals, NEW r \in Slots, NEW v \in Units,
           \A u \in Units \ {v} : status'[u] = status[u] /\ tally'[u] = tally[u],
           Right(v)' \/ v \in Stale(req'[r], pc'[r]),
           v \in DOMAIN Parent => Right(Parent[v])' \/ Parent[v] \in Stale(req'[r], pc'[r]),
           \A u \in Units \ {v} :
               u \in Stale(req[r], pc[r]) => u \in Stale(req'[r], pc'[r])
    PROVE  Totals'
<1>1. ASSUME NEW u \in Units PROVE Right(u)' \/ \E s \in Slots : u \in Stale(req'[s], pc'[s])
  <2>1. CASE u = v
    BY <2>1
  <2>2. CASE v \in Children(u)
    BY <2>2 DEF Children
  <2>3. CASE u # v /\ v \notin Children(u) /\ Right(u)
    <3>1. Children(u) \subseteq Units \ {v}
      BY <2>3, Geography DEF Children, Units
    <3> QED BY <2>3, <3>1, RightFar
  <2>4. CASE u # v /\ ~Right(u)
    <3>1. u \in Stale(req[r], pc[r])
      BY <2>4 DEF OneAtATime, Totals
    <3> QED BY <2>4, <3>1
  <2> QED BY <2>1, <2>2, <2>3, <2>4
<1> QED BY <1>1 DEF Totals, Stale

\* No row is below itself.
LEMMA NotOwnChild == ASSUME NEW u \in Units PROVE u \notin Children(u)
BY Geography DEF Children, Units

-----------------------------------------------------------------------------
(* The rows a request still owes are on its climb.                          *)

LEMMA RollUpOwes ==
    ASSUME TypeOK, NEW r \in Slots, NEW q, NEW mode, q \in Request, RollUp(r, q, mode)
    PROVE  On(Path(q.unit)) \subseteq Stale(req'[r], pc'[r])
<1>1. CASE Path(q.unit) = <<>>
  BY <1>1 DEF On
<1>2. CASE Path(q.unit) # <<>>
  <2>1. PICK n : n = [q EXCEPT !.climb = Path(q.unit), !.mode = mode]
    OBVIOUS
  <2>2. n.climb = Path(q.unit)
    BY <2>1 DEF Request
  <2>3. req'[r] = n /\ pc'[r] = "children"
    BY <1>2, <2>1, GotoHere DEF RollUp
  <2> QED BY <2>2, <2>3 DEF Stale, Climbing
<1> QED BY <1>1, <1>2

LEMMA NextRollupOwes ==
    ASSUME TypeOK, NEW r \in Slots, NEW q, q \in Request, NextRollup(r, q)
    PROVE  On(Tail(q.climb)) \subseteq Stale(req'[r], pc'[r])
<1>1. PICK n : n = [q EXCEPT !.climb = Tail(@), !.mode = "plain", !.seen = {},
                             !.found = FALSE, !.prev = "NONE", !.prevFlags = {}]
  OBVIOUS
<1>2. n.climb = Tail(q.climb)
  BY <1>1 DEF Request
<1>3. IF n.climb = <<>> THEN AfterRollups(r, n) ELSE Goto(r, "children", n)
  BY <1>1 DEF NextRollup
<1>4. CASE n.climb = <<>>
  <2>1. On(<<>>) = {}
    BY DEF On
  <2> QED BY <1>2, <1>4, <2>1
<1>5. CASE n.climb # <<>>
  <2>1. req'[r] = n /\ pc'[r] = "children"
    BY <1>3, <1>5, GotoHere
  <2> QED BY <1>2, <2>1 DEF Stale, Climbing
<1> QED BY <1>4, <1>5
LEMMA TotalsProceed ==
    ASSUME OneAtATime, IInv, Known, Totals, NEW r \in Slots, Proceed(r)
    PROVE  Totals'
<1>0. TypeOK /\ LocalOK(req[r], pc[r]) /\ Knows(req[r], pc[r])
  BY DEF IInv, InFlight, Known
<1>1. PICK o : o = req[r]
  OBVIOUS
<1>2. o \in Request
  BY <1>0, <1>1 DEF LocalOK
<1>3. CASE Save(r) \/ Submit(r)
  <2>1. PICK u : u = o.unit
    OBVIOUS
  <2>2. PICK to \in {"DRAFT", "SUBMITTED"} : status' = [status EXCEPT ![u] = to]
    BY <1>1, <1>3, <2>1 DEF Save, Submit
  <2>3. /\ u \in Units \ Wards /\ status[u] \in {"NONE"} \cup Editable
        /\ pc[r] \in {"save", "submit"}
    BY <1>0, <1>1, <1>3, <2>1, TypedLevels DEF LocalOK, Base, Knows, Save, Submit
  <2>4. status'[u] = to /\ \A v \in Units \ {u} : status'[v] = status[v] /\ tally'[v] = tally[v]
    BY <1>0, <1>1, <1>3, <2>1, <2>2, <2>3 DEF Save, Submit, TypeOK
  <2>5. Right(u)'
    <3>1. ~Due(u)'
      BY <2>2, <2>3, <2>4 DEF Due
    <3> QED BY <3>1 DEF Right
  <2>6. ASSUME u \in DOMAIN Parent PROVE Right(Parent[u])' \/ Parent[u] \in Stale(req[r], pc[r])
    <3>1. CASE u \in PUs
      <4>1. PICK w : w = Parent[u]
        OBVIOUS
      <4>2. w \in Wards /\ w \in Units \ {u} /\ w \notin LGAs \cup States
        BY <3>1, <4>1, Geography DEF Units
      <4>3. Beneath(w)' = Beneath(w)
        <5>1. status[u] # "APPROVED" /\ status'[u] # "APPROVED"
          BY <2>2, <2>3, <2>4 DEF Editable
        <5>2. Children(w) \subseteq Units
          BY Geography DEF Children, Units
        <5> QED BY <2>4, <3>1, <5>1, <5>2, BeneathBlind
      <4>4. status'[w] = status[w] /\ tally'[w] = tally[w]
        BY <2>4, <4>2
      <4>5. Right(w)
        BY <2>3, <4>2 DEF OneAtATime, Totals, Stale, Climbing
      <4>6. Due(w)' => Due(w)
        BY <4>2, <4>4 DEF Due
      <4> QED BY <4>1, <4>3, <4>4, <4>5, <4>6 DEF Right
    <3>2. CASE u \in LGAs
      <4>1. PICK s : s = Parent[u]
        OBVIOUS
      <4>2. s \in States /\ s \notin Wards \cup LGAs /\ u \in Children(s)
        BY <2>6, <3>2, <4>1, Geography DEF Children
      <4>3. ~Due(s)'
        BY <2>2, <2>4, <4>2 DEF Due, Children
      <4> QED BY <4>1, <4>3 DEF Right
    <3> QED BY <2>3, <2>6, <3>1, <3>2, Geography
  <2>7. Stale(req[r], pc[r]) = {}
    BY <2>3 DEF Stale, Climbing
  <2> QED BY <2>3, <2>4, <2>5, <2>6, <2>7, TotalsWritten
<1>4. CASE Approve(r) \/ Return(r)
  <2>1. PICK u : u = o.unit
    OBVIOUS
  <2>2. PICK to \in {"APPROVED", "REJECTED"} :
            /\ status' = [status EXCEPT ![u] = to] /\ UNCHANGED tally
            /\ Goto(r, "log", [o EXCEPT !.entry = to])
    BY <1>1, <1>4, <2>1 DEF Approve, Return
  <2>3. PICK q : q = [o EXCEPT !.entry = to]
    OBVIOUS
  <2>4. q.unit = u /\ q.op = o.op
    BY <1>2, <2>1, <2>3 DEF Request
  <2>5. req'[r] = q /\ pc'[r] = "log"
    BY <1>0, <2>2, <2>3, GotoHere
  <2>6. /\ u \in Units /\ o.op \in {"approve", "return", "bulk"}
        /\ pc[r] \in {"approve", "return"} /\ (to = "APPROVED" => u \in PUs)
    BY <1>0, <1>1, <1>4, <2>1, <2>2 DEF LocalOK, Base, Knows, Approve, Return, TypeOK
  <2>7. Stale(req'[r], pc'[r]) = On(Path(u))
    BY <2>4, <2>5, <2>6 DEF Stale
  <2>8. status'[u] = to /\ \A v \in Units \ {u} : status'[v] = status[v] /\ tally'[v] = tally[v]
    BY <1>0, <2>2, <2>6 DEF TypeOK
  <2>9. Right(u)' \/ u \in On(Path(u))
    <3>1. CASE u \in Wards \cup LGAs
      BY <2>6, <3>1, PathClimbs
    <3>2. CASE u \notin Wards \cup LGAs
      <4>1. ~Due(u)'
        BY <2>2, <2>6, <2>8, <3>2, Geography DEF Due
      <4> QED BY <4>1 DEF Right
    <3> QED BY <3>1, <3>2
  <2>10. u \in DOMAIN Parent => Parent[u] \in On(Path(u))
    BY <2>6, PathClimbs, Geography
  <2>11. Stale(req[r], pc[r]) = {}
    BY <2>6 DEF Stale, Climbing
  <2> QED BY <2>6, <2>7, <2>8, <2>9, <2>10, <2>11, TotalsWritten
<1>5. CASE \E k \in Units : ReturnKid(r, k)
  <2>1. PICK k \in Units : ReturnKid(r, k)
    BY <1>5
  <2>2. PICK q : q = [o EXCEPT !.kids = @ \ {k}, !.kid = k]
    OBVIOUS
  <2>3. q.unit = o.unit /\ q.op = o.op
    BY <1>2, <2>2 DEF Request
  <2>4. req'[r] = q /\ pc'[r] = "kidLog" /\ pc[r] = "kid"
    BY <1>0, <1>1, <2>1, <2>2, GotoHere DEF ReturnKid
  <2>5. /\ o.op \in {"return", "bulk"} /\ k \in Children(o.unit) /\ status[k] \in Returnable
        /\ o.unit \in Wards \cup LGAs
    BY <1>0, <1>1, <2>1, <2>4 DEF Knows, Marking, LocalOK, Base, ReturnKid
  <2>6. Stale(req'[r], pc'[r]) = On(Path(o.unit)) /\ Stale(req[r], pc[r]) = On(Path(o.unit))
    BY <1>1, <2>3, <2>4, <2>5 DEF Stale
  <2>7. Parent[k] = o.unit /\ Parent[k] \in On(Path(o.unit))
    BY <2>5, PathClimbs DEF Children, Units
  <2>8. status'[k] = "REJECTED" /\ \A v \in Units \ {k} : status'[v] = status[v]
    BY <1>0, <2>1 DEF TypeOK, ReturnKid
  <2>9. UNCHANGED tally
    BY <2>1 DEF ReturnKid
  <2>10. Right(k)' \/ k \in On(Path(o.unit))
    <3>1. CASE Right(k)
      <4>1. Beneath(k)' = Beneath(k)
        <5>1. Children(k) \subseteq Units \ {k}
          BY NotOwnChild, Geography DEF Children, Units
        <5> QED BY <2>8, <2>9, <5>1, BeneathFar
      <4>2. k \in PUs \cup Wards
        BY <2>5, Geography DEF Children
      <4>3. Due(k)' => Due(k)
        BY <2>5, <2>8, <4>2, Geography DEF Due, Returnable
      <4> QED BY <2>9, <3>1, <4>1, <4>3 DEF Right
    <3>2. CASE ~Right(k)
      BY <2>6, <3>2 DEF OneAtATime, Totals
    <3> QED BY <3>1, <3>2
  <2> QED BY <2>6, <2>7, <2>8, <2>9, <2>10, TotalsWritten
<1>6. CASE WriteRollup(r)
  <2>1. PICK c : c = o.climb
    OBVIOUS
  <2>2. PICK u : u = Head(c)
    OBVIOUS
  <2>3. pc[r] = "rollup" /\ IsClimb(c) /\ o.seen = Beneath(u) /\ NextRollup(r, o)
    BY <1>0, <1>1, <1>6, <2>1, <2>2 DEF Knows, Climbing, WriteRollup
  <2>4. /\ u \in Units /\ On(c) = {u} \cup On(Tail(c))
        /\ u \in DOMAIN Parent => Parent[u] \in On(Tail(c))
    BY <2>2, <2>3, ClimbHead DEF Units
  <2>5. PICK new : status' = [status EXCEPT ![u] = new]
    BY <1>1, <1>6, <2>1, <2>2 DEF WriteRollup
  <2>6. tally' = [tally EXCEPT ![u] = o.seen]
    BY <1>1, <1>6, <2>1, <2>2 DEF WriteRollup
  <2>7. tally'[u] = o.seen /\ \A v \in Units \ {u} : status'[v] = status[v] /\ tally'[v] = tally[v]
    BY <1>0, <2>4, <2>5, <2>6 DEF TypeOK
  <2>8. Beneath(u)' = Beneath(u)
    <3>1. Children(u) \subseteq Units \ {u}
      BY <2>4, NotOwnChild, Geography DEF Children, Units
    <3> QED BY <2>7, <3>1, BeneathFar
  <2>9. Right(u)'
    BY <2>3, <2>7, <2>8 DEF Right
  <2>10. On(Tail(c)) \subseteq Stale(req'[r], pc'[r])
    BY <1>0, <1>2, <2>1, <2>3, NextRollupOwes
  <2>11. Stale(req[r], pc[r]) = On(c)
    BY <1>1, <2>1, <2>3 DEF Stale, Climbing
  <2> QED BY <2>4, <2>7, <2>9, <2>10, <2>11, TotalsWritten
<1>7. CASE WriteLog(r) \/ LogKid(r) \/ FindMarked(r)
  <2>1. /\ pc[r] \in {"log", "kidLog", "marked"} /\ UNCHANGED rows /\ o.unit \in Units
        /\ pc[r] # "log" => o.op \in {"return", "bulk"}
    BY <1>0, <1>1, <1>7 DEF WriteLog, LogKid, FindMarked, LocalOK, Base, Knows
  <2>2. o.op \in {"approve", "return", "bulk"} => On(Path(o.unit)) \subseteq Stale(req'[r], pc'[r])
    <3>1. ASSUME NEW q \in Request, q.unit = o.unit, ReturnRollups(r, q) \/ RollUp(r, q, "clear")
          PROVE  On(Path(o.unit)) \subseteq Stale(req'[r], pc'[r])
      <4>1. PICK mode : RollUp(r, q, mode)
        BY <3>1 DEF ReturnRollups
      <4> QED BY <1>0, <3>1, <4>1, RollUpOwes
    <3>2. ASSUME NEW q, q.unit = o.unit, q.op = o.op, o.op \in {"approve", "return", "bulk"},
                 Goto(r, "kid", q) \/ Goto(r, "marked", q)
          PROVE  On(Path(o.unit)) \subseteq Stale(req'[r], pc'[r])
      <4>1. req'[r] = q /\ pc'[r] \in {"kid", "marked"}
        BY <1>0, <3>2, GotoHere
      <4> QED BY <3>2, <4>1 DEF Stale
    <3>3. CASE WriteLog(r)
      BY <1>1, <1>2, <3>1, <3>2, <3>3 DEF WriteLog
    <3>4. CASE LogKid(r)
      <4>1. PICK q : q = [o EXCEPT !.kid = NoUnit]
        OBVIOUS
      <4>2. q \in Request /\ q.unit = o.unit /\ q.op = o.op
        BY <1>2, <4>1 DEF Request
      <4>3. ReturnRollups(r, q) \/ Goto(r, "kid", q)
        BY <1>1, <3>4, <4>1 DEF LogKid
      <4> QED BY <3>1, <3>2, <4>2, <4>3
    <3>5. CASE FindMarked(r)
      <4>1. PICK kids : kids = {k \in o.marked : status[k] \in Returnable}
        OBVIOUS
      <4>2. PICK q : q = [o EXCEPT !.kids = kids]
        OBVIOUS
      <4>3. q.unit = o.unit /\ q.op = o.op
        BY <1>2, <4>2 DEF Request
      <4>4. ReturnRollups(r, o) \/ Goto(r, "kid", q)
        BY <1>1, <3>5, <4>1, <4>2 DEF FindMarked
      <4> QED BY <1>2, <3>1, <3>2, <4>3, <4>4
    <3> QED BY <1>7, <3>3, <3>4, <3>5
  <2>3. Stale(req[r], pc[r]) \subseteq Stale(req'[r], pc'[r])
    BY <1>1, <2>1, <2>2 DEF Stale, Climbing
  <2> QED BY <2>1, <2>3, TotalsKept
<1>8. CASE ReadChildren(r)
  <2>1. PICK u : u = Head(o.climb)
    OBVIOUS
  <2>2. PICK counted : counted = {k \in Children(u) : status[k] \in Countable(u)}
    OBVIOUS
  <2>3. PICK sum : sum = UNION {tally[k] : k \in counted}
    OBVIOUS
  <2>4. PICK found : found = (counted # {})
    OBVIOUS
  <2>5. PICK q : q = [o EXCEPT !.seen = sum, !.found = found]
    OBVIOUS
  <2>6. q.climb = o.climb
    BY <1>2, <2>5 DEF Request
  <2>7. req'[r] = q /\ pc'[r] = "existing" /\ pc[r] = "children" /\ UNCHANGED rows
    BY <1>0, <1>1, <1>8, <2>1, <2>2, <2>3, <2>4, <2>5, GotoHere DEF ReadChildren
  <2>8. Stale(req[r], pc[r]) = Stale(req'[r], pc'[r])
    BY <1>1, <2>6, <2>7 DEF Stale, Climbing
  <2> QED BY <2>7, <2>8, TotalsKept
<1>9. CASE ReadExisting(r)
  <2>1. PICK u : u = Head(o.climb)
    OBVIOUS
  <2>2. IsClimb(o.climb) /\ pc[r] = "existing" /\ UNCHANGED rows
    BY <1>0, <1>1, <1>9 DEF Knows, Climbing, ReadExisting
  <2>3. u \in Wards \cup LGAs \cup States /\ On(o.climb) = {u} \cup On(Tail(o.climb))
    BY <2>1, <2>2, ClimbHead
  <2>4. Stale(req[r], pc[r]) = On(o.climb)
    BY <1>1, <2>2 DEF Stale, Climbing
  <2>5. PICK q : q = [o EXCEPT !.prev = status[u], !.prevFlags = flags[u]]
    OBVIOUS
  <2>6. CASE NextRollup(r, o) /\ status[u] = "NONE"
    <3>1. Right(u)
      BY <2>3, <2>6, Geography DEF Right, Due
    <3>2. On(Tail(o.climb)) \subseteq Stale(req'[r], pc'[r])
      BY <1>0, <1>2, <2>6, NextRollupOwes
    <3> QED BY <2>2, <2>3, <2>4, <3>1, <3>2, TotalsKept
  <2>7. CASE Goto(r, "rollup", q)
    <3>1. q.climb = o.climb
      BY <1>2, <2>5 DEF Request
    <3>2. Stale(req'[r], pc'[r]) = On(o.climb)
      BY <1>0, <2>7, <3>1, GotoHere DEF Stale, Climbing
    <3> QED BY <2>2, <2>4, <3>2, TotalsKept
  <2> QED BY <1>1, <1>9, <2>1, <2>5, <2>6, <2>7 DEF ReadExisting
<1>10. CASE \/ Attach(r) \/ WardCheck(r) \/ Reread(r) \/ FindFlagged(r)
            \/ \E p \in Units : ReturnNextFlagged(r, p)
  <2>1. /\ pc[r] \in {"attach", "wardCheck", "reread", "flagged", "nextFlagged"}
        /\ UNCHANGED <<status, tally>>
    <3>1. CASE Attach(r)
      BY <3>1 DEF Attach
    <3>2. CASE WardCheck(r) \/ Reread(r) \/ FindFlagged(r)
      BY <3>2 DEF WardCheck, Reread, FindFlagged, rows
    <3>3. CASE \E p \in Units : ReturnNextFlagged(r, p)
      BY <3>3 DEF ReturnNextFlagged, rows
    <3> QED BY <1>10, <3>1, <3>2, <3>3
  <2>2. \A u \in Units : Right(u)
    BY <2>1 DEF OneAtATime, Totals, Stale, Climbing
  <2>3. \A u \in Units : Right(u)'
    BY <2>1, <2>2, RightFar
  <2> QED BY <2>3 DEF Totals
<1> QED BY <1>3, <1>4, <1>5, <1>6, <1>7, <1>8, <1>9, <1>10 DEF Proceed

LEMMA ServeTotals ==
    ASSUME OneAtATime, IInv, Known, Totals, [Serve]_vars PROVE Totals'
<1>1. ASSUME NEW r \in Slots, Arrive(r) PROVE Totals'
  <2>1. pc[r] = "idle" /\ UNCHANGED <<rows, lastLog>>
    BY <1>1, ArrivalReads
  <2>2. UNCHANGED rows /\ Stale(req[r], pc[r]) = {}
    BY <2>1 DEF Stale, Climbing
  <2> QED BY <2>1, <2>2, TotalsKept
<1>2. CASE UNCHANGED vars
  <2>1. \A u \in Units : Right(u) => Right(u)'
    BY <1>2, RightFar DEF vars
  <2>2. UNCHANGED pc /\ UNCHANGED req
    BY <1>2 DEF vars
  <2> QED BY <2>1, <2>2 DEF Totals, Stale
<1> QED BY <1>1, <1>2, TotalsProceed DEF Serve

LEMMA InitTotals == Init => Totals
<1> SUFFICES ASSUME Init, NEW u \in Units PROVE Right(u)
  BY DEF Totals
<1>1. ~Due(u)
  BY DEF Init, Due
<1> QED BY <1>1 DEF Right

\* Served one at a time and where no request fails, every rolled-up row is the sum of the
\* rows below it whenever no request is running: a request keeps on its climb every row
\* its own writes have put wrong, and recomputes them from below.
THEOREM TotalsCorrect == ASSUME OneAtATime PROVE ReliableSpec => []TotalsAgree
<1>1. ReliableSpec => Spec
  <2>1. [Serve]_vars => [Next]_vars
    BY DEF Next
  <2> QED BY <2>1, PTL DEF ReliableSpec, Spec
<1>2. IInv /\ Known /\ Totals /\ [Serve]_vars => Totals'
  BY ServeTotals
<1>3. Totals => TotalsAgree
  <2> SUFFICES ASSUME Totals, Quiet
               PROVE  WardTotalsAgree /\ LgaTotalsAgree /\ StateTotalsAgree
    BY DEF TotalsAgree
  <2>1. \A u \in Units : Right(u)
    BY DEF Totals, Quiet, Stale, Climbing
  <2> QED BY <2>1 DEF Right, Due, WardTotalsAgree, LgaTotalsAgree, StateTotalsAgree, Units
<1> QED BY <1>1, <1>2, <1>3, InitTotals, LoneInvariance, PTL DEF ReliableSpec
=============================================================================
