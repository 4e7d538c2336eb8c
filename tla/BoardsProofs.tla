----------------------------- MODULE BoardsProofs -----------------------------
(***************************************************************************)
(* Proofs about Boards: once no request runs, all boards show the figures  *)
(* of the approved units, whatever the places, the votes and the order of  *)
(* reviews are.                                                            *)
(***************************************************************************)
EXTENDS Boards, Sums

Statuses == {"NOT_STARTED", "DRAFT", "SUBMITTED", "APPROVED", "REJECTED"}
Rows == [status : Statuses, votes : Counts]

\* An area's row is made by a rollup: it has no draft, and is empty until it is started.
AreaRow(row) ==
    /\ row.status \in {"NOT_STARTED", "APPROVED", "REJECTED"}
    /\ row.status = "NOT_STARTED" => row = NoRow

SheetOK ==
    /\ sheet \in [Contests -> [PUs \cup Areas -> Rows]]
    /\ \A c \in Contests, u \in Areas : AreaRow(sheet[c][u])

\* A request rolls up a ward, its LGA and its state, or what is left of them.
Climbs(c, w, clear) ==
    LET path == Path(c, w, clear)
    IN  {path, <<path[2], path[3]>>, <<path[3]>>}

ClimbOK ==
    climb = <<>> \/ \E c \in Contests, w \in Wards, clear \in BOOLEAN : climb \in Climbs(c, w, clear)

\* The running request has still to roll up the area's row.
DueIn(steps, c, u) == \E i \in DOMAIN steps : steps[i].contest = c /\ steps[i].place = u
Due(c, u) == DueIn(climb, c, u)

\* Any other area has the votes of its approved units, and a ward that has any is started.
FiguresOK ==
    \A c \in Contests : \A u \in Areas :
        ~Due(c, u) => sheet[c][u].votes = Adds(c, UnitsOf[u], {"APPROVED"})

StartedOK ==
    \A c \in Contests : \A w \in Wards : \A p \in Below[w] :
        ~Due(c, w) /\ sheet[c][p].status = "APPROVED" => sheet[c][w].status # "NOT_STARTED"

AlarmOK == alarm \in SUBSET Alarms

BoardsIInv == SheetOK /\ ClimbOK /\ FiguresOK /\ StartedOK /\ AlarmOK
-----------------------------------------------------------------------------
(***************************************************************************)
(* Places: a state is cut into its LGAs, an LGA into its wards and a ward  *)
(* into its units, and what lies in a place lies in what that lies in.     *)
(***************************************************************************)
LEMMA Levels ==
    /\ \A p \in PUs : p \notin Areas /\ Within[p] \in Wards
    /\ \A w \in Wards : w \notin LGAs \cup States \cup PUs /\ Within[w] \in LGAs
    /\ \A l \in LGAs : l \notin Wards \cup States \cup PUs /\ Within[l] \in States
    /\ \A s \in States : s \notin Wards \cup LGAs \cup PUs \cup DOMAIN Within
    /\ DOMAIN Within = PUs \cup Wards \cup LGAs
    BY PlacesNest DEF Areas

LEMMA AboveIs ==
    /\ \A p \in PUs : Above[p] = {p, Within[p], Within[Within[p]], Within[Within[Within[p]]]}
    /\ \A w \in Wards : Above[w] = {w, Within[w], Within[Within[w]]}
    /\ \A l \in LGAs : Above[l] = {l, Within[l]}
<1>1. \A x \in DOMAIN Within : Up({x}) = {Within[x]} BY DEF Up
<1>2. \A x : x \notin DOMAIN Within => Up({x}) = {} BY DEF Up
<1>3. Up({}) = {} BY DEF Up
<1>4. \A x \in PUs \cup Areas : Above[x] = {x} \cup Up({x}) \cup Up(Up({x})) \cup Up(Up(Up({x})))
    BY DEF Above
<1>5. ASSUME NEW l \in LGAs PROVE Above[l] = {l, Within[l]}
    <2>1. Up({l}) = {Within[l]} /\ Up({Within[l]}) = {} BY <1>1, <1>2, Levels
    <2>2. Above[l] = {l} \cup {Within[l]} \cup {} \cup {} BY <2>1, <1>3, <1>4 DEF Areas
    <2> QED BY <2>2
<1>6. ASSUME NEW w \in Wards PROVE Above[w] = {w, Within[w], Within[Within[w]]}
    <2>1. /\ Up({w}) = {Within[w]} /\ Up({Within[w]}) = {Within[Within[w]]}
          /\ Up({Within[Within[w]]}) = {}
        BY <1>1, <1>2, Levels
    <2>2. Above[w] = {w} \cup {Within[w]} \cup {Within[Within[w]]} \cup {}
        BY <2>1, <1>4 DEF Areas
    <2> QED BY <2>2
<1>7. ASSUME NEW p \in PUs
      PROVE  Above[p] = {p, Within[p], Within[Within[p]], Within[Within[Within[p]]]}
    <2>1. /\ Up({p}) = {Within[p]} /\ Up({Within[p]}) = {Within[Within[p]]}
          /\ Up({Within[Within[p]]}) = {Within[Within[Within[p]]]}
        BY <1>1, Levels
    <2>2. p \in PUs \cup Areas OBVIOUS
    <2> QED BY <2>1, <2>2, <1>4
<1> QED BY <1>5, <1>6, <1>7

\* The units of a place are those whose ward, LGA or state it is.
LEMMA UnitsAre ==
    /\ \A w \in Wards : UnitsOf[w] = {p \in PUs : Within[p] = w} /\ Below[w] = UnitsOf[w]
    /\ \A l \in LGAs : UnitsOf[l] = {p \in PUs : Within[Within[p]] = l}
    /\ \A s \in States : UnitsOf[s] = {p \in PUs : Within[Within[Within[p]]] = s}
    /\ \A l \in LGAs : Below[l] = {w \in Wards : Within[w] = l}
    /\ \A s \in States : Below[s] = {l \in LGAs : Within[l] = s}
<1>1. \A u \in PUs \cup Areas : UnitsOf[u] = {p \in PUs : u \in Above[p]} BY DEF UnitsOf
<1>2. \A u \in PUs \cup Areas : Below[u] = {k \in DOMAIN Within : Within[k] = u} BY DEF Below
<1>3. ASSUME NEW w \in Wards
      PROVE  UnitsOf[w] = {p \in PUs : Within[p] = w} /\ Below[w] = {p \in PUs : Within[p] = w}
    BY <1>1, <1>2, Levels, AboveIs DEF Areas
<1>4. ASSUME NEW l \in LGAs
      PROVE  UnitsOf[l] = {p \in PUs : Within[Within[p]] = l} /\ Below[l] = {w \in Wards : Within[w] = l}
    BY <1>1, <1>2, Levels, AboveIs DEF Areas
<1>5. ASSUME NEW s \in States
      PROVE  /\ UnitsOf[s] = {p \in PUs : Within[Within[Within[p]]] = s}
             /\ Below[s] = {l \in LGAs : Within[l] = s}
    BY <1>1, <1>2, Levels, AboveIs DEF Areas
<1> QED BY <1>3, <1>4, <1>5

LEMMA PlacesAreFinite ==
    /\ \A u \in Areas : UnitsOf[u] \in SUBSET PUs /\ IsFiniteSet(UnitsOf[u])
    /\ \A l \in LGAs : Below[l] \in SUBSET Wards /\ IsFiniteSet(Below[l])
    /\ \A s \in States : Below[s] \in SUBSET LGAs /\ IsFiniteSet(Below[s])
    /\ \A w \in Wards : Below[w] \in SUBSET PUs /\ IsFiniteSet(Below[w])
<1>1. \A u \in Areas : UnitsOf[u] \in SUBSET PUs BY DEF UnitsOf
<1>2. /\ \A l \in LGAs : Below[l] \in SUBSET Wards
      /\ \A s \in States : Below[s] \in SUBSET LGAs
      /\ \A w \in Wards : Below[w] \in SUBSET PUs
    BY UnitsAre
<1>3. IsFiniteSet(PUs) /\ IsFiniteSet(Wards) /\ IsFiniteSet(LGAs) BY PlacesNest
<1> QED BY <1>1, <1>2, <1>3, FS_Subset

LEMMA PlacesCut ==
    /\ \A l \in LGAs : Cuts(UnitsOf, Below[l], UnitsOf[l])
    /\ \A s \in States : Cuts(UnitsOf, Below[s], UnitsOf[s])
    /\ Cuts(UnitsOf, Wards, PUs)
<1>1. ASSUME NEW l \in LGAs PROVE Cuts(UnitsOf, Below[l], UnitsOf[l])
    <2>1. \A w \in Below[l] : w \in Wards /\ Within[w] = l /\ UnitsOf[w] = {p \in PUs : Within[p] = w}
        BY UnitsAre
    <2>2. \A w \in Below[l] : UnitsOf[w] \subseteq UnitsOf[l] BY <2>1, UnitsAre
    <2>3. \A p \in UnitsOf[l] : \E w \in Below[l] : p \in UnitsOf[w]
        BY <2>1, UnitsAre, Levels
    <2>4. \A i, j \in Below[l] : i # j => UnitsOf[i] \cap UnitsOf[j] = {} BY <2>1
    <2> QED BY <2>2, <2>3, <2>4, PlacesAreFinite DEF Cuts, Areas
<1>2. ASSUME NEW s \in States PROVE Cuts(UnitsOf, Below[s], UnitsOf[s])
    <2>1. \A l \in Below[s] : /\ l \in LGAs /\ Within[l] = s
                              /\ UnitsOf[l] = {p \in PUs : Within[Within[p]] = l}
        BY UnitsAre
    <2>2. \A l \in Below[s] : UnitsOf[l] \subseteq UnitsOf[s] BY <2>1, UnitsAre
    <2>3. \A p \in UnitsOf[s] : \E l \in Below[s] : p \in UnitsOf[l]
        <3> SUFFICES ASSUME NEW p \in UnitsOf[s] PROVE \E l \in Below[s] : p \in UnitsOf[l] OBVIOUS
        <3>1. p \in PUs /\ Within[Within[Within[p]]] = s BY UnitsAre
        <3>2. Within[Within[p]] \in LGAs BY <3>1, Levels
        <3>3. Within[Within[p]] \in Below[s] BY <3>1, <3>2, UnitsAre
        <3> QED BY <3>1, <3>3, <2>1
    <2>4. \A i, j \in Below[s] : i # j => UnitsOf[i] \cap UnitsOf[j] = {} BY <2>1
    <2> QED BY <2>2, <2>3, <2>4, PlacesAreFinite DEF Cuts, Areas
<1>3. Cuts(UnitsOf, Wards, PUs)
    <2>1. \A w \in Wards : UnitsOf[w] = {p \in PUs : Within[p] = w} BY UnitsAre
    <2>2. \A p \in PUs : \E w \in Wards : p \in UnitsOf[w] BY <2>1, Levels
    <2> QED BY <2>1, <2>2, PlacesNest DEF Cuts
<1> QED BY <1>1, <1>2, <1>3
-----------------------------------------------------------------------------
(***************************************************************************)
(* Figures: the votes of rows in some of the statuses, added up.  rows are *)
(* the sheets of one contest, before or after a step.                      *)
(***************************************************************************)
RowsOf == [PUs \cup Areas -> Rows]

ClientOf(rows) == [u \in PUs \cup Areas |-> rows[u].votes.client]
RivalOf(rows) == [u \in PUs \cup Areas |-> rows[u].votes.rival]

Tally(rows, S) == [client |-> SumOver(ClientOf(rows), S), rival |-> SumOver(RivalOf(rows), S)]

Chosen(rows, units, statuses) == {u \in units : rows[u].status \in statuses}

Figures(rows, units, statuses) == Tally(rows, Chosen(rows, units, statuses))

LEMMA RowIs ==
    ASSUME NEW rows \in RowsOf, NEW u \in PUs \cup Areas
    PROVE  /\ rows[u] \in Rows /\ rows[u].status \in Statuses /\ rows[u].votes \in Counts
           /\ rows[u].votes.client \in Nat /\ rows[u].votes.rival \in Nat
           /\ ClientOf(rows)[u] = rows[u].votes.client /\ RivalOf(rows)[u] = rows[u].votes.rival
<1>1. rows[u] \in Rows BY DEF RowsOf
<1> QED BY <1>1 DEF Rows, Counts, ClientOf, RivalOf

LEMMA TallyIs ==
    ASSUME NEW rows \in RowsOf, NEW S \in SUBSET (PUs \cup Areas)
    PROVE  AddUp(LAMBDA u : rows[u].votes, S) = Tally(rows, S)
<1>1. {{x} \X (1 .. rows[x].votes.client) : x \in S} = {{x} \X (1 .. ClientOf(rows)[x]) : x \in S}
    BY DEF ClientOf
<1>2. {{x} \X (1 .. rows[x].votes.rival) : x \in S} = {{x} \X (1 .. RivalOf(rows)[x]) : x \in S}
    BY DEF RivalOf
<1> QED BY <1>1, <1>2 DEF AddUp, Sum, Tally, SumOver

\* What addPartyTotals computes, before and after a step.
LEMMA AddsIs ==
    ASSUME SheetOK, NEW c \in Contests, NEW units \in SUBSET (PUs \cup Areas), NEW statuses
    PROVE  Adds(c, units, statuses) = Figures(sheet[c], units, statuses)
<1>1. PICK rows : rows = sheet[c] OBVIOUS
<1>2. rows \in RowsOf BY <1>1 DEF SheetOK, RowsOf
<1>3. PICK S : S = {u \in units : sheet[c][u].status \in statuses} OBVIOUS
<1>4. AddUp(LAMBDA u : rows[u].votes, S) = Tally(rows, S) BY <1>2, <1>3, TallyIs
<1>5. Adds(c, units, statuses) = AddUp(LAMBDA u : rows[u].votes, S) BY <1>1, <1>3 DEF Adds
<1> QED BY <1>1, <1>3, <1>4, <1>5 DEF Figures, Chosen

LEMMA AddsWillBe ==
    ASSUME SheetOK', NEW c \in Contests, NEW units \in SUBSET (PUs \cup Areas), NEW statuses
    PROVE  Adds(c, units, statuses)' = Figures(sheet'[c], units, statuses)
<1>1. PICK rows : rows = sheet'[c] OBVIOUS
<1>2. rows \in RowsOf BY <1>1 DEF SheetOK, RowsOf
<1>3. PICK S : S = {u \in units : sheet'[c][u].status \in statuses} OBVIOUS
<1>4. AddUp(LAMBDA u : rows[u].votes, S) = Tally(rows, S) BY <1>2, <1>3, TallyIs
<1>5. Adds(c, units, statuses)' = AddUp(LAMBDA u : rows[u].votes, S)
    BY <1>1, <1>3 DEF Adds, AddUp, Sum
<1> QED BY <1>1, <1>3, <1>4, <1>5 DEF Figures, Chosen

LEMMA TallyIsCount ==
    ASSUME NEW rows \in RowsOf, NEW S \in SUBSET (PUs \cup Areas), IsFiniteSet(S)
    PROVE  Tally(rows, S) \in Counts
<1>1. \A u \in S : ClientOf(rows)[u] \in Nat /\ RivalOf(rows)[u] \in Nat BY RowIs
<1>2. SumOver(ClientOf(rows), S) \in Nat BY <1>1, SumIsCount
<1>3. SumOver(RivalOf(rows), S) \in Nat BY <1>1, SumIsCount
<1> QED BY <1>2, <1>3 DEF Tally, Counts

LEMMA FiguresAreCounts ==
    ASSUME NEW rows \in RowsOf, NEW units \in SUBSET (PUs \cup Areas), IsFiniteSet(units), NEW statuses
    PROVE  Figures(rows, units, statuses) \in Counts
<1>1. Chosen(rows, units, statuses) \in SUBSET units BY DEF Chosen
<1>2. IsFiniteSet(Chosen(rows, units, statuses)) BY <1>1, FS_Subset
<1> QED BY <1>1, <1>2, TallyIsCount DEF Figures

\* A row that is in none of the statuses before and after makes no difference.
LEMMA FiguresDepend ==
    ASSUME NEW rows \in RowsOf, NEW next \in RowsOf, NEW units \in SUBSET (PUs \cup Areas),
           NEW statuses,
           \A u \in units : \/ next[u] = rows[u]
                            \/ rows[u].status \notin statuses /\ next[u].status \notin statuses
    PROVE  Figures(next, units, statuses) = Figures(rows, units, statuses)
<1>1. Chosen(next, units, statuses) = Chosen(rows, units, statuses) BY DEF Chosen
<1>2. PICK S : S = Chosen(rows, units, statuses) OBVIOUS
<1>3. \A u \in S : u \in PUs \cup Areas /\ next[u] = rows[u] BY <1>2 DEF Chosen
<1>4. \A u \in S : /\ ClientOf(next)[u] = ClientOf(rows)[u]
                   /\ RivalOf(next)[u] = RivalOf(rows)[u]
    BY <1>3, RowIs
<1>5. SumOver(ClientOf(next), S) = SumOver(ClientOf(rows), S) BY <1>4, SumDepends
<1>6. SumOver(RivalOf(next), S) = SumOver(RivalOf(rows), S) BY <1>4, SumDepends
<1> QED BY <1>1, <1>2, <1>5, <1>6 DEF Figures, Tally

\* What was rolled up level by level is what the units say.
LEMMA FiguresAddUp ==
    ASSUME NEW rows \in RowsOf, NEW kids \in SUBSET Areas, NEW units \in SUBSET PUs,
           Cuts(UnitsOf, kids, units),
           \A k \in kids : rows[k].votes = Figures(rows, UnitsOf[k], {"APPROVED"})
    PROVE  Tally(rows, kids) = Figures(rows, units, {"APPROVED"})
<1> DEFINE X == {p \in PUs : rows[p].status = "APPROVED"}
<1>1. \A k \in kids : UnitsOf[k] \in SUBSET PUs BY PlacesAreFinite
<1>2. \A k \in kids : Chosen(rows, UnitsOf[k], {"APPROVED"}) = X \cap UnitsOf[k]
    BY <1>1 DEF Chosen
<1>3. \A p \in PUs : ClientOf(rows)[p] \in Nat /\ RivalOf(rows)[p] \in Nat BY RowIs
<1>4. \A k \in kids : /\ ClientOf(rows)[k] = SumOver(ClientOf(rows), X \cap UnitsOf[k])
                      /\ RivalOf(rows)[k] = SumOver(RivalOf(rows), X \cap UnitsOf[k])
    <2> SUFFICES ASSUME NEW k \in kids
                 PROVE  /\ ClientOf(rows)[k] = SumOver(ClientOf(rows), X \cap UnitsOf[k])
                        /\ RivalOf(rows)[k] = SumOver(RivalOf(rows), X \cap UnitsOf[k])
        OBVIOUS
    <2> HIDE DEF X
    <2>1. rows[k].votes = Tally(rows, X \cap UnitsOf[k]) BY <1>2 DEF Figures
    <2>2. ClientOf(rows)[k] = rows[k].votes.client /\ RivalOf(rows)[k] = rows[k].votes.rival
        BY RowIs
    <2> QED BY <2>1, <2>2 DEF Tally
<1>5. X \cap units = Chosen(rows, units, {"APPROVED"}) BY DEF Chosen
<1>6. X \in SUBSET PUs OBVIOUS
<1> HIDE DEF X
<1>7. VotesOf(ClientOf(rows), ClientOf(rows), X, UnitsOf, kids) BY <1>3, <1>4, <1>6 DEF VotesOf
<1>8. VotesOf(RivalOf(rows), RivalOf(rows), X, UnitsOf, kids) BY <1>3, <1>4, <1>6 DEF VotesOf
<1>9. SumOver(ClientOf(rows), X \cap units) = SumOver(ClientOf(rows), kids) BY <1>7, VotesAddUp
<1>10. SumOver(RivalOf(rows), X \cap units) = SumOver(RivalOf(rows), kids) BY <1>8, VotesAddUp
<1> QED BY <1>5, <1>9, <1>10 DEF Figures, Tally
-----------------------------------------------------------------------------
(***************************************************************************)
(* The climb of a request: what it still has to roll up.                   *)
(***************************************************************************)
LEMMA NothingDue == \A c, u : ~DueIn(<<>>, c, u)
    BY DEF DueIn

LEMMA PathIs ==
    ASSUME NEW c \in Contests, NEW w \in Wards, NEW clear \in BOOLEAN
    PROVE  \A d, u : DueIn(Path(c, w, clear), d, u)
               <=> d = c /\ u \in {w, Within[w], Within[Within[w]]}
    BY DEF Path, DueIn

\* Each rollup takes the lowest area off; the areas below it are done.
LEMMA ClimbSays ==
    ASSUME NEW c \in Contests, NEW w \in Wards, NEW clear \in BOOLEAN, NEW steps \in Climbs(c, w, clear)
    PROVE  /\ steps # <<>> /\ steps[1].contest = c /\ steps[1].place \in Areas
           /\ Tail(steps) = <<>> \/ Tail(steps) \in Climbs(c, w, clear)
           /\ \A d, u : DueIn(steps, d, u)
                  <=> (d = c /\ u = steps[1].place) \/ DueIn(Tail(steps), d, u)
           /\ \A k \in Areas : k \in Below[steps[1].place] => ~DueIn(steps, c, k)
<1> DEFINE l == Within[w]
           s == Within[Within[w]]
           one == [contest |-> c, place |-> w, clear |-> clear]
           two == [contest |-> c, place |-> l, clear |-> FALSE]
           three == [contest |-> c, place |-> s, clear |-> FALSE]
<1>1. Path(c, w, clear) = <<one, two, three>> BY DEF Path
<1>2. steps \in {<<one, two, three>>, <<two, three>>, <<three>>} BY <1>1 DEF Climbs
<1>3. l \in LGAs /\ s \in States BY Levels
<1>4. /\ one.contest = c /\ two.contest = c /\ three.contest = c
      /\ one.place = w /\ two.place = l /\ three.place = s
    OBVIOUS
<1>5. /\ \A k \in Areas : k \notin Below[w]
      /\ \A k \in Areas : k \in Below[l] => k \in Wards
      /\ \A k \in Areas : k \in Below[s] => k \in LGAs
    BY <1>3, UnitsAre, Levels
<1> HIDE DEF one, two, three, l, s
<1>6. CASE steps = <<one, two, three>>
    <2>1. Tail(steps) = <<two, three>> BY <1>6
    <2>2. \A d, u : DueIn(steps, d, u) <=> d = c /\ u \in {w, l, s} BY <1>4, <1>6 DEF DueIn
    <2>3. \A d, u : DueIn(<<two, three>>, d, u) <=> d = c /\ u \in {l, s} BY <1>4 DEF DueIn
    <2>4. <<two, three>> \in Climbs(c, w, clear) BY <1>1 DEF Climbs
    <2>5. steps # <<>> /\ steps[1].contest = c /\ steps[1].place = w BY <1>4, <1>6
    <2>a. \A d, u : DueIn(Tail(steps), d, u) <=> d = c /\ u \in {l, s} BY <2>1, <2>3, Zenon
    <2>6. \A d, u : DueIn(steps, d, u) <=> (d = c /\ u = w) \/ DueIn(Tail(steps), d, u)
        BY <2>2, <2>a
    <2>7. w \in Areas BY DEF Areas
    <2> QED BY <2>1, <2>4, <2>5, <2>6, <2>7, <1>5
<1>7. CASE steps = <<two, three>>
    <2>1. Tail(steps) = <<three>> BY <1>7
    <2>2. \A d, u : DueIn(steps, d, u) <=> d = c /\ u \in {l, s} BY <1>4, <1>7 DEF DueIn
    <2>3. \A d, u : DueIn(<<three>>, d, u) <=> d = c /\ u = s BY <1>4 DEF DueIn
    <2>4. <<three>> \in Climbs(c, w, clear) BY <1>1 DEF Climbs
    <2>5. steps # <<>> /\ steps[1].contest = c /\ steps[1].place = l BY <1>4, <1>7
    <2>a. \A d, u : DueIn(Tail(steps), d, u) <=> d = c /\ u = s BY <2>1, <2>3, Zenon
    <2>6. \A d, u : DueIn(steps, d, u) <=> (d = c /\ u = l) \/ DueIn(Tail(steps), d, u)
        BY <2>2, <2>a
    <2>7. l \in Areas BY <1>3 DEF Areas
    <2>8. \A k \in Wards : k # l /\ k # s BY <1>3, Levels
    <2>9. \A k \in Areas : k \in Below[l] => ~DueIn(steps, c, k) BY <2>2, <2>8, <1>5
    <2> QED BY <2>1, <2>4, <2>5, <2>6, <2>7, <2>9
<1>8. CASE steps = <<three>>
    <2>1. Tail(steps) = <<>> BY <1>8
    <2>2. \A d, u : DueIn(steps, d, u) <=> d = c /\ u = s BY <1>4, <1>8 DEF DueIn
    <2>3. steps # <<>> /\ steps[1] = three BY <1>8
    <2>4. \A k \in LGAs : k # s BY <1>3, Levels
    <2> QED BY <2>1, <2>2, <2>3, <2>4, <1>3, <1>4, <1>5, NothingDue DEF Areas
<1> QED BY <1>2, <1>6, <1>7, <1>8
-----------------------------------------------------------------------------
(***************************************************************************)
(* Every step keeps the invariant.                                         *)
(***************************************************************************)
LEMMA NoFiguresYet ==
    ASSUME NEW rows
    PROVE  Tally(rows, {}) = Zero
<1>1. \A n : SumOver(n, {}) = 0
    <2> TAKE n
    <2>1. UNION {{i} \X (1 .. n[i]) : i \in {}} = {} OBVIOUS
    <2> QED BY <2>1, FS_EmptySet DEF SumOver
<1> QED BY <1>1 DEF Tally, Zero

LEMMA NothingShown == BoardsInit => BoardsIInv
<1> SUFFICES ASSUME BoardsInit PROVE BoardsIInv OBVIOUS
<1>1. sheet = [c \in Contests |-> [u \in PUs \cup Areas |-> NoRow]] /\ climb = <<>> /\ alarm = {}
    BY DEF BoardsInit
<1>2. NoRow \in Rows /\ NoRow.status = "NOT_STARTED" /\ NoRow.votes = Zero
    BY DEF NoRow, Rows, Counts, Zero, Statuses
<1>3. SheetOK BY <1>1, <1>2 DEF SheetOK, AreaRow, Areas
<1>4. FiguresOK
    <2> SUFFICES ASSUME NEW c \in Contests, NEW u \in Areas
                 PROVE  sheet[c][u].votes = Adds(c, UnitsOf[u], {"APPROVED"})
        BY DEF FiguresOK
    <2>1. UnitsOf[u] \in SUBSET PUs BY PlacesAreFinite
    <2>2. Chosen(sheet[c], UnitsOf[u], {"APPROVED"}) = {} BY <1>1, <1>2, <2>1 DEF Chosen
    <2>3. Adds(c, UnitsOf[u], {"APPROVED"}) = Zero
        BY <1>3, <2>1, <2>2, AddsIs, NoFiguresYet DEF Figures
    <2> QED BY <1>1, <1>2, <2>3
<1>5. StartedOK
    <2> SUFFICES ASSUME NEW c \in Contests, NEW w \in Wards, NEW p \in Below[w]
                 PROVE  sheet[c][p].status # "APPROVED"
        BY DEF StartedOK
    <2>1. p \in PUs BY PlacesAreFinite
    <2> QED BY <1>1, <1>2, <2>1
<1> QED BY <1>1, <1>3, <1>4, <1>5 DEF BoardsIInv, ClimbOK, AlarmOK

\* A request of an agent or an officer writes rows of one contest: the units that it
\* approves or returns lie in the ward that it is about to roll up.
LEMMA RequestKeeps ==
    ASSUME BoardsIInv, SheetOK', climb = <<>>, NEW c \in Contests, NEW w \in Wards, NEW clear \in BOOLEAN,
           climb' = <<>> \/ climb' = Path(c, w, clear),
           \A d \in Contests : d # c => sheet'[d] = sheet[d],
           \A u \in Areas : sheet'[c][u].votes = sheet[c][u].votes,
           \A u \in Areas : sheet'[c][u].status = sheet[c][u].status \/ Due(c, u)',
           \A p \in PUs : \/ sheet'[c][p] = sheet[c][p]
                          \/ sheet[c][p].status # "APPROVED" /\ sheet'[c][p].status # "APPROVED"
                          \/ Within[p] = w /\ climb' = Path(c, w, clear)
    PROVE  FiguresOK' /\ StartedOK' /\ ClimbOK'
<1> USE DEF BoardsIInv
<1>1. \A d, u : ~Due(d, u) BY NothingDue DEF Due
<1>2. \A d \in Contests : sheet[d] \in RowsOf /\ sheet'[d] \in RowsOf BY DEF SheetOK, RowsOf
<1>3. climb' = Path(c, w, clear) =>
          \A d, u : Due(d, u)' <=> d = c /\ u \in {w, Within[w], Within[Within[w]]}
    BY PathIs DEF Due
<1>4. FiguresOK'
    <2> SUFFICES ASSUME NEW d \in Contests, NEW u \in Areas, ~Due(d, u)'
                 PROVE  sheet'[d][u].votes = Adds(d, UnitsOf[u], {"APPROVED"})'
        BY DEF FiguresOK
    <2>1. UnitsOf[u] \in SUBSET PUs BY PlacesAreFinite
    <2>2. sheet[d][u].votes = Figures(sheet[d], UnitsOf[u], {"APPROVED"})
        BY <1>1, <2>1, AddsIs DEF FiguresOK
    <2>3. Adds(d, UnitsOf[u], {"APPROVED"})' = Figures(sheet'[d], UnitsOf[u], {"APPROVED"})
        BY <2>1, AddsWillBe
    <2>4. CASE d # c BY <2>2, <2>3, <2>4
    <2>5. CASE d = c
        <3>1. ASSUME NEW p \in UnitsOf[u]
              PROVE  \/ sheet'[c][p] = sheet[c][p]
                     \/ /\ sheet[c][p].status \notin {"APPROVED"}
                        /\ sheet'[c][p].status \notin {"APPROVED"}
            <4>1. p \in PUs /\ u \in {Within[p], Within[Within[p]], Within[Within[Within[p]]]}
                BY UnitsAre, <2>1 DEF Areas
            <4>2. ~(Within[p] = w /\ climb' = Path(c, w, clear)) BY <1>3, <2>5, <4>1
            <4> QED BY <4>1, <4>2
        <3>2. Figures(sheet'[c], UnitsOf[u], {"APPROVED"}) = Figures(sheet[c], UnitsOf[u], {"APPROVED"})
            BY <1>2, <2>1, <3>1, FiguresDepend
        <3> QED BY <2>2, <2>3, <2>5, <3>2
    <2> QED BY <2>4, <2>5
<1>5. StartedOK'
    <2> SUFFICES ASSUME NEW d \in Contests, NEW v \in Wards, NEW p \in Below[v],
                        ~Due(d, v)', sheet'[d][p].status = "APPROVED"
                 PROVE  sheet'[d][v].status # "NOT_STARTED"
        BY DEF StartedOK
    <2>1. p \in PUs /\ Within[p] = v /\ v \in Areas BY UnitsAre DEF Areas
    <2>2. CASE d # c BY <1>1, <2>2 DEF StartedOK
    <2>3. CASE d = c
        <3>1. sheet'[c][v].status = sheet[c][v].status BY <2>1, <2>3
        <3>2. ~(Within[p] = w /\ climb' = Path(c, w, clear)) BY <1>3, <2>1, <2>3
        <3>3. sheet[c][p].status = "APPROVED" BY <2>1, <2>3, <3>2
        <3> QED BY <1>1, <2>3, <3>1, <3>3 DEF StartedOK
    <2> QED BY <2>2, <2>3
<1>6. ClimbOK' BY DEF ClimbOK, Climbs
<1> QED BY <1>4, <1>5, <1>6
LEMMA WriteIs ==
    ASSUME SheetOK, NEW c \in Contests, NEW u \in PUs \cup Areas, NEW row \in Rows,
           u \in Areas => AreaRow(row), Write(c, u, row)
    PROVE  /\ SheetOK'
           /\ sheet'[c][u] = row
           /\ \A v \in PUs \cup Areas : v # u => sheet'[c][v] = sheet[c][v]
           /\ \A d \in Contests : d # c => sheet'[d] = sheet[d]
<1>1. sheet \in [Contests -> [PUs \cup Areas -> Rows]] BY DEF SheetOK
<1>2. sheet' = [sheet EXCEPT ![c][u] = row] BY DEF Write
<1>3. /\ sheet' \in [Contests -> [PUs \cup Areas -> Rows]]
      /\ sheet'[c][u] = row
      /\ \A v \in PUs \cup Areas : v # u => sheet'[c][v] = sheet[c][v]
      /\ \A d \in Contests : d # c => sheet'[d] = sheet[d]
    BY <1>1, <1>2
<1>4. \A d \in Contests, v \in Areas : AreaRow(sheet'[d][v])
    <2> TAKE d \in Contests, v \in Areas
    <2>1. AreaRow(sheet[d][v]) BY DEF SheetOK
    <2>2. CASE d = c /\ v = u BY <1>3, <2>2
    <2>3. CASE d # c \/ v # u
        <3>1. sheet'[d][v] = sheet[d][v] BY <1>3, <2>3
        <3> QED BY <2>1, <3>1
    <2> QED BY <2>2, <2>3
<1> QED BY <1>3, <1>4 DEF SheetOK

\* A unit's row is written, and its ward, LGA and state are due if it is or was approved.
LEMMA UnitWriteKeeps ==
    ASSUME BoardsIInv, climb = <<>>, NEW c \in Contests, NEW p \in PUs, NEW row \in Rows,
           Write(c, p, row), UNCHANGED alarm,
           \/ climb' = <<>> /\ sheet[c][p].status # "APPROVED" /\ row.status # "APPROVED"
           \/ climb' = Path(c, Within[p], FALSE)
    PROVE  BoardsIInv'
<1>1. p \notin Areas /\ Within[p] \in Wards /\ FALSE \in BOOLEAN BY Levels
<1>2. /\ SheetOK' /\ sheet'[c][p] = row
      /\ \A v \in PUs \cup Areas : v # p => sheet'[c][v] = sheet[c][v]
      /\ \A d \in Contests : d # c => sheet'[d] = sheet[d]
    BY <1>1, WriteIs DEF BoardsIInv
<1>3. \A u \in Areas : sheet'[c][u] = sheet[c][u] BY <1>1, <1>2
<1>4. \A q \in PUs : \/ sheet'[c][q] = sheet[c][q]
                     \/ sheet[c][q].status # "APPROVED" /\ sheet'[c][q].status # "APPROVED"
                     \/ Within[q] = Within[p] /\ climb' = Path(c, Within[p], FALSE)
    BY <1>2
<1>5. FiguresOK' /\ StartedOK' /\ ClimbOK'
    BY <1>1, <1>2, <1>3, <1>4, RequestKeeps
<1> QED BY <1>2, <1>5 DEF BoardsIInv, AlarmOK

LEMMA UnitStepsKeep ==
    ASSUME BoardsIInv, NEW c \in Contests, NEW p \in PUs,
           \/ \E votes \in Votes[p] : Enter(c, p, votes)
           \/ SubmitSheet(c, p) \/ ApproveSheet(c, p) \/ ReturnSheet(c, p)
    PROVE  BoardsIInv'
<1>1. sheet[c] \in RowsOf BY DEF BoardsIInv, SheetOK, RowsOf
<1>2. sheet[c][p] \in Rows BY <1>1, RowIs
<1>3. \A status \in Statuses : [sheet[c][p] EXCEPT !.status = status] \in Rows
          /\ [sheet[c][p] EXCEPT !.status = status].status = status
    BY <1>2 DEF Rows
<1>4. CASE \E votes \in Votes[p] : Enter(c, p, votes)
    <2>1. PICK v \in Votes[p] : Enter(c, p, v) BY <1>4
    <2>2. PICK row : row = [status |-> "DRAFT", votes |-> v] OBVIOUS
    <2>3. row \in Rows /\ row.status = "DRAFT" BY <2>2, VotesAreCounts DEF Rows, Statuses
    <2>4. /\ Write(c, p, row) /\ climb = <<>> /\ climb' = <<>> /\ UNCHANGED alarm
          /\ sheet[c][p].status # "APPROVED"
        BY <2>1, <2>2 DEF Enter
    <2> QED BY <2>3, <2>4, UnitWriteKeeps
<1>5. CASE SubmitSheet(c, p)
    <2>1. PICK row : row = [sheet[c][p] EXCEPT !.status = "SUBMITTED"] OBVIOUS
    <2>2. row \in Rows /\ row.status = "SUBMITTED" BY <1>3, <2>1 DEF Statuses
    <2>3. /\ Write(c, p, row) /\ climb = <<>> /\ climb' = <<>> /\ UNCHANGED alarm
          /\ sheet[c][p].status # "APPROVED"
        BY <1>5, <2>1 DEF SubmitSheet
    <2> QED BY <2>2, <2>3, UnitWriteKeeps
<1>6. CASE ApproveSheet(c, p)
    <2>1. PICK row : row = [sheet[c][p] EXCEPT !.status = "APPROVED"] OBVIOUS
    <2>2. row \in Rows BY <1>3, <2>1 DEF Statuses
    <2>3. Write(c, p, row) /\ climb = <<>> /\ climb' = Path(c, Within[p], FALSE) /\ UNCHANGED alarm
        BY <1>6, <2>1 DEF ApproveSheet
    <2> QED BY <2>2, <2>3, UnitWriteKeeps
<1>7. CASE ReturnSheet(c, p)
    <2>1. PICK row : row = [sheet[c][p] EXCEPT !.status = "REJECTED"] OBVIOUS
    <2>2. row \in Rows BY <1>3, <2>1 DEF Statuses
    <2>3. Write(c, p, row) /\ climb = <<>> /\ climb' = Path(c, Within[p], FALSE) /\ UNCHANGED alarm
        BY <1>7, <2>1 DEF ReturnSheet
    <2> QED BY <2>2, <2>3, UnitWriteKeeps
<1> QED BY <1>4, <1>5, <1>6, <1>7

LEMMA WardStepsKeep ==
    ASSUME BoardsIInv, NEW c \in Contests, NEW w \in Wards,
           (\E marked \in SUBSET Below[w] : ReturnWard(c, w, marked)) \/ ResubmitWard(c, w)
    PROVE  BoardsIInv'
<1>1. w \in Areas /\ \A d \in Contests : sheet[d] \in RowsOf BY DEF BoardsIInv, SheetOK, RowsOf, Areas
<1>2. CASE \E marked \in SUBSET Below[w] : ReturnWard(c, w, marked)
    <2>1. PICK marked \in SUBSET Below[w] : ReturnWard(c, w, marked) BY <1>2
    <2> DEFINE back(u) == u = w \/ (u \in marked /\ sheet[c][u].status \in {"SUBMITTED", "APPROVED"})
    <2>2. \A u \in marked : u \in PUs /\ u \notin Areas /\ Within[u] = w BY UnitsAre, Levels
    <2>3. sheet' = [sheet EXCEPT ![c] =
                       [u \in DOMAIN sheet[c] |->
                           IF back(u) THEN [sheet[c][u] EXCEPT !.status = "REJECTED"] ELSE sheet[c][u]]]
        BY <2>1 DEF ReturnWard
    <2>4. DOMAIN sheet[c] = PUs \cup Areas /\ DOMAIN sheet = Contests BY <1>1 DEF RowsOf, BoardsIInv, SheetOK
    <2>5. /\ DOMAIN sheet' = Contests
          /\ \A d \in Contests : d # c => sheet'[d] = sheet[d]
          /\ sheet'[c] = [u \in PUs \cup Areas |->
                 IF back(u) THEN [sheet[c][u] EXCEPT !.status = "REJECTED"] ELSE sheet[c][u]]
        BY <2>3, <2>4
    <2>6. \A u \in PUs \cup Areas :
              /\ back(u) => /\ sheet'[c][u].status = "REJECTED"
                            /\ sheet'[c][u].votes = sheet[c][u].votes
              /\ ~back(u) => sheet'[c][u] = sheet[c][u]
              /\ sheet'[c][u] \in Rows
        <3> TAKE u \in PUs \cup Areas
        <3>1. sheet[c][u] \in Rows BY <1>1, RowIs
        <3>2. [sheet[c][u] EXCEPT !.status = "REJECTED"] \in Rows BY <3>1 DEF Rows, Statuses
        <3>3. /\ [sheet[c][u] EXCEPT !.status = "REJECTED"].status = "REJECTED"
              /\ [sheet[c][u] EXCEPT !.status = "REJECTED"].votes = sheet[c][u].votes
            BY <3>1 DEF Rows
        <3>4. CASE back(u)
            <4>1. sheet'[c][u] = [sheet[c][u] EXCEPT !.status = "REJECTED"] BY <2>5, <3>4
            <4> QED BY <3>2, <3>3, <3>4, <4>1, Zenon
        <3>5. CASE ~back(u)
            <4>1. sheet'[c][u] = sheet[c][u] BY <2>5, <3>5
            <4> QED BY <3>1, <3>5, <4>1, Zenon
        <3> QED BY <3>4, <3>5
    <2>7. \A u \in Areas : back(u) <=> u = w BY <2>2
    <2> HIDE DEF back
    <2>8. SheetOK'
        <3>1. sheet'[c] \in [PUs \cup Areas -> Rows] BY <2>5, <2>6
        <3>2. \A d \in Contests : sheet'[d] \in [PUs \cup Areas -> Rows] BY <1>1, <2>5, <3>1 DEF RowsOf
        <3>3. sheet' \in [Contests -> [PUs \cup Areas -> Rows]]
            <4>1. sheet' = [d \in Contests |-> sheet'[d]] BY <2>3, <2>4
            <4> QED BY <3>2, <4>1
        <3>4. \A d \in Contests, v \in Areas : AreaRow(sheet'[d][v])
            <4> TAKE d \in Contests, v \in Areas
            <4>1. AreaRow(sheet[d][v]) BY DEF BoardsIInv, SheetOK
            <4>2. CASE d = c /\ v = w
                <5>1. sheet'[c][w].status = "REJECTED" BY <1>1, <2>6, <2>7
                <5> QED BY <4>2, <5>1 DEF AreaRow
            <4>3. CASE d # c \/ v # w
                <5>1. sheet'[d][v] = sheet[d][v] BY <2>5, <2>6, <2>7, <4>3
                <5> QED BY <4>1, <5>1
            <4> QED BY <4>2, <4>3
        <3> QED BY <3>3, <3>4 DEF SheetOK
    <2>9. climb = <<>> /\ climb' = Path(c, w, FALSE) /\ UNCHANGED alarm BY <2>1 DEF ReturnWard
    <2>10. Due(c, w)' BY <2>9, PathIs DEF Due
    <2>11. /\ \A u \in Areas : sheet'[c][u].votes = sheet[c][u].votes
           /\ \A u \in Areas : sheet'[c][u].status = sheet[c][u].status \/ Due(c, u)'
        BY <2>6, <2>7, <2>10
    <2>12. \A p \in PUs : sheet'[c][p] = sheet[c][p] \/ Within[p] = w
        BY <1>1, <2>2, <2>6, Levels DEF back
    <2>13. FiguresOK' /\ StartedOK' /\ ClimbOK'
        BY <2>5, <2>8, <2>9, <2>11, <2>12, RequestKeeps
    <2> QED BY <2>8, <2>9, <2>13 DEF BoardsIInv, AlarmOK
<1>3. CASE ResubmitWard(c, w)
    <2>1. climb = <<>> /\ climb' = Path(c, w, TRUE) /\ UNCHANGED <<sheet, alarm>>
        BY <1>3 DEF ResubmitWard
    <2>2. SheetOK' BY <2>1 DEF BoardsIInv, SheetOK
    <2>3. FiguresOK' /\ StartedOK' /\ ClimbOK' BY <2>1, <2>2, RequestKeeps
    <2> QED BY <2>1, <2>2, <2>3 DEF BoardsIInv, AlarmOK
<1> QED BY <1>2, <1>3
\* What a rollup writes: the votes of the rows below are those of the approved units.
LEMMA RolledUp ==
    ASSUME NEW rows \in RowsOf, \A k \in Areas : AreaRow(rows[k]), NEW u \in Areas,
           \A k \in Areas : k \in Below[u] => rows[k].votes = Figures(rows, UnitsOf[k], {"APPROVED"})
    PROVE  Tally(rows, Chosen(rows, Below[u], AddsUp(u))) = Figures(rows, UnitsOf[u], {"APPROVED"})
<1>1. CASE u \in Wards BY <1>1, UnitsAre DEF AddsUp, Figures
<1>2. CASE u \in LGAs \cup States
    <2>1. u \notin Wards BY <1>2, Levels
    <2>2. Below[u] \in SUBSET Areas /\ Cuts(UnitsOf, Below[u], UnitsOf[u])
        BY <1>2, PlacesAreFinite, PlacesCut DEF Areas
    <2>3. UnitsOf[u] \in SUBSET PUs BY PlacesAreFinite
    <2>4. Tally(rows, Below[u]) = Figures(rows, UnitsOf[u], {"APPROVED"})
        BY <2>2, <2>3, FiguresAddUp
    <2>5. PICK found : found = Chosen(rows, Below[u], AddsUp(u)) OBVIOUS
    <2>6. \A k \in Below[u] : k \in found \/ rows[k].votes = Zero
        BY <2>1, <2>2, <2>5 DEF Chosen, AddsUp, AreaRow, Reported, NoRow
    <2>7. \A k \in Below[u] : k \in found \/ (ClientOf(rows)[k] = 0 /\ RivalOf(rows)[k] = 0)
        BY <2>2, <2>6, RowIs DEF Zero
    <2>8. found \in SUBSET Below[u] BY <2>5 DEF Chosen
    <2>9. SumOver(ClientOf(rows), found) = SumOver(ClientOf(rows), Below[u])
        BY <2>7, <2>8, SumSkipsZeros
    <2>10. SumOver(RivalOf(rows), found) = SumOver(RivalOf(rows), Below[u])
        BY <2>7, <2>8, SumSkipsZeros
    <2> QED BY <2>4, <2>5, <2>9, <2>10 DEF Tally
<1> QED BY <1>1, <1>2 DEF Areas

\* The next row of the climb is brought up to date and leaves the others alone.
LEMMA RollUpKeeps == ASSUME BoardsIInv, RollUp PROVE BoardsIInv'
<1> USE DEF BoardsIInv
<1>1. climb # <<>> /\ climb' = Tail(climb) /\ UNCHANGED alarm BY DEF RollUp
<1>2. PICK c \in Contests, w \in Wards, clear \in BOOLEAN : climb \in Climbs(c, w, clear)
    BY <1>1 DEF ClimbOK
<1>3. PICK u : u = climb[1].place OBVIOUS
<1>4. /\ climb[1].contest = c /\ u \in Areas
      /\ climb' = <<>> \/ climb' \in Climbs(c, w, clear)
      /\ \A d, v : Due(d, v) <=> (d = c /\ v = u) \/ Due(d, v)'
      /\ \A k \in Areas : k \in Below[u] => ~Due(c, k)
    BY <1>1, <1>2, <1>3, ClimbSays DEF Due
<1>5. ClimbOK' BY <1>4 DEF ClimbOK
<1>6. PICK found : found = {k \in Below[u] : sheet[c][k].status \in AddsUp(u)} OBVIOUS
<1>7. PICK rows : rows = sheet[c] OBVIOUS
<1>8. rows \in RowsOf /\ \A k \in Areas : AreaRow(rows[k]) BY <1>7 DEF SheetOK, RowsOf
<1>9. /\ Below[u] \in SUBSET (PUs \cup Areas) /\ IsFiniteSet(Below[u])
      /\ UnitsOf[u] \in SUBSET PUs /\ IsFiniteSet(UnitsOf[u])
    BY <1>4, PlacesAreFinite DEF Areas
<1>10. found \in SUBSET (PUs \cup Areas) /\ found = Chosen(rows, Below[u], AddsUp(u))
    BY <1>6, <1>7, <1>9 DEF Chosen
<1>11. Chosen(rows, found, AddsUp(u)) = found BY <1>10 DEF Chosen
<1>12. \A k \in Areas : k \in Below[u] => rows[k].votes = Figures(rows, UnitsOf[k], {"APPROVED"})
    <2> SUFFICES ASSUME NEW k \in Areas, k \in Below[u]
                 PROVE  rows[k].votes = Figures(rows, UnitsOf[k], {"APPROVED"})
        OBVIOUS
    <2>1. UnitsOf[k] \in SUBSET PUs BY PlacesAreFinite
    <2> QED BY <1>4, <1>7, <2>1, AddsIs DEF FiguresOK
<1>13. Tally(rows, found) = Figures(rows, UnitsOf[u], {"APPROVED"})
    BY <1>4, <1>8, <1>10, <1>12, RolledUp
<1>14. Adds(c, found, AddsUp(u)) = Figures(rows, UnitsOf[u], {"APPROVED"})
    BY <1>7, <1>10, <1>11, <1>13, AddsIs DEF Figures
<1>15. PICK official : official = Figures(rows, UnitsOf[u], {"APPROVED"}) OBVIOUS
<1>16. official \in Counts
    BY <1>8, <1>9, <1>15, FiguresAreCounts
<1>17. PICK status \in {"REJECTED", "APPROVED"} :
           \/ found = {} /\ rows[u] = NoRow /\ UNCHANGED sheet
           \/ Write(c, u, [status |-> status, votes |-> official])
    <2>1. \/ found = {} /\ sheet[c][u] = NoRow /\ UNCHANGED sheet
          \/ Write(c, u, [status |-> IF sheet[c][u].status = "REJECTED" /\ ~climb[1].clear
                                     THEN "REJECTED" ELSE "APPROVED",
                          votes |-> Adds(c, found, AddsUp(u))])
        BY <1>3, <1>4, <1>6 DEF RollUp
    <2> QED BY <2>1, <1>7, <1>14, <1>15
<1>18. /\ SheetOK'
       /\ \A v \in PUs \cup Areas : v # u => sheet'[c][v] = sheet[c][v]
       /\ \A d \in Contests : d # c => sheet'[d] = sheet[d]
       /\ sheet'[c][u].votes = official
       /\ sheet'[c][u].status = "NOT_STARTED" => found = {}
    <2>1. CASE found = {} /\ rows[u] = NoRow /\ UNCHANGED sheet
        <3>1. official = Zero BY <2>1, <1>13, <1>15, NoFiguresYet
        <3>2. SheetOK' BY <2>1 DEF SheetOK
        <3> QED BY <2>1, <3>1, <3>2, <1>7 DEF NoRow
    <2>2. CASE Write(c, u, [status |-> status, votes |-> official])
        <3>1. PICK row : row = [status |-> status, votes |-> official] OBVIOUS
        <3>2. row \in Rows /\ AreaRow(row) /\ row.votes = official /\ row.status = status
            BY <3>1, <1>16 DEF Rows, Statuses, AreaRow
        <3>3. /\ SheetOK' /\ sheet'[c][u] = row
              /\ \A v \in PUs \cup Areas : v # u => sheet'[c][v] = sheet[c][v]
              /\ \A d \in Contests : d # c => sheet'[d] = sheet[d]
            BY <2>2, <3>1, <3>2, <1>4, WriteIs
        <3> QED BY <3>2, <3>3
    <2> QED BY <1>17, <2>1, <2>2
<1>19. \A d \in Contests : sheet'[d] \in RowsOf /\ sheet[d] \in RowsOf BY <1>18 DEF SheetOK, RowsOf
<1>20. FiguresOK'
    <2> SUFFICES ASSUME NEW d \in Contests, NEW v \in Areas, ~Due(d, v)'
                 PROVE  sheet'[d][v].votes = Adds(d, UnitsOf[v], {"APPROVED"})'
        BY DEF FiguresOK
    <2>1. UnitsOf[v] \in SUBSET PUs BY PlacesAreFinite
    <2>2. \A p \in PUs : p # u BY <1>4, Levels
    <2>3. \A p \in UnitsOf[v] : sheet'[d][p] = sheet[d][p] BY <1>18, <2>1, <2>2
    <2>4. Figures(sheet'[d], UnitsOf[v], {"APPROVED"}) = Figures(sheet[d], UnitsOf[v], {"APPROVED"})
        BY <1>19, <2>1, <2>3, FiguresDepend
    <2>5. Adds(d, UnitsOf[v], {"APPROVED"})' = Figures(sheet[d], UnitsOf[v], {"APPROVED"})
        BY <1>18, <2>1, <2>4, AddsWillBe
    <2>6. CASE d = c /\ v = u BY <2>5, <2>6, <1>7, <1>15, <1>18
    <2>7. CASE d # c \/ v # u
        <3>1. ~Due(d, v) BY <1>4, <2>7
        <3>2. sheet[d][v].votes = Adds(d, UnitsOf[v], {"APPROVED"}) BY <3>1 DEF FiguresOK
        <3>3. sheet'[d][v] = sheet[d][v] BY <1>18, <2>7
        <3>4. Adds(d, UnitsOf[v], {"APPROVED"}) = Figures(sheet[d], UnitsOf[v], {"APPROVED"})
            BY <2>1, AddsIs
        <3> QED BY <2>5, <3>2, <3>3, <3>4
    <2> QED BY <2>6, <2>7
<1>21. StartedOK'
    <2> SUFFICES ASSUME NEW d \in Contests, NEW v \in Wards, NEW p \in Below[v],
                        ~Due(d, v)', sheet'[d][p].status = "APPROVED"
                 PROVE  sheet'[d][v].status # "NOT_STARTED"
        BY DEF StartedOK
    <2>1. p \in PUs /\ p # u /\ v \in Areas BY <1>4, UnitsAre, Levels DEF Areas
    <2>2. sheet'[d][p] = sheet[d][p] BY <1>18, <2>1
    <2>3. CASE d = c /\ v = u
        <3>1. p \in found BY <1>6, <2>2, <2>3 DEF AddsUp
        <3> QED BY <3>1, <1>18, <2>3
    <2>4. CASE d # c \/ v # u
        <3>1. ~Due(d, v) BY <1>4, <2>4
        <3>2. sheet'[d][v] = sheet[d][v] BY <1>18, <2>1, <2>4
        <3> QED BY <2>2, <3>1, <3>2 DEF StartedOK
    <2> QED BY <2>3, <2>4
<1> QED BY <1>1, <1>5, <1>18, <1>20, <1>21 DEF AlarmOK

\* Incidents, dashboards and Redis leave sheets and climbs alone.
LEMMA SheetsStand ==
    ASSUME BoardsIInv, UNCHANGED <<sheet, climb>>, alarm' \in SUBSET Alarms
    PROVE  BoardsIInv'
<1> USE DEF BoardsIInv
<1>1. SheetOK' /\ ClimbOK' /\ AlarmOK' BY DEF SheetOK, ClimbOK, AlarmOK
<1>2. StartedOK' BY DEF StartedOK, Due
<1>3. FiguresOK'
    <2> SUFFICES ASSUME NEW c \in Contests, NEW u \in Areas, ~Due(c, u)'
                 PROVE  sheet'[c][u].votes = Adds(c, UnitsOf[u], {"APPROVED"})'
        BY DEF FiguresOK
    <2>1. UnitsOf[u] \in SUBSET PUs BY PlacesAreFinite
    <2>2. ~Due(c, u) BY DEF Due
    <2> QED BY <1>1, <2>1, <2>2, AddsIs, AddsWillBe DEF FiguresOK
<1> QED BY <1>1, <1>2, <1>3

\* Type correctness, and the claim of the code's rollups: an area that no running request
\* still has to roll up holds the votes of its approved units, at every moment.
THEOREM BoardsTyped == BoardsSpec => []BoardsIInv
<1>1. BoardsIInv /\ [BoardsNext]_boardVars => BoardsIInv'
    <2> SUFFICES ASSUME BoardsIInv, [BoardsNext]_boardVars PROVE BoardsIInv' OBVIOUS
    <2>1. alarm \in SUBSET Alarms BY DEF BoardsIInv, AlarmOK
    <2>2. CASE \E c \in Contests, p \in PUs : \/ \E votes \in Votes[p] : Enter(c, p, votes)
                                              \/ SubmitSheet(c, p) \/ ApproveSheet(c, p)
                                              \/ ReturnSheet(c, p)
        BY <2>2, UnitStepsKeep
    <2>3. CASE \E c \in Contests, w \in Wards :
                   \/ \E marked \in SUBSET Below[w] : ReturnWard(c, w, marked)
                   \/ ResubmitWard(c, w)
        BY <2>3, WardStepsKeep
    <2>4. CASE RollUp BY <2>4, RollUpKeeps
    <2>5. CASE \E a \in Alarms : Report(a)
        <3>1. UNCHANGED <<sheet, climb>> /\ alarm' \in SUBSET Alarms BY <2>1, <2>5 DEF Report
        <3> QED BY <3>1, SheetsStand
    <2>6. CASE Dashboards \/ UNCHANGED boardVars
        <3>1. UNCHANGED <<sheet, climb, alarm>>
            BY <2>6 DEF Dashboards, Expire, Poll, Load, Store, boardVars
        <3> QED BY <2>1, <3>1, SheetsStand
    <2> QED BY <2>2, <2>3, <2>4, <2>5, <2>6 DEF BoardsNext
<1> QED BY <1>1, NothingShown, PTL DEF BoardsSpec
-----------------------------------------------------------------------------
(***************************************************************************)
(* The boards agree.                                                       *)
(***************************************************************************)

\* Once no request runs, every area's own row, and the figures that are shown for it, are
\* the approved votes of its units.
LEMMA Settled ==
    ASSUME BoardsIInv, climb = <<>>, NEW c \in Contests, NEW u \in Areas
    PROVE  /\ sheet[c][u].votes = Adds(c, UnitsOf[u], {"APPROVED"})
           /\ sheet[c][u].votes = Figures(sheet[c], UnitsOf[u], {"APPROVED"})
           /\ Official(c, u) = sheet[c][u].votes /\ RaceVotes(c, u) = sheet[c][u].votes
           /\ Listed(c, u).votes = sheet[c][u].votes /\ ResultRow(c, u).votes = sheet[c][u].votes
           /\ sheet[c] \in RowsOf /\ sheet[c][u].votes \in Counts
<1>1. ~Due(c, u) BY NothingDue DEF Due
<1>2. sheet[c][u].votes = Adds(c, UnitsOf[u], {"APPROVED"}) BY <1>1 DEF BoardsIInv, FiguresOK
<1>3. UnitsOf[u] \in SUBSET PUs BY PlacesAreFinite
<1>4. sheet[c][u].votes = Figures(sheet[c], UnitsOf[u], {"APPROVED"})
    BY <1>2, <1>3, AddsIs DEF BoardsIInv
<1>5. Official(c, u) = sheet[c][u].votes BY <1>2 DEF Official
<1>6. sheet[c] \in RowsOf BY DEF BoardsIInv, SheetOK, RowsOf
<1> QED BY <1>2, <1>4, <1>5, <1>6, RowIs DEF RaceVotes, Listed, ResultRow

\* What is shown as not pending is the approved figure, and what is pending is shown only
\* where no vote is approved.
LEMMA SelectionIs ==
    ASSUME NEW approved \in Counts, NEW submitted, NEW returned
    PROVE  LET s == Selection(approved, submitted, returned)
           IN  IF s.pending THEN Total(approved) = 0 ELSE s.votes = approved
<1>1. approved.client \in Nat /\ approved.rival \in Nat BY DEF Counts
<1>2. CASE Total(approved) > 0 BY <1>2 DEF Selection
<1>3. CASE ~(Total(approved) > 0)
    <2>1. Total(approved) = 0 BY <1>1, <1>3 DEF Total
    <2> QED BY <1>3, <2>1 DEF Selection
<1> QED BY <1>2, <1>3

MapAgrees(m, approved) == IF m.pending THEN Total(approved) = 0 ELSE m.votes = approved

LEMMA MapsAgree ==
    ASSUME BoardsIInv, climb = <<>>, NEW c \in Contests, NEW u \in Areas
    PROVE  /\ MapAgrees(StateOnMap(c, u), sheet[c][u].votes)
           /\ MapAgrees(AreaOnMap(c, u), sheet[c][u].votes)
           /\ MapAgrees(LgaOnMap(c, u), sheet[c][u].votes)
<1>1. /\ sheet[c][u].votes \in Counts /\ Official(c, u) = sheet[c][u].votes
      /\ sheet[c][u].votes = Adds(c, UnitsOf[u], {"APPROVED"})
    BY Settled
<1>2. PICK official : official = sheet[c][u].votes OBVIOUS
<1>3. \A submitted, returned, reporting, pipeline :
          MapAgrees(MapRow(c, u, Selection(official, submitted, returned), reporting, pipeline), official)
    <2> TAKE submitted, returned, reporting, pipeline
    <2>1. PICK s : s = Selection(official, submitted, returned) OBVIOUS
    <2>2. IF s.pending THEN Total(official) = 0 ELSE s.votes = official
        BY <1>1, <1>2, <2>1, SelectionIs
    <2>3. PICK m : m = MapRow(c, u, s, reporting, pipeline) OBVIOUS
    <2>4. m.votes = s.votes /\ m.pending = s.pending BY <2>3 DEF MapRow
    <2> QED BY <2>1, <2>2, <2>3, <2>4 DEF MapAgrees
<1>4. MapAgrees(StateOnMap(c, u), official) BY <1>2, <1>3 DEF StateOnMap
<1>5. MapAgrees(AreaOnMap(c, u), official) BY <1>1, <1>2, <1>3 DEF AreaOnMap
<1>6. (IF Total(sheet[c][u].votes) > 0 THEN sheet[c][u].votes ELSE Adds(c, UnitsOf[u], {"APPROVED"}))
          = official
    BY <1>1, <1>2
<1>7. MapAgrees(LgaOnMap(c, u), official) BY <1>3, <1>6 DEF LgaOnMap
<1> QED BY <1>2, <1>4, <1>5, <1>7

LEMMA RacesAgree ==
    ASSUME BoardsIInv, climb = <<>>, NEW c \in Contests
    PROVE  /\ \A s \in States : LgaRace(c, s).sum = sheet[c][s].votes
           /\ SeatRace(c).sum = SeatVotes(c)
<1>1. sheet[c] \in RowsOf BY DEF BoardsIInv, SheetOK, RowsOf
<1>2. PICK rows : rows = sheet[c] OBVIOUS
<1>3. \A u \in Areas : /\ rows[u].votes = Figures(rows, UnitsOf[u], {"APPROVED"})
                       /\ RaceVotes(c, u) = rows[u].votes /\ Official(c, u) = rows[u].votes
    BY <1>2, Settled
<1>4. ASSUME NEW f, DOMAIN f \in SUBSET Areas, \A u \in DOMAIN f : f[u] = rows[u].votes
      PROVE  Race(f).sum = Tally(rows, DOMAIN f)
    <2>1. PICK S : S = DOMAIN f OBVIOUS
    <2>a. rows \in RowsOf /\ S \in SUBSET (PUs \cup Areas) BY <1>1, <1>2, <1>4, <2>1
    <2>2. AddUp(LAMBDA u : rows[u].votes, S) = Tally(rows, S) BY <2>a, TallyIs
    <2>3. {{x} \X (1 .. f[x].client) : x \in S} = {{x} \X (1 .. rows[x].votes.client) : x \in S}
        BY <1>4, <2>1
    <2>4. {{x} \X (1 .. f[x].rival) : x \in S} = {{x} \X (1 .. rows[x].votes.rival) : x \in S}
        BY <1>4, <2>1
    <2>5. AddUp(LAMBDA u : f[u], S) = AddUp(LAMBDA u : rows[u].votes, S)
        BY <2>3, <2>4 DEF AddUp, Sum
    <2>6. Race(f).sum = AddUp(LAMBDA u : f[u], S) BY <2>1 DEF Race
    <2> QED BY <2>1, <2>2, <2>5, <2>6
<1>5. ASSUME NEW s \in States PROVE LgaRace(c, s).sum = sheet[c][s].votes
    <2>1. Below[s] \in SUBSET Areas /\ UnitsOf[s] \in SUBSET PUs /\ Cuts(UnitsOf, Below[s], UnitsOf[s])
        BY PlacesAreFinite, PlacesCut DEF Areas
    <2>2. PICK f : f = [l \in Below[s] |-> RaceVotes(c, l)] OBVIOUS
    <2>3. DOMAIN f = Below[s] /\ \A u \in DOMAIN f : f[u] = rows[u].votes BY <1>3, <2>1, <2>2
    <2>4. Race(f).sum = Tally(rows, Below[s]) BY <1>4, <2>1, <2>3
    <2>5. Tally(rows, Below[s]) = Figures(rows, UnitsOf[s], {"APPROVED"})
        BY <1>1, <1>2, <1>3, <2>1, FiguresAddUp
    <2>6. s \in Areas BY DEF Areas
    <2> QED BY <1>2, <1>3, <2>2, <2>4, <2>5, <2>6 DEF LgaRace
<1>6. SeatRace(c).sum = SeatVotes(c)
    <2>1. PICK units : units = UNION {UnitsOf[w] : w \in Seat} OBVIOUS
    <2>2. Seat \in SUBSET Areas /\ IsFiniteSet(Seat) BY AtPlaces, PlacesNest, FS_Subset DEF Areas
    <2>3. units \in SUBSET PUs /\ IsFiniteSet(units)
        <3>1. units \in SUBSET PUs BY <2>1, <2>2, PlacesAreFinite
        <3> QED BY <3>1, PlacesNest, FS_Subset
    <2>4. Cuts(UnitsOf, Seat, units)
        <3>1. \A v, w \in Seat : v # w => UnitsOf[v] \cap UnitsOf[w] = {} BY PlacesCut, AtPlaces DEF Cuts
        <3> QED BY <2>1, <2>2, <2>3, <3>1 DEF Cuts
    <2>5. PICK f : f = [w \in Seat |-> Official(c, w)] OBVIOUS
    <2>6. DOMAIN f = Seat /\ \A u \in DOMAIN f : f[u] = rows[u].votes BY <1>3, <2>2, <2>5
    <2>7. Race(f).sum = Tally(rows, Seat) BY <1>4, <2>2, <2>6
    <2>8. Tally(rows, Seat) = Figures(rows, units, {"APPROVED"})
        BY <1>1, <1>2, <1>3, <2>2, <2>3, <2>4, FiguresAddUp
    <2>9. SeatVotes(c) = Figures(rows, units, {"APPROVED"})
        BY <1>2, <2>1, <2>3, AddsIs DEF SeatVotes, BoardsIInv
    <2> QED BY <2>5, <2>7, <2>8, <2>9 DEF SeatRace
<1> QED BY <1>5, <1>6

\* Once no request runs, every board shows the same approved figures: the map of the
\* nation, of a state and of an LGA, the lists, the race and the assembly seats; a board
\* that shows figures nobody approved yet says so.
THEOREM BoardsCorrect == BoardsSpec => []BoardsAgree
<1>1. BoardsIInv => BoardsAgree
    <2> SUFFICES ASSUME BoardsIInv, climb = <<>>, NEW c \in Contests, NEW u \in Areas
                 PROVE  LET approved == Adds(c, UnitsOf[u], {"APPROVED"})
                            maps == {IF u \in States THEN StateOnMap(c, u) ELSE AreaOnMap(c, u)} \cup
                                    IF u \in LGAs THEN {LgaOnMap(c, u)} ELSE {}
                        IN  /\ \A m \in maps : IF m.pending THEN Total(approved) = 0
                                               ELSE m.votes = approved
                            /\ {Listed(c, u).votes, ResultRow(c, u).votes, RaceVotes(c, u)} = {approved}
                            /\ u \in States => LgaRace(c, u).sum = approved
                            /\ Seat = Below[u] => SeatRace(c).sum = SeatVotes(c)
        BY DEF BoardsAgree
    <2>1. PICK approved : approved = Adds(c, UnitsOf[u], {"APPROVED"}) OBVIOUS
    <2>2. approved = sheet[c][u].votes BY <2>1, Settled
    <2>3. PICK maps : maps = {IF u \in States THEN StateOnMap(c, u) ELSE AreaOnMap(c, u)} \cup
                             IF u \in LGAs THEN {LgaOnMap(c, u)} ELSE {}
        OBVIOUS
    <2>4. \A m \in maps : m \in {StateOnMap(c, u), AreaOnMap(c, u), LgaOnMap(c, u)}
        BY <2>3
    <2>5. \A m \in maps : MapAgrees(m, approved) BY <2>2, <2>4, MapsAgree
    <2>6. {Listed(c, u).votes, ResultRow(c, u).votes, RaceVotes(c, u)} = {approved}
        BY <2>2, Settled
    <2>7. u \in States => LgaRace(c, u).sum = approved BY <2>2, RacesAgree
    <2>8. SeatRace(c).sum = SeatVotes(c) BY RacesAgree
    <2> QED BY <2>1, <2>3, <2>5, <2>6, <2>7, <2>8 DEF MapAgrees
<1> QED BY <1>1, BoardsTyped, PTL
-----------------------------------------------------------------------------
(***************************************************************************)
(* Standings tell the winner.                                              *)
(***************************************************************************)
LEMMA OutcomeIs ==
    ASSUME NEW v \in Counts
    PROVE  /\ Outcome(v) = "WIN" <=> v.client > v.rival
           /\ Outcome(v) = "LOSS" <=> v.client < v.rival
           /\ v.client \in Nat /\ v.rival \in Nat
<1>1. v.client \in Nat /\ v.rival \in Nat BY DEF Counts
<1> QED BY <1>1 DEF Outcome, Total

LEMMA OperationalIs ==
    ASSUME NEW v \in Counts, NEW reporting, NEW pipeline, NEW urgent \in Nat
    PROVE  /\ Operational(v, reporting, pipeline, urgent) = "INCIDENT_FLAGGED" <=> urgent > 0
           /\ Operational(v, reporting, pipeline, urgent) = "WINNING" => v.client > v.rival
           /\ Operational(v, reporting, pipeline, urgent) = "LOSING" => v.client < v.rival
<1> DEFINE early == 2000 * reporting.reported < 999 * reporting.total
           waiting == /\ pipeline.submitted > 0
                      /\ 5 * (pipeline.submitted - pipeline.verified) >= pipeline.total
           close == 20 * Margin(v) < Total(v)
           lead == CASE Outcome(v) = "WIN" -> "WINNING"
                     [] Outcome(v) = "LOSS" -> "LOSING"
                     [] OTHER -> "COMPETITIVE"
           some == Total(v) > 0
<1>1. /\ lead = "WINNING" => v.client > v.rival
      /\ lead = "LOSING" => v.client < v.rival
      /\ lead \in {"WINNING", "LOSING", "COMPETITIVE"}
    BY OutcomeIs
<1>2. v.client \in Nat /\ v.rival \in Nat BY DEF Counts
<1>3. Total(v) \in Nat BY <1>2 DEF Total
<1>4. Operational(v, reporting, pipeline, urgent) =
          CASE urgent > 0 -> "INCIDENT_FLAGGED"
            [] urgent = 0 /\ Total(v) = 0 -> "INSUFFICIENT_DATA"
            [] urgent = 0 /\ Total(v) > 0 /\ early -> lead
            [] urgent = 0 /\ Total(v) > 0 /\ ~early /\ waiting -> "AWAITING_APPROVAL"
            [] urgent = 0 /\ Total(v) > 0 /\ ~early /\ ~waiting /\ close -> "COMPETITIVE"
            [] OTHER -> lead
    BY DEF Operational
<1> HIDE DEF early, waiting, close, lead
<1>5. Operational(v, reporting, pipeline, urgent)
          \in {"INCIDENT_FLAGGED", "INSUFFICIENT_DATA", "AWAITING_APPROVAL", "COMPETITIVE", lead}
    BY <1>4
<1>6. urgent > 0 => Operational(v, reporting, pipeline, urgent) = "INCIDENT_FLAGGED" BY <1>4
<1>7. urgent = 0 => Operational(v, reporting, pipeline, urgent) # "INCIDENT_FLAGGED"
    BY <1>1, <1>3, <1>4
<1> QED BY <1>1, <1>5, <1>6, <1>7

\* An incident hides a place exactly while one is open at it or in it.
LEMMA UrgentIs ==
    ASSUME BoardsIInv, NEW u
    PROVE  /\ Urgent(u) \in Nat
           /\ Urgent(u) > 0 <=> alarm \cap {a \in Alarms : u \in Above[a]} # {}
<1>1. PICK open : open = OpenIncidents(u) OBVIOUS
<1>2. open \in SUBSET Alarms /\ open = alarm \cap {a \in Alarms : u \in Above[a]}
    BY <1>1 DEF OpenIncidents, BoardsIInv, AlarmOK
<1>3. IsFiniteSet(open) BY <1>2, AtPlaces, FS_Subset
<1>4. Cardinality(open) \in Nat /\ (Cardinality(open) = 0 <=> open = {})
    BY <1>3, FS_CardinalityType, FS_EmptySet
<1> QED BY <1>1, <1>2, <1>4 DEF Urgent

LEMMA FiguresTyped ==
    ASSUME BoardsIInv, NEW c \in Contests, NEW u \in Areas, NEW statuses
    PROVE  /\ Adds(c, UnitsOf[u], statuses) \in Counts
           /\ AllContests(UnitsOf[u], statuses) \in Counts
           /\ sheet[c][u].votes \in Counts /\ Official(c, u) \in Counts
<1>1. \A d \in Contests : sheet[d] \in RowsOf BY DEF BoardsIInv, SheetOK, RowsOf
<1>2. UnitsOf[u] \in SUBSET PUs /\ IsFiniteSet(UnitsOf[u]) BY PlacesAreFinite
<1>3. \A d \in Contests : Adds(d, UnitsOf[u], statuses) \in Counts
    BY <1>1, <1>2, AddsIs, FiguresAreCounts DEF BoardsIInv
<1>4. sheet[c][u].votes \in Counts BY <1>1, RowIs
<1>5. AllContests(UnitsOf[u], statuses) \in Counts
    <2> DEFINE x == [d \in Contests |-> Adds(d, UnitsOf[u], statuses).client]
               y == [d \in Contests |-> Adds(d, UnitsOf[u], statuses).rival]
    <2>1. \A d \in Contests : x[d] \in Nat /\ y[d] \in Nat BY <1>3 DEF Counts
    <2>2. {{d} \X (1 .. x[d]) : d \in Contests}
              = {{d} \X (1 .. Adds(d, UnitsOf[u], statuses).client) : d \in Contests}
        OBVIOUS
    <2>3. {{d} \X (1 .. y[d]) : d \in Contests}
              = {{d} \X (1 .. Adds(d, UnitsOf[u], statuses).rival) : d \in Contests}
        OBVIOUS
    <2>4. AllContests(UnitsOf[u], statuses) = [client |-> SumOver(x, Contests), rival |-> SumOver(y, Contests)]
        BY <2>2, <2>3 DEF AllContests, AddUp, Sum, SumOver
    <2> HIDE DEF x, y
    <2>5. SumOver(x, Contests) \in Nat /\ SumOver(y, Contests) \in Nat
        BY <2>1, VotesAreCounts, SumIsCount
    <2> QED BY <2>4, <2>5 DEF Counts
<1>6. Adds(c, UnitsOf[u], {"APPROVED"}) \in Counts
    BY <1>1, <1>2, AddsIs, FiguresAreCounts DEF BoardsIInv
<1> QED BY <1>3, <1>4, <1>5, <1>6 DEF Official

\* A row of the map tells the winner of the figures it shows.
TellsWinner(row, u) ==
    LET lead == row.votes.client - row.votes.rival
    IN  /\ row.outcome = "WIN" <=> lead > 0
        /\ row.operational = "WINNING" => lead > 0
        /\ row.operational = "LOSING" => lead < 0
        /\ row.operational = "INCIDENT_FLAGGED" <=> alarm \cap {a \in Alarms : u \in Above[a]} # {}

LEMMA RowsTell ==
    ASSUME BoardsIInv, NEW c \in Contests, NEW u \in Areas,
           NEW approved \in Counts, NEW submitted \in Counts, NEW returned \in Counts,
           NEW reporting, NEW pipeline
    PROVE  TellsWinner(MapRow(c, u, Selection(approved, submitted, returned), reporting, pipeline), u)
<1>1. PICK s : s = Selection(approved, submitted, returned) OBVIOUS
<1>2. s.votes \in Counts
    <2>1. Plus(submitted, returned) \in Counts BY DEF Plus, Counts
    <2> QED BY <1>1, <2>1 DEF Selection
<1>3. PICK row : row = MapRow(c, u, s, reporting, pipeline) OBVIOUS
<1>4. /\ row.votes = s.votes /\ row.outcome = Outcome(s.votes)
      /\ row.operational = Operational(s.votes, reporting, pipeline, Urgent(u))
    BY <1>3 DEF MapRow
<1>5. /\ row.outcome = "WIN" <=> row.votes.client > row.votes.rival
      /\ row.votes.client \in Nat /\ row.votes.rival \in Nat
    BY <1>2, <1>4, OutcomeIs
<1>6. Urgent(u) \in Nat /\ (Urgent(u) > 0 <=> alarm \cap {a \in Alarms : u \in Above[a]} # {})
    BY UrgentIs
<1>7. /\ row.operational = "INCIDENT_FLAGGED" <=> Urgent(u) > 0
      /\ row.operational = "WINNING" => row.votes.client > row.votes.rival
      /\ row.operational = "LOSING" => row.votes.client < row.votes.rival
    BY <1>2, <1>4, <1>6, OperationalIs
<1>8. TellsWinner(row, u) BY <1>5, <1>6, <1>7 DEF TellsWinner
<1> QED BY <1>1, <1>3, <1>8

\* A place is won exactly when the client has more votes than any other party, on the map
\* as on the lists; a lead shown in colour is a lead, and an incident hides it.
THEOREM StandingsCorrect == BoardsSpec => []StandingsTellWinner
<1>1. BoardsIInv => StandingsTellWinner
    <2> SUFFICES ASSUME BoardsIInv, NEW c \in Contests, NEW u \in Areas
                 PROVE  /\ TellsWinner(IF u \in States THEN StateOnMap(c, u) ELSE AreaOnMap(c, u), u)
                        /\ ResultRow(c, u).margin > 0 <=> ResultRow(c, u).outcome = "WIN"
                        /\ ResultRow(c, u).margin < 0 => ResultRow(c, u).outcome = "LOSS"
        BY DEF StandingsTellWinner, TellsWinner
    <2>1. Zero \in Counts BY DEF Zero, Counts
    <2>2. \A status : /\ Adds(c, UnitsOf[u], {status}) \in Counts
                      /\ AllContests(UnitsOf[u], {status}) \in Counts
        BY FiguresTyped
    <2>3. sheet[c][u].votes \in Counts /\ Official(c, u) \in Counts BY FiguresTyped
    <2>4. TellsWinner(StateOnMap(c, u), u)
        <3>1. PICK submitted \in Counts :
                  submitted = IF Waiting(u) THEN AllContests(UnitsOf[u], {"SUBMITTED"}) ELSE Zero
            BY <2>1, <2>2
        <3>2. PICK returned \in Counts :
                  returned = IF Waiting(u) THEN AllContests(UnitsOf[u], {"REJECTED"}) ELSE Zero
            BY <2>1, <2>2
        <3>3. StateOnMap(c, u) = MapRow(c, u, Selection(sheet[c][u].votes, submitted, returned),
                                        StateReporting(u), StatePipeline(u))
            BY <3>1, <3>2 DEF StateOnMap
        <3> QED BY <2>3, <3>3, RowsTell
    <2>5. TellsWinner(AreaOnMap(c, u), u)
        <3>1. PICK pipeline : pipeline = IF u \in LGAs THEN Pipeline(c, u) ELSE NoPipeline OBVIOUS
        <3>2. AreaOnMap(c, u) = MapRow(c, u, Selection(Official(c, u), Adds(c, UnitsOf[u], {"SUBMITTED"}),
                                                       Adds(c, UnitsOf[u], {"REJECTED"})),
                                       Reporting(c, u), pipeline)
            BY <3>1 DEF AreaOnMap
        <3> QED BY <2>2, <2>3, <3>2, RowsTell
    <2>6. /\ ResultRow(c, u).margin > 0 <=> ResultRow(c, u).outcome = "WIN"
          /\ ResultRow(c, u).margin < 0 => ResultRow(c, u).outcome = "LOSS"
        <3>1. PICK v : v = sheet[c][u].votes OBVIOUS
        <3>2. PICK row : row = ResultRow(c, u) OBVIOUS
        <3>3. row.margin = v.client - v.rival /\ row.outcome = Outcome(v)
            BY <3>1, <3>2 DEF ResultRow, ListMargin
        <3>4. /\ Outcome(v) = "WIN" <=> v.client > v.rival
              /\ Outcome(v) = "LOSS" <=> v.client < v.rival
              /\ v.client \in Nat /\ v.rival \in Nat
            BY <2>3, <3>1, OutcomeIs
        <3> QED BY <3>2, <3>3, <3>4
    <2> QED BY <2>4, <2>5, <2>6
<1> QED BY <1>1, BoardsTyped, PTL
-----------------------------------------------------------------------------
(***************************************************************************)
(* The counts add up, in a campaign with one contest.  The queries that    *)
(* count do not name the contest.                                          *)
(***************************************************************************)
InStatus(rows, statuses) == {p \in PUs : rows[p].status \in statuses}

LEMMA CountIs ==
    ASSUME NEW c, NEW units \in SUBSET PUs, NEW statuses
    PROVE  /\ Count(c, units, statuses) = Cardinality(InStatus(sheet[c], statuses) \cap units)
           /\ Count(c, units, statuses) \in Nat
           /\ Count(c, units, statuses) <= Cardinality(units)
           /\ Cardinality(units) \in Nat /\ IsFiniteSet(units)
           /\ Count(c, units, statuses) = Cardinality(units)
                  => \A p \in units : sheet[c][p].status \in statuses
<1>1. PICK X : X = InStatus(sheet[c], statuses) \cap units OBVIOUS
<1>2. X = {u \in units : sheet[c][u].status \in statuses} BY <1>1 DEF InStatus
<1>3. IsFiniteSet(units) BY PlacesNest, FS_Subset
<1>4. X \in SUBSET units BY <1>1
<1>5. /\ Cardinality(X) <= Cardinality(units) /\ IsFiniteSet(X)
      /\ Cardinality(X) = Cardinality(units) => X = units
    BY <1>3, <1>4, FS_Subset
<1>6. Cardinality(X) \in Nat /\ Cardinality(units) \in Nat BY <1>3, <1>5, FS_CardinalityType
<1>7. Count(c, units, statuses) = Cardinality(X) BY <1>2 DEF Count
<1> QED BY <1>1, <1>2, <1>3, <1>5, <1>6, <1>7

\* Units are counted part by part.
LEMMA CountsByPart ==
    ASSUME NEW c, NEW Ix, NEW units \in SUBSET PUs, Cuts(UnitsOf, Ix, units), NEW statuses,
           NEW n, \A k \in Ix : n[k] = Count(c, UnitsOf[k], statuses)
    PROVE  Count(c, units, statuses) = SumOver(n, Ix)
<1>1. \A k \in Ix : UnitsOf[k] \in SUBSET PUs BY DEF Cuts
<1>2. PICK X : X = InStatus(sheet[c], statuses) OBVIOUS
<1>3. \A k \in Ix : n[k] = Cardinality(X \cap UnitsOf[k]) BY <1>1, <1>2, CountIs
<1>4. CountsOf(n, X, UnitsOf, Ix) BY <1>3 DEF CountsOf
<1>5. Cardinality(X \cap units) = SumOver(n, Ix) BY <1>4, CountAddsUp
<1> QED BY <1>2, <1>5, CountIs

\* A sum over the contests is the number of the only one.
LEMMA OneContest ==
    ASSUME NEW only, Contests = {only}, NEW units \in SUBSET PUs, NEW statuses
    PROVE  Sum(LAMBDA c : Count(c, units, statuses), Contests) = Count(only, units, statuses)
<1> DEFINE n == [c \in {only} |-> Count(c, units, statuses)]
<1>1. n[only] = Count(only, units, statuses) OBVIOUS
<1>2. n[only] \in Nat BY <1>1, CountIs
<1>3. {{c} \X (1 .. n[c]) : c \in {only}} = {{c} \X (1 .. Count(c, units, statuses)) : c \in {only}}
    OBVIOUS
<1> HIDE DEF n
<1>4. SumOver(n, {only}) = n[only] BY <1>2, SumOfOne
<1> QED BY <1>1, <1>3, <1>4 DEF Sum, SumOver

\* A unit that has not reported has not started.
LEMMA NotStartedIs ==
    ASSUME BoardsIInv, NEW c \in Contests, NEW units \in SUBSET PUs
    PROVE  Cardinality(units) = Count(c, units, Reported) + Count(c, units, {"NOT_STARTED", "DRAFT"})
<1>1. PICK A : A = InStatus(sheet[c], Reported) \cap units OBVIOUS
<1>2. PICK B : B = InStatus(sheet[c], {"NOT_STARTED", "DRAFT"}) \cap units OBVIOUS
<1>3. sheet[c] \in RowsOf BY DEF BoardsIInv, SheetOK, RowsOf
<1>4. \A p \in units : sheet[c][p].status \in Statuses BY <1>3, RowIs
<1>5. A \cup B = units /\ A \cap B = {} BY <1>1, <1>2, <1>4 DEF InStatus, Reported, Statuses
<1>6. IsFiniteSet(A) /\ IsFiniteSet(B) BY <1>5, CountIs, FS_Subset
<1>7. Cardinality(A \cup B) = Cardinality(A) + Cardinality(B) BY <1>5, <1>6, TwoParts
<1>8. Count(c, units, Reported) = Cardinality(A) BY <1>1, CountIs
<1>9. Count(c, units, {"NOT_STARTED", "DRAFT"}) = Cardinality(B) BY <1>2, CountIs
<1> QED BY <1>5, <1>7, <1>8, <1>9, Zenon

\* What the officer above a ward is shown is the ward's units in the statuses.
LEMMA ListIsCount ==
    ASSUME NEW only, Contests = {only}, NEW units \in SUBSET PUs, NEW statuses
    PROVE  Cardinality({r \in Contests \X units : sheet[r[1]][r[2]].status \in statuses})
               = Count(only, units, statuses)
<1>1. PICK X : X = InStatus(sheet[only], statuses) \cap units OBVIOUS
<1>2. {r \in Contests \X units : sheet[r[1]][r[2]].status \in statuses} = {only} \X X
    BY <1>1 DEF InStatus
<1>3. IsFiniteSet({only}) /\ Cardinality({only}) = 1 BY FS_Singleton
<1>4. X \in SUBSET units BY <1>1
<1>5. IsFiniteSet(X) BY <1>4, CountIs, FS_Subset
<1>6. Cardinality({only} \X X) = Cardinality({only}) * Cardinality(X) BY <1>3, <1>5, FS_Product
<1>7. Cardinality(X) = Count(only, units, statuses) /\ Cardinality(X) \in Nat BY <1>1, CountIs
<1>8. 1 * Cardinality(X) = Cardinality(X) BY <1>7
<1> QED BY <1>2, <1>3, <1>6, <1>7, <1>8

\* The hotspots of a state are its LGAs' incidents.
LEMMA HotspotsAddUp ==
    ASSUME BoardsIInv, NEW s \in States
    PROVE  StateUrgent(s) = Hotspots(s)
<1> DEFINE Open == [l \in Below[s] |-> OpenIncidents(l)]
           n == [l \in Below[s] |-> Urgent(l)]
<1>1. PICK all : all = {a \in alarm : s \in Above[a]} OBVIOUS
<1>2. alarm \in SUBSET (PUs \cup Wards) /\ IsFiniteSet(all)
    <2>1. alarm \in SUBSET Alarms /\ all \in SUBSET Alarms BY <1>1 DEF BoardsIInv, AlarmOK
    <2> QED BY <2>1, AtPlaces, FS_Subset
<1>3. \A a \in alarm, l \in LGAs :
          l \in Above[a] <=> l = IF a \in PUs THEN Within[Within[a]] ELSE Within[a]
    BY <1>2, AboveIs, Levels
<1>4. \A a \in alarm :
          s \in Above[a] <=> s = IF a \in PUs THEN Within[Within[Within[a]]] ELSE Within[Within[a]]
    BY <1>2, AboveIs, Levels
<1>5. \A l \in Below[s] : l \in LGAs /\ Within[l] = s BY UnitsAre
<1>6. \A l \in Below[s] : Open[l] \subseteq all /\ n[l] = Cardinality(Open[l])
    <2> SUFFICES ASSUME NEW l \in Below[s]
                 PROVE  OpenIncidents(l) \subseteq all /\ Urgent(l) = Cardinality(OpenIncidents(l))
        OBVIOUS
    <2>1. \A a \in alarm : l \in Above[a] => s \in Above[a] BY <1>3, <1>4, <1>5
    <2> QED BY <1>1, <2>1 DEF OpenIncidents, Urgent
<1>7. \A a \in all : \E l \in Below[s] : a \in Open[l]
    <2> SUFFICES ASSUME NEW a \in all PROVE \E l \in Below[s] : a \in OpenIncidents(l) OBVIOUS
    <2>1. PICK l : l = IF a \in PUs THEN Within[Within[a]] ELSE Within[a] OBVIOUS
    <2>2. a \in alarm /\ s \in Above[a] BY <1>1
    <2>3. l \in LGAs BY <1>2, <2>1, <2>2, Levels
    <2>4. Within[l] = s BY <1>4, <2>1, <2>2
    <2>5. l \in Below[s] BY <2>3, <2>4, UnitsAre
    <2>6. l \in Above[a] BY <1>3, <2>1, <2>2, <2>3
    <2> QED BY <2>2, <2>5, <2>6 DEF OpenIncidents
<1>8. \A k, l \in Below[s] : k # l => Open[k] \cap Open[l] = {}
    <2> SUFFICES ASSUME NEW k \in Below[s], NEW l \in Below[s], NEW a \in OpenIncidents(k),
                        a \in OpenIncidents(l)
                 PROVE  k = l
        OBVIOUS
    <2> QED BY <1>3, <1>5 DEF OpenIncidents
<1>9. {{x} \X (1 .. n[x]) : x \in Below[s]} = {{x} \X (1 .. Urgent(x)) : x \in Below[s]} OBVIOUS
<1> HIDE DEF Open, n
<1>10. Splits(Open, n, Below[s], all) BY <1>2, <1>6, <1>7, <1>8, PlacesAreFinite DEF Splits
<1>11. Cardinality(all) = SumOver(n, Below[s]) BY <1>10, PartsAddUp
<1> QED BY <1>1, <1>9, <1>11 DEF StateUrgent, Hotspots, Sum, SumOver
\* What the counts of a state, of an LGA and of a ward have to do with each other.
StateFits(c, s) ==
    /\ StatePipeline(s).submitted = Sum(LAMBDA l : Pipeline(c, l).submitted, Below[s])
    /\ StatePipeline(s).notStarted = Sum(LAMBDA l : Pipeline(c, l).notStarted, Below[s])
    /\ StateReporting(s).reported = StatePipeline(s).submitted
    /\ StateReporting(s).approved = Sum(LAMBDA l : Reporting(c, l).approved, Below[s])
    /\ StateUrgent(s) = Hotspots(s)

LgaFits(c, l) ==
    /\ Pipeline(c, l).submitted = Reporting(c, l).reported
    /\ Pipeline(c, l).verified = Sum(LAMBDA w : Readiness(c, w).approved, Below[l])
    /\ Pipeline(c, l).notStarted = Sum(LAMBDA w : Readiness(c, w).missing, Below[l])
    /\ Pipeline(c, l).submitted = Sum(LAMBDA w : Cardinality(SubmissionsOf(w)), Below[l])

WardFits(c, w) ==
    /\ Readiness(c, w).submitted = WardCounts(w).SUBMITTED
    /\ Readiness(c, w).submitted = Cardinality(PendingList(w))
    /\ PendingCount(w) = Cardinality(PendingList(w))
    /\ Readiness(c, w).ready => sheet[c][w].status # "NOT_STARTED" \/ climb # <<>>

LEMMA StateCounts ==
    ASSUME BoardsIInv, NEW only, Contests = {only}, NEW s \in States
    PROVE  StateFits(only, s)
<1>1. PICK units : units = UnitsOf[s] OBVIOUS
<1>2. units \in SUBSET PUs /\ Cuts(UnitsOf, Below[s], units)
    BY <1>1, PlacesAreFinite, PlacesCut DEF Areas
<1>3. /\ Sum(LAMBDA c : Count(c, UnitsOf[s], Reported), Contests) = Count(only, units, Reported)
      /\ Sum(LAMBDA c : Count(c, UnitsOf[s], {"APPROVED"}), Contests) = Count(only, units, {"APPROVED"})
    BY <1>1, <1>2, OneContest
<1>4. ASSUME NEW statuses
      PROVE  Sum(LAMBDA l : Count(only, UnitsOf[l], statuses), Below[s]) = Count(only, units, statuses)
    <2> DEFINE n == [l \in Below[s] |-> Count(only, UnitsOf[l], statuses)]
    <2>1. \A l \in Below[s] : n[l] = Count(only, UnitsOf[l], statuses) OBVIOUS
    <2>2. {{l} \X (1 .. n[l]) : l \in Below[s]}
              = {{l} \X (1 .. Count(only, UnitsOf[l], statuses)) : l \in Below[s]}
        OBVIOUS
    <2> HIDE DEF n
    <2>3. Count(only, units, statuses) = SumOver(n, Below[s]) BY <1>2, <2>1, CountsByPart
    <2> QED BY <2>2, <2>3 DEF Sum, SumOver
<1>5. PICK a : a = Count(only, units, Reported) OBVIOUS
<1>6. PICK b : b = Count(only, units, {"NOT_STARTED", "DRAFT"}) OBVIOUS
<1>7. PICK total : total = Cardinality(units) OBVIOUS
<1>8. a \in Nat /\ b \in Nat /\ total = a + b
    <2>1. a \in Nat /\ b \in Nat BY <1>2, <1>5, <1>6, CountIs
    <2>2. only \in Contests OBVIOUS
    <2>3. total = a + b BY <1>2, <1>5, <1>6, <1>7, <2>2, NotStartedIs
    <2> QED BY <2>1, <2>3
<1>9. StatePipeline(s).submitted = a /\ StateReporting(s).reported = a
    BY <1>3, <1>5 DEF StatePipeline, StateReporting
<1>10. StatePipeline(s).notStarted = IF total > a THEN total - a ELSE 0
    BY <1>1, <1>3, <1>5, <1>7 DEF StatePipeline
<1>11. StatePipeline(s).notStarted = b BY <1>8, <1>10
<1>12. StateReporting(s).approved = Count(only, units, {"APPROVED"})
    BY <1>3 DEF StateReporting
<1>13. Sum(LAMBDA l : Pipeline(only, l).submitted, Below[s]) = a
    <2>1. \A l : Pipeline(only, l).submitted = Count(only, UnitsOf[l], Reported) BY DEF Pipeline
    <2>2. {{l} \X (1 .. Pipeline(only, l).submitted) : l \in Below[s]}
              = {{l} \X (1 .. Count(only, UnitsOf[l], Reported)) : l \in Below[s]}
        BY <2>1
    <2> QED BY <1>4, <1>5, <2>2 DEF Sum
<1>14. Sum(LAMBDA l : Pipeline(only, l).notStarted, Below[s]) = b
    <2>1. \A l : Pipeline(only, l).notStarted = Count(only, UnitsOf[l], {"NOT_STARTED", "DRAFT"})
        BY DEF Pipeline
    <2>2. {{l} \X (1 .. Pipeline(only, l).notStarted) : l \in Below[s]}
              = {{l} \X (1 .. Count(only, UnitsOf[l], {"NOT_STARTED", "DRAFT"})) : l \in Below[s]}
        BY <2>1
    <2> QED BY <1>4, <1>6, <2>2 DEF Sum
<1>15. Sum(LAMBDA l : Reporting(only, l).approved, Below[s]) = Count(only, units, {"APPROVED"})
    <2>1. \A l : Reporting(only, l).approved = Count(only, UnitsOf[l], {"APPROVED"}) BY DEF Reporting
    <2>2. {{l} \X (1 .. Reporting(only, l).approved) : l \in Below[s]}
              = {{l} \X (1 .. Count(only, UnitsOf[l], {"APPROVED"})) : l \in Below[s]}
        BY <2>1
    <2> QED BY <1>4, <2>2 DEF Sum
<1> QED BY <1>9, <1>11, <1>12, <1>13, <1>14, <1>15, HotspotsAddUp DEF StateFits

\* What waits for all officers of the wards is what waits in the nation.
LEMMA BadgesAddUp ==
    ASSUME NEW only, Contests = {only}
    PROVE  Badge("nation") = Sum(Badge, Wards)
<1> DEFINE n == [w \in Wards |-> Badge(w)]
<1>1. Badge("nation") = Count(only, PUs, {"SUBMITTED"})
    <2>1. Sum(LAMBDA c : Count(c, PUs, {"SUBMITTED"}), Contests) = Count(only, PUs, {"SUBMITTED"})
        BY OneContest
    <2> QED BY <2>1, AtPlaces DEF Badge
<1>2. \A w \in Wards : n[w] = Count(only, UnitsOf[w], {"SUBMITTED"})
    <2> SUFFICES ASSUME NEW w \in Wards PROVE Badge(w) = Count(only, UnitsOf[w], {"SUBMITTED"}) OBVIOUS
    <2>1. Below[w] = UnitsOf[w] /\ Below[w] \in SUBSET PUs BY UnitsAre, PlacesAreFinite
    <2>2. PendingCount(w) = Count(only, Below[w], {"SUBMITTED"}) BY <2>1, OneContest DEF PendingCount
    <2> QED BY <2>1, <2>2 DEF Badge, Areas
<1>3. {{w} \X (1 .. n[w]) : w \in Wards} = {{w} \X (1 .. Badge(w)) : w \in Wards} OBVIOUS
<1> HIDE DEF n
<1>4. Count(only, PUs, {"SUBMITTED"}) = SumOver(n, Wards) BY <1>2, PlacesCut, CountsByPart
<1> QED BY <1>1, <1>3, <1>4 DEF Sum, SumOver

LEMMA LgaCounts ==
    ASSUME BoardsIInv, NEW only, Contests = {only}, NEW l \in LGAs
    PROVE  LgaFits(only, l)
<1>1. PICK units : units = UnitsOf[l] OBVIOUS
<1>2. units \in SUBSET PUs /\ Cuts(UnitsOf, Below[l], units)
    BY <1>1, PlacesAreFinite, PlacesCut DEF Areas
<1>3. \A w \in Below[l] : w \in Wards /\ Below[w] = UnitsOf[w] /\ Below[w] \in SUBSET PUs
    BY UnitsAre, PlacesAreFinite
<1>4. ASSUME NEW statuses
      PROVE  Sum(LAMBDA w : Count(only, Below[w], statuses), Below[l]) = Count(only, units, statuses)
    <2> DEFINE n == [w \in Below[l] |-> Count(only, UnitsOf[w], statuses)]
    <2>1. \A w \in Below[l] : n[w] = Count(only, UnitsOf[w], statuses) OBVIOUS
    <2>2. {{w} \X (1 .. n[w]) : w \in Below[l]}
              = {{w} \X (1 .. Count(only, Below[w], statuses)) : w \in Below[l]}
        BY <1>3
    <2> HIDE DEF n
    <2>3. Count(only, units, statuses) = SumOver(n, Below[l]) BY <1>2, <2>1, CountsByPart
    <2> QED BY <2>2, <2>3 DEF Sum, SumOver
<1>5. /\ Pipeline(only, l).submitted = Count(only, units, Reported)
      /\ Pipeline(only, l).verified = Count(only, units, {"APPROVED"})
      /\ Pipeline(only, l).notStarted = Count(only, units, {"NOT_STARTED", "DRAFT"})
      /\ Reporting(only, l).reported = Count(only, units, Reported)
    BY <1>1 DEF Pipeline, Reporting
<1>6. Sum(LAMBDA w : Readiness(only, w).approved, Below[l]) = Count(only, units, {"APPROVED"})
    <2>1. \A w : Readiness(only, w).approved = Count(only, Below[w], {"APPROVED"}) BY DEF Readiness
    <2>2. {{w} \X (1 .. Readiness(only, w).approved) : w \in Below[l]}
              = {{w} \X (1 .. Count(only, Below[w], {"APPROVED"})) : w \in Below[l]}
        BY <2>1
    <2> QED BY <1>4, <2>2 DEF Sum
<1>7. Sum(LAMBDA w : Readiness(only, w).missing, Below[l]) = Count(only, units, {"NOT_STARTED", "DRAFT"})
    <2>1. \A w : Readiness(only, w).missing = Count(only, Below[w], {"NOT_STARTED", "DRAFT"})
        BY DEF Readiness
    <2>2. {{w} \X (1 .. Readiness(only, w).missing) : w \in Below[l]}
              = {{w} \X (1 .. Count(only, Below[w], {"NOT_STARTED", "DRAFT"})) : w \in Below[l]}
        BY <2>1
    <2> QED BY <1>4, <2>2 DEF Sum
<1>8. Sum(LAMBDA w : Cardinality(SubmissionsOf(w)), Below[l]) = Count(only, units, Reported)
    <2>1. \A w \in Below[l] : Cardinality(SubmissionsOf(w)) = Count(only, Below[w], Reported)
        BY <1>3, ListIsCount DEF SubmissionsOf
    <2>2. {{w} \X (1 .. Cardinality(SubmissionsOf(w))) : w \in Below[l]}
              = {{w} \X (1 .. Count(only, Below[w], Reported)) : w \in Below[l]}
        BY <2>1
    <2> QED BY <1>4, <2>2 DEF Sum
<1> QED BY <1>5, <1>6, <1>7, <1>8 DEF LgaFits

LEMMA WardsCount ==
    ASSUME BoardsIInv, NEW only, Contests = {only}, NEW w \in Wards
    PROVE  WardFits(only, w)
<1>1. Below[w] \in SUBSET PUs BY PlacesAreFinite
<1>2. sheet[only] \in RowsOf BY DEF BoardsIInv, SheetOK, RowsOf
<1>3. PICK here : here = Count(only, Below[w], {"SUBMITTED"}) OBVIOUS
<1>4. Readiness(only, w).submitted = here BY <1>3 DEF Readiness
<1>5. WardCounts(w).SUBMITTED = here
    <2>1. \A p \in Below[w] : MostActionable(p) = sheet[only][p].status
        <3> SUFFICES ASSUME NEW p \in Below[w] PROVE MostActionable(p) = sheet[only][p].status OBVIOUS
        <3>1. sheet[only][p].status \in Statuses BY <1>1, <1>2, RowIs
        <3>2. Rank[sheet[only][p].status] <= Rank[sheet[only][p].status] BY <3>1 DEF Rank, Statuses
        <3> QED BY <3>2 DEF MostActionable
    <2>2. {p \in Below[w] : MostActionable(p) = "SUBMITTED"}
              = {p \in Below[w] : sheet[only][p].status \in {"SUBMITTED"}}
        BY <2>1
    <2>3. "SUBMITTED" \in DOMAIN Rank BY DEF Rank
    <2>4. WardCounts(w)["SUBMITTED"] = Cardinality({p \in Below[w] : MostActionable(p) = "SUBMITTED"})
        BY <2>3 DEF WardCounts
    <2> QED BY <1>3, <2>2, <2>4 DEF Count
<1>6. Cardinality(PendingList(w)) = here
    <2>1. PendingList(w) = {r \in Contests \X Below[w] : sheet[r[1]][r[2]].status \in {"SUBMITTED"}}
        BY DEF PendingList
    <2> QED BY <1>1, <1>3, <2>1, ListIsCount
<1>7. PendingCount(w) = here BY <1>1, <1>3, OneContest DEF PendingCount
<1>8. Readiness(only, w).ready => sheet[only][w].status # "NOT_STARTED" \/ climb # <<>>
    <2> SUFFICES ASSUME Readiness(only, w).ready, climb = <<>>
                 PROVE  sheet[only][w].status # "NOT_STARTED"
        OBVIOUS
    <2>1. Below[w] # {} /\ Count(only, Below[w], {"APPROVED"}) = Cardinality(Below[w])
        BY DEF Readiness
    <2>a. \A p \in Below[w] : sheet[only][p].status \in {"APPROVED"} BY <1>1, <2>1, CountIs
    <2>2. PICK p \in Below[w] : sheet[only][p].status = "APPROVED" BY <2>1, <2>a
    <2>3. ~Due(only, w) BY NothingDue DEF Due
    <2> QED BY <2>2, <2>3 DEF BoardsIInv, StartedOK
<1> QED BY <1>4, <1>5, <1>6, <1>7, <1>8 DEF WardFits

\* In a campaign with one contest, the counts of units that submitted, were approved, were
\* returned or have not started, computed in eight places, fit together at every moment,
\* and so do open incidents.
THEOREM CountsCorrect ==
    ASSUME NEW CONSTANT only, Contests = {only}
    PROVE  BoardsSpec => []CountsAddUp
<1>1. BoardsIInv => CountsAddUp
    <2> SUFFICES ASSUME BoardsIInv PROVE CountsAddUp OBVIOUS
    <2>1. Badge("nation") = Sum(Badge, Wards) BY BadgesAddUp
    <2>2. \A s \in States : StateFits(only, s) BY StateCounts
    <2>3. \A l \in LGAs : LgaFits(only, l) BY LgaCounts
    <2>4. \A w \in Wards : WardFits(only, w) BY WardsCount
    <2>5. SUFFICES ASSUME NEW c \in Contests
                   PROVE  /\ \A s \in States : StateFits(c, s)
                          /\ \A l \in LGAs : LgaFits(c, l)
                          /\ \A w \in Wards : WardFits(c, w)
        BY <2>1, Zenon DEF CountsAddUp, StateFits, LgaFits, WardFits
    <2> QED BY <2>2, <2>3, <2>4
<1> QED BY <1>1, BoardsTyped, PTL
=============================================================================
