-------------------------------- MODULE Boards --------------------------------
(***************************************************************************)
(* What the collation module shows: the browse lists, the situation map,   *)
(* the race board, the approval pipelines and the officers' work lists     *)
(* (collation-browse, collation-readiness, collation-map-intelligence and  *)
(* the list handlers of collation.service), computed from the sheets while *)
(* one request at a time writes and rolls up; and the Redis cache of the   *)
(* national map, which dashboards fill and every approval invalidates.     *)
(* Two parties are tracked, the client's and a rival.  Names, pages,       *)
(* searches and coordinates are left out.                                  *)
(***************************************************************************)
EXTENDS Integers, Sequences, FiniteSets

CONSTANTS
    PUs, Wards, LGAs, States,
    Within,          \* the place each place lies in
    Contests,
    Votes,           \* what the sheet of a unit may say: the client's votes and the rival's
    Seat,            \* the wards of an assembly constituency
    Alarms,          \* places from which urgent incidents may be reported
    Screens          \* dashboards that show the national map

Areas == Wards \cup LGAs \cup States
Below == [u \in PUs \cup Areas |-> {k \in DOMAIN Within : Within[k] = u}]

\* Every unit lies in a ward, every ward in an LGA and every LGA in a state (the schema
\* requires wardId, lgaId and stateId), and places of two levels differ.
ASSUME PlacesNest ==
    /\ IsFiniteSet(PUs) /\ IsFiniteSet(Wards) /\ IsFiniteSet(LGAs) /\ IsFiniteSet(States)
    /\ PUs \cap Areas = {} /\ Wards \cap LGAs = {} /\ States \cap (Wards \cup LGAs) = {}
    /\ DOMAIN Within = PUs \cup Wards \cup LGAs
    /\ \A p \in PUs : Within[p] \in Wards
    /\ \A w \in Wards : Within[w] \in LGAs
    /\ \A l \in LGAs : Within[l] \in States

\* A seat is made of wards, a report names a unit or a ward, the nation is no area.
ASSUME AtPlaces ==
    /\ Seat \subseteq Wards
    /\ IsFiniteSet(Alarms) /\ Alarms \subseteq PUs \cup Wards
    /\ "nation" \notin Areas

\* What agents copy from their forms are counts.  The DTO does not look into partyResults,
\* and figures below zero would add up to a state without votes that has a winner.
Counts == [client : Nat, rival : Nat]

ASSUME VotesAreCounts == IsFiniteSet(Contests) /\ \A p \in PUs : Votes[p] \subseteq Counts

\* The places a place lies in, itself included, and the units that lie in a place.
Up(places) == {Within[u] : u \in places \cap DOMAIN Within}

Above == [u \in PUs \cup Areas |->
    LET one == Up({u})
        two == Up(one)
    IN  {u} \cup one \cup two \cup Up(two)]

UnitsOf == [u \in PUs \cup Areas |-> {p \in PUs : u \in Above[p]}]

\* The sum of f over S.
Sum(f(_), S) == Cardinality(UNION {{x} \X (1 .. f(x)) : x \in S})

Zero == [client |-> 0, rival |-> 0]
NoRow == [status |-> "NOT_STARTED", votes |-> Zero]
Reported == {"SUBMITTED", "APPROVED", "REJECTED"}

VARIABLES
    sheet,    \* the CollationResult of each contest and place
    climb,    \* rows the running request has still to roll up: <<contest, place>>
    alarm,    \* places with an open urgent incident
    cache,    \* the national map in Redis, NoMap if there is none
    screen    \* each dashboard: its contest, step, what it read and what it shows

boardVars == <<sheet, climb, alarm, cache, screen>>

Total(votes) == votes.client + votes.rival

Plus(v, w) == [client |-> v.client + w.client, rival |-> v.rival + w.rival]

AddUp(votes(_), S) ==
    [client |-> Sum(LAMBDA x : votes(x).client, S), rival |-> Sum(LAMBDA x : votes(x).rival, S)]

\* addPartyTotals over the sheets of units in one of the statuses.
Adds(c, units, statuses) ==
    AddUp(LAMBDA u : sheet[c][u].votes, {u \in units : sheet[c][u].status \in statuses})

Count(c, units, statuses) == Cardinality({u \in units : sheet[c][u].status \in statuses})

-----------------------------------------------------------------------------
\* (Mutant: a tie is a win when the client's column comes first.)
OutcomeFirst(votes) ==
    CASE Total(votes) = 0 -> "PENDING"
      [] Total(votes) > 0 /\ votes.client >= votes.rival -> "WIN"
      [] OTHER -> "LOSS"

\* computeOutcome: who leads, and by how much.
Outcome(votes) ==
    CASE Total(votes) = 0 -> "PENDING"
      [] Total(votes) > 0 /\ votes.client = votes.rival -> "TIE"
      [] votes.client > votes.rival -> "WIN"
      [] OTHER -> "LOSS"

Margin(votes) ==
    IF votes.client > votes.rival THEN votes.client - votes.rival
    ELSE votes.rival - votes.client

\* computeClientOutcome of the officers' lists: a loss has a negative margin there.
ListMargin(votes) == votes.client - votes.rival

\* loadPuReportingMaps, and loadPuReportingByState: units, those that reported,
\* those approved.  The query by state does not ask for the contest.
Reporting(c, u) ==
    [total |-> Cardinality(UnitsOf[u]),
     reported |-> Count(c, UnitsOf[u], Reported),
     approved |-> Count(c, UnitsOf[u], {"APPROVED"})]

StateReporting(s) ==
    [total |-> Cardinality(UnitsOf[s]),
     reported |-> Sum(LAMBDA c : Count(c, UnitsOf[s], Reported), Contests),
     approved |-> Sum(LAMBDA c : Count(c, UnitsOf[s], {"APPROVED"}), Contests)]

\* (Mutant: a returned sheet no longer counts as submitted.)
PipelineForgetsReturned(c, l) ==
    LET n(statuses) == Count(c, UnitsOf[l], statuses)
    IN  [total |-> Cardinality(UnitsOf[l]), submitted |-> n({"SUBMITTED", "APPROVED"}),
         verified |-> n({"APPROVED"}), rejected |-> n({"REJECTED"}),
         notStarted |-> n({"NOT_STARTED", "DRAFT"})]

\* loadApprovalPipelineByLga.  The rows are read for all contests and the last one of
\* a unit counts: c is the contest of that row.
Pipeline(c, l) ==
    LET n(statuses) == Count(c, UnitsOf[l], statuses)
    IN  [total |-> Cardinality(UnitsOf[l]), submitted |-> n(Reported),
         verified |-> n({"APPROVED"}), rejected |-> n({"REJECTED"}),
         notStarted |-> n({"NOT_STARTED", "DRAFT"})]

\* loadApprovalPipelineByState counts the rows of all contests.
StatePipeline(s) ==
    LET n(statuses) == Sum(LAMBDA c : Count(c, UnitsOf[s], statuses), Contests)
        total == Cardinality(UnitsOf[s])
    IN  [total |-> total, submitted |-> n(Reported), verified |-> n({"APPROVED"}),
         rejected |-> n({"REJECTED"}),
         notStarted |-> IF total > n(Reported) THEN total - n(Reported) ELSE 0]

\* getWardPuReadinessMap and getLgaWardReadinessMap: the rows one level below.
Readiness(c, u) ==
    LET n(statuses) == Count(c, Below[u], statuses)
    IN  [total |-> Cardinality(Below[u]), approved |-> n({"APPROVED"}),
         submitted |-> n({"SUBMITTED"}), rejected |-> n({"REJECTED"}),
         missing |-> n({"NOT_STARTED", "DRAFT"}),
         ready |-> Below[u] # {} /\ n({"APPROVED"}) = Cardinality(Below[u])]

\* listMapIncidents: reports made at a place or at a place in it.  They are counted by
\* aggregateIncidentsByScope, by aggregateIncidentsByState and, for the assistant, by
\* getIncidentHotspots.
OpenIncidents(u) == {a \in alarm : u \in Above[a]}
Urgent(u) == Cardinality(OpenIncidents(u))
StateUrgent(s) == Cardinality({a \in alarm : s \in Above[a]})
Hotspots(s) == Sum(Urgent, Below[s])

\* computeOperationalStatus.  Percentages of units are rounded to tenths.
Operational(votes, reporting, pipeline, urgent) ==
    LET early == 2000 * reporting.reported < 999 * reporting.total
        waiting == /\ pipeline.submitted > 0
                   /\ 5 * (pipeline.submitted - pipeline.verified) >= pipeline.total
        close == 20 * Margin(votes) < Total(votes)
        lead == CASE Outcome(votes) = "WIN" -> "WINNING"
                  [] Outcome(votes) = "LOSS" -> "LOSING"
                  [] OTHER -> "COMPETITIVE"
    IN  CASE urgent > 0 -> "INCIDENT_FLAGGED"
          [] urgent = 0 /\ Total(votes) = 0 -> "INSUFFICIENT_DATA"
          [] urgent = 0 /\ Total(votes) > 0 /\ early -> lead
          [] urgent = 0 /\ Total(votes) > 0 /\ ~early /\ waiting -> "AWAITING_APPROVAL"
          [] urgent = 0 /\ Total(votes) > 0 /\ ~early /\ ~waiting /\ close -> "COMPETITIVE"
          [] OTHER -> lead

-----------------------------------------------------------------------------
\* selectMapParties and unapprovedMapSelection: approved figures if there are any, and
\* otherwise those that wait for approval or for a correction.
Selection(approved, submitted, returned) ==
    LET unapproved == Plus(submitted, returned)
    IN  IF Total(approved) > 0
        THEN [votes |-> approved, status |-> "APPROVED", pending |-> FALSE]
        ELSE IF Total(unapproved) > 0
        THEN [votes |-> unapproved, pending |-> TRUE,
              status |-> IF Total(submitted) > 0 THEN "SUBMITTED" ELSE "REJECTED"]
        ELSE [votes |-> approved, status |-> "NOT_STARTED", pending |-> FALSE]

\* The figures of an area's own row or, when they are nil, those of its approved units.
Official(c, u) ==
    IF Total(sheet[c][u].votes) > 0 THEN sheet[c][u].votes
    ELSE Adds(c, UnitsOf[u], {"APPROVED"})

\* The row of an area or unit on the map, with the pipeline the caller read.
MapRow(c, u, selection, reporting, pipeline) ==
    [votes |-> selection.votes,
     status |-> IF sheet[c][u] # NoRow THEN sheet[c][u].status ELSE selection.status,
     pending |-> selection.pending,
     outcome |-> Outcome(selection.votes), margin |-> Margin(selection.votes),
     reporting |-> reporting,
     operational |-> Operational(selection.votes, reporting, pipeline, Urgent(u))]

NoPipeline == [total |-> 0, submitted |-> 0, verified |-> 0, rejected |-> 0, notStarted |-> 0]

\* situationMapPoints: an LGA or a ward with its wards and units.
AreaOnMap(c, u) ==
    MapRow(c, u,
           Selection(Official(c, u), Adds(c, UnitsOf[u], {"SUBMITTED"}),
                     Adds(c, UnitsOf[u], {"REJECTED"})),
           Reporting(c, u), IF u \in LGAs THEN Pipeline(c, u) ELSE NoPipeline)

UnitOnMap(c, p) ==
    LET row == sheet[c][p]
    IN  MapRow(c, p,
               [votes |-> row.votes, pending |-> row.status \in {"SUBMITTED", "REJECTED"},
                status |-> IF Total(row.votes) > 0 THEN "APPROVED" ELSE "NOT_STARTED"],
               Reporting(c, p), NoPipeline)

\* situationMapOverview of one state: its LGAs.
LgaOnMap(c, l) ==
    LET row == sheet[c][l].votes
        approved == IF Total(row) > 0 THEN row ELSE Adds(c, UnitsOf[l], {"APPROVED"})
    IN  MapRow(c, l, Selection(approved, Adds(c, UnitsOf[l], {"SUBMITTED"}),
                               Adds(c, UnitsOf[l], {"REJECTED"})),
               Reporting(c, l), Pipeline(c, l))

\* situationMapOverview of the nation.  Unapproved figures are loaded, for all contests
\* at once, for the states where units reported and none is approved.
Waiting(s) == StateReporting(s).approved = 0 /\ StateReporting(s).reported > 0

AllContests(units, statuses) == AddUp(LAMBDA c : Adds(c, units, statuses), Contests)

StateOnMap(c, s) ==
    LET unapproved(status) == IF Waiting(s) THEN AllContests(UnitsOf[s], {status}) ELSE Zero
    IN  MapRow(c, s, Selection(sheet[c][s].votes, unapproved("SUBMITTED"), unapproved("REJECTED")),
               StateReporting(s), StatePipeline(s))

NationOnMap(c) == [s \in States |-> StateOnMap(c, s)]

-----------------------------------------------------------------------------
\* getRaceAnalytics: LGAs of a state, or states of the nation, which have no units to
\* fall back on; and the wards and seats of an assembly contest.
RaceVotes(c, u) == IF u \in States THEN sheet[c][u].votes ELSE Official(c, u)

SeatVotes(c) == Adds(c, UNION {UnitsOf[w] : w \in Seat}, {"APPROVED"})

Race(votes) ==
    LET units == DOMAIN votes
        sum == AddUp(LAMBDA u : votes[u], units)
        n(outcome) == Cardinality({u \in units : Outcome(votes[u]) = outcome})
    IN  [sum |-> sum, wins |-> n("WIN"), losses |-> n("LOSS"), ties |-> n("TIE"),
         pending |-> n("PENDING"), lead |-> sum.client - sum.rival]

LgaRace(c, s) == Race([l \in Below[s] |-> RaceVotes(c, l)])
NationRace(c) == Race([s \in States |-> RaceVotes(c, s)])
SeatRace(c) == Race([w \in Seat |-> Official(c, w)])

-----------------------------------------------------------------------------
\* The browse lists.  A reader is the place it is scoped to, or the nation.
BrowseStates(reader) == IF reader \in Wards \cup LGAs THEN {} ELSE States

BrowseLgas(reader) ==
    CASE reader \in Wards -> {}
      [] reader \in LGAs -> {reader}
      [] reader \in States -> Below[reader]
      [] OTHER -> LGAs

BrowseWards(reader, l) ==
    IF (reader \in LGAs /\ reader # l) \/ (reader \in States /\ Within[l] # reader) THEN {}
    ELSE IF reader \in Wards THEN {reader} \cap Below[l] ELSE Below[l]

BrowseUnits(reader, w) ==
    IF \/ reader \in Wards /\ reader # w
       \/ reader \in LGAs /\ Within[w] # reader
       \/ reader \in States /\ Within[Within[w]] # reader
    THEN {}
    ELSE IF reader \in PUs THEN {reader} \cap Below[w] ELSE Below[w]

\* browsePollingUnitsForUser: the units of the reader's place.
MyUnits(reader) ==
    IF reader \in PUs \cup Areas THEN UnitsOf[reader] ELSE PUs

\* applyHasResultsFilter.
WithResults(c, units) == {p \in units : sheet[c][p] # NoRow}

\* The row of a list: a ward without figures shows those of its approved units.
Listed(c, u) ==
    LET votes == IF u \in Wards THEN Official(c, u) ELSE sheet[c][u].votes
    IN  [votes |-> votes,
         status |-> IF sheet[c][u] = NoRow /\ Total(votes) > 0 THEN "APPROVED"
                    ELSE sheet[c][u].status]

\* listStateCollationResults and listLgaCollationResults.
ResultRow(c, u) ==
    [votes |-> sheet[c][u].votes, status |-> sheet[c][u].status,
     outcome |-> Outcome(sheet[c][u].votes), margin |-> ListMargin(sheet[c][u].votes)]

Results(c, units, status) == {u \in units : status \in {"ALL", sheet[c][u].status}}

\* listPendingApprovals and countPendingApprovals: submitted rows one level below the
\* officer, whatever their contest.
PendingList(officer) ==
    {r \in Contests \X Below[officer] : sheet[r[1]][r[2]].status = "SUBMITTED"}

PendingCount(officer) == Sum(LAMBDA c : Count(c, Below[officer], {"SUBMITTED"}), Contests)

\* getDashboard: submitted sheets of the nation for a director, waiting rows for others.
Badge(reader) ==
    IF reader \in Areas THEN PendingCount(reader)
    ELSE Sum(LAMBDA c : Count(c, PUs, {"SUBMITTED"}), Contests)

\* listWardPuSubmissions: each unit under the status that calls for action most.
Rank == [SUBMITTED |-> 0, REJECTED |-> 1, DRAFT |-> 2, NOT_STARTED |-> 3, APPROVED |-> 4]

MostActionable(p) ==
    CHOOSE status \in {sheet[c][p].status : c \in Contests} :
        \A c \in Contests : Rank[status] <= Rank[sheet[c][p].status]

WardCounts(w) ==
    [status \in DOMAIN Rank |-> Cardinality({p \in Below[w] : MostActionable(p) = status})]

ReturnedByLga(w) == \E c \in Contests : sheet[c][w].status = "REJECTED"

\* listLgaWardSubmissions, listStateLgaSubmissions and the lists they open.
Submissions(c, officer) ==
    [u \in Below[officer] |-> [row |-> sheet[c][u], readiness |-> Readiness(c, u)]]

SubmissionsOf(u) ==
    {r \in Contests \X Below[u] : sheet[r[1]][r[2]].status \in Reported}

\* getPollingUnitResultForViewer: a row without figures shows what
\* resolvePuDisplayParties finds, which is the row of some contest.
UnitView(c, p, found) ==
    [votes |-> IF Total(sheet[c][p].votes) > 0 THEN sheet[c][p].votes ELSE sheet[found][p].votes,
     status |-> IF sheet[c][p] = NoRow THEN sheet[found][p].status ELSE sheet[c][p].status]

-----------------------------------------------------------------------------
\* A copy of the national map: the contest it was computed for, whether it was computed
\* after the last write it depends on, and whether it expires.
NoMap == [contest |-> "none", current |-> FALSE, expires |-> FALSE]
MapOf(c) == [contest |-> c, current |-> TRUE, expires |-> TRUE]

BoardsInit ==
    /\ sheet = [c \in Contests |-> [u \in PUs \cup Areas |-> NoRow]]
    /\ climb = <<>>
    /\ alarm = {}
    /\ cache = NoMap
    /\ screen \in [Screens -> {[contest |-> c, step |-> "idle", read |-> NoMap, shows |-> NoMap]
                               : c \in Contests}]

\* A write that the map depends on leaves all copies behind.
Outdate ==
    LET behind(map) == [map EXCEPT !.current = FALSE]
    IN  /\ cache' = behind(cache)
        /\ screen' = [d \in Screens |-> [screen[d] EXCEPT !.read = behind(@), !.shows = behind(@)]]

KeepCopies == UNCHANGED <<cache, screen>>

\* Agents and officers, one request at a time: upsertResult, submitResult,
\* approveResult, rejectResult of a unit or of a ward with the units it marks, and
\* resubmitWardToLga.
Write(c, p, row) == sheet' = [sheet EXCEPT ![c][p] = row]

Path(c, w, clear) ==
    <<[contest |-> c, place |-> w, clear |-> clear],
      [contest |-> c, place |-> Within[w], clear |-> FALSE],
      [contest |-> c, place |-> Within[Within[w]], clear |-> FALSE]>>

Enter(c, p, votes) ==
    /\ climb = <<>>
    /\ sheet[c][p].status \in {"NOT_STARTED", "DRAFT", "REJECTED"}
    /\ Write(c, p, [status |-> "DRAFT", votes |-> votes])
    /\ IF sheet[c][p].status = "REJECTED" THEN Outdate ELSE KeepCopies
    /\ UNCHANGED <<climb, alarm>>

SubmitSheet(c, p) ==
    /\ climb = <<>>
    /\ sheet[c][p].status \in {"DRAFT", "REJECTED"}
    /\ Write(c, p, [sheet[c][p] EXCEPT !.status = "SUBMITTED"])
    /\ UNCHANGED <<climb, alarm>>
    /\ Outdate

ApproveSheet(c, p) ==
    /\ climb = <<>>
    /\ sheet[c][p].status = "SUBMITTED"
    /\ Write(c, p, [sheet[c][p] EXCEPT !.status = "APPROVED"])
    /\ climb' = Path(c, Within[p], FALSE)
    /\ UNCHANGED alarm
    /\ Outdate

ReturnSheet(c, p) ==
    /\ climb = <<>>
    /\ sheet[c][p].status \in {"SUBMITTED", "APPROVED"}
    /\ Write(c, p, [sheet[c][p] EXCEPT !.status = "REJECTED"])
    /\ climb' = Path(c, Within[p], FALSE)
    /\ UNCHANGED alarm
    /\ Outdate

ReturnWard(c, w, marked) ==
    /\ climb = <<>>
    /\ sheet[c][w].status = "APPROVED"
    /\ sheet' = [sheet EXCEPT ![c] =
           [u \in DOMAIN @ |->
               IF u = w \/ (u \in marked /\ @[u].status \in {"SUBMITTED", "APPROVED"})
               THEN [@[u] EXCEPT !.status = "REJECTED"] ELSE @[u]]]
    /\ climb' = Path(c, w, FALSE)
    /\ UNCHANGED alarm
    /\ Outdate

ResubmitWard(c, w) ==
    /\ climb = <<>>
    /\ sheet[c][w].status = "REJECTED"
    /\ climb' = Path(c, w, TRUE)
    /\ UNCHANGED <<sheet, alarm, cache, screen>>

\* (Mutant: returned wards and LGAs drop out of the totals above them.)
AddsUpApproved(u) == {"APPROVED"}

AddsUp(u) == IF u \in Wards THEN {"APPROVED"} ELSE Reported

\* rollupToParent of the next row, which stays returned unless the ward is resubmitted.
\* After the last one the request deletes the cached maps, under a name no map has.
RollUp ==
    /\ climb # <<>>
    /\ LET c == climb[1].contest
           u == climb[1].place
           found == {k \in Below[u] : sheet[c][k].status \in AddsUp(u)}
           returned == sheet[c][u].status = "REJECTED" /\ ~climb[1].clear
       IN  IF found = {} /\ sheet[c][u] = NoRow THEN UNCHANGED <<sheet, cache, screen>>
           ELSE /\ Write(c, u, [status |-> IF returned THEN "REJECTED" ELSE "APPROVED",
                                votes |-> Adds(c, found, AddsUp(u))])
                /\ IF u \in States THEN Outdate ELSE KeepCopies
    /\ climb' = Tail(climb)
    /\ UNCHANGED alarm

\* An urgent incident is reported at a place, or resolved.
Report(a) ==
    /\ alarm' = IF a \in alarm THEN alarm \ {a} ELSE alarm \cup {a}
    /\ UNCHANGED <<sheet, climb>>
    /\ Outdate

-----------------------------------------------------------------------------
\* A dashboard polls and is given the cached map, whatever contest it was made for.
Poll(d) ==
    /\ screen[d].step = "idle"
    /\ screen' = [screen EXCEPT ![d] =
           IF cache # NoMap THEN [@ EXCEPT !.shows = cache] ELSE [@ EXCEPT !.step = "load"]]
    /\ UNCHANGED <<sheet, climb, alarm, cache>>

\* Without one the map is computed (the queries are one step here), then stored.
Load(d) ==
    /\ screen[d].step = "load"
    /\ screen' = [screen EXCEPT ![d].step = "store", ![d].read = MapOf(screen[d].contest)]
    /\ UNCHANGED <<sheet, climb, alarm, cache>>

\* (Mutant: the map is stored without an expiry.)
StoreForGood(d) ==
    /\ screen[d].step = "store"
    /\ cache' = [screen[d].read EXCEPT !.expires = FALSE]
    /\ screen' = [screen EXCEPT ![d].step = "idle", ![d].shows = screen[d].read,
                                ![d].read = NoMap]
    /\ UNCHANGED <<sheet, climb, alarm>>

Store(d) ==
    /\ screen[d].step = "store"
    /\ cache' = screen[d].read
    /\ screen' = [screen EXCEPT ![d].step = "idle", ![d].shows = screen[d].read,
                                ![d].read = NoMap]
    /\ UNCHANGED <<sheet, climb, alarm>>

\* The key lives ten seconds.
Expire ==
    /\ cache.expires
    /\ cache' = NoMap
    /\ UNCHANGED <<sheet, climb, alarm, screen>>

Dashboards == Expire \/ \E d \in Screens : Poll(d) \/ Load(d) \/ Store(d)

BoardsNext ==
    \/ \E c \in Contests, p \in PUs :
           \/ \E votes \in Votes[p] : Enter(c, p, votes)
           \/ SubmitSheet(c, p)
           \/ ApproveSheet(c, p)
           \/ ReturnSheet(c, p)
    \/ \E c \in Contests, w \in Wards :
           \/ \E marked \in SUBSET Below[w] : ReturnWard(c, w, marked)
           \/ ResubmitWard(c, w)
    \/ RollUp
    \/ \E a \in Alarms : Report(a)
    \/ Dashboards

\* A request goes on once started, dashboards poll, and Redis expires its keys.
BoardsSpec ==
    /\ BoardsInit /\ [][BoardsNext]_boardVars
    /\ WF_boardVars(RollUp) /\ WF_boardVars(Expire)
    /\ \A d \in Screens : WF_boardVars(Poll(d) \/ Load(d) \/ Store(d))

-----------------------------------------------------------------------------
\* Once no request runs, every board shows the same approved figures: the map of the
\* nation, of a state and of an LGA, the lists, the race and the assembly seats.  A board
\* that shows figures nobody approved yet says so, and shows them only where no vote is
\* approved.
BoardsAgree ==
    climb = <<>> =>
        \A c \in Contests, u \in Areas :
            LET approved == Adds(c, UnitsOf[u], {"APPROVED"})
                maps == {IF u \in States THEN StateOnMap(c, u) ELSE AreaOnMap(c, u)} \cup
                        IF u \in LGAs THEN {LgaOnMap(c, u)} ELSE {}
            IN  /\ \A m \in maps : IF m.pending THEN Total(approved) = 0
                                   ELSE m.votes = approved
                /\ {Listed(c, u).votes, ResultRow(c, u).votes, RaceVotes(c, u)} = {approved}
                /\ u \in States => LgaRace(c, u).sum = approved
                /\ Seat = Below[u] => SeatRace(c).sum = SeatVotes(c)

\* The counts of units that submitted, were approved, were returned or have not started
\* are computed in eight places; they fit together at every moment, and so do open
\* incidents.
CountsAddUp ==
    \A c \in Contests :
        /\ \A s \in States :
               LET sum(f(_)) == Sum(f, Below[s])
               IN  /\ StatePipeline(s).submitted = sum(LAMBDA l : Pipeline(c, l).submitted)
                   /\ StatePipeline(s).notStarted = sum(LAMBDA l : Pipeline(c, l).notStarted)
                   /\ StateReporting(s).reported = StatePipeline(s).submitted
                   /\ StateReporting(s).approved = sum(LAMBDA l : Reporting(c, l).approved)
                   /\ StateUrgent(s) = Hotspots(s)
        /\ Badge("nation") = Sum(Badge, Wards)
        /\ \A l \in LGAs :
               LET wards(f(_)) == Sum(f, Below[l])
               IN  /\ Pipeline(c, l).submitted = Reporting(c, l).reported
                   /\ Pipeline(c, l).verified = wards(LAMBDA w : Readiness(c, w).approved)
                   /\ Pipeline(c, l).notStarted = wards(LAMBDA w : Readiness(c, w).missing)
                   /\ Pipeline(c, l).submitted = wards(LAMBDA w : Cardinality(SubmissionsOf(w)))
        /\ \A w \in Wards :
               /\ Readiness(c, w).submitted = WardCounts(w).SUBMITTED
               /\ Readiness(c, w).submitted = Cardinality(PendingList(w))
               /\ PendingCount(w) = Cardinality(PendingList(w))
               /\ Readiness(c, w).ready => sheet[c][w].status # "NOT_STARTED" \/ climb # <<>>

\* A place is won exactly when the client has more votes than any other party, on the map
\* as on the lists; a lead shown in colour is a lead, and an incident hides it.
StandingsTellWinner ==
    \A c \in Contests, u \in Areas :
        LET row == IF u \in States THEN StateOnMap(c, u) ELSE AreaOnMap(c, u)
            lead == row.votes.client - row.votes.rival
        IN  /\ row.outcome = "WIN" <=> lead > 0
            /\ row.operational = "WINNING" => lead > 0
            /\ row.operational = "LOSING" => lead < 0
            /\ row.operational = "INCIDENT_FLAGGED" <=> alarm \cap {a \in Alarms : u \in Above[a]} # {}
            /\ ResultRow(c, u).margin > 0 <=> ResultRow(c, u).outcome = "WIN"
            /\ ResultRow(c, u).margin < 0 => ResultRow(c, u).outcome = "LOSS"

\* When sheets and incidents no longer change, every dashboard comes to show the map as it
\* is, although maps are cached and may be stored after they are out of date.
DashboardCatchesUp ==
    (<>[][sheet' = sheet /\ alarm' = alarm]_boardVars)
        => \A d \in Screens : []<>(screen[d].shows.current)

\* collation-browse.service.ts says it drops the cached maps after collation writes so
\* that the next poll is fresh: when a request ends no cached map is out of date.
FreshAfterWrite ==
    [][climb # <<>> /\ climb' = <<>> => cache' = NoMap \/ cache'.current]_boardVars

=============================================================================
