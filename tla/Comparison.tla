------------------------------ MODULE Comparison ------------------------------
(***************************************************************************)
(* What the command centre and the official-results pages show of the      *)
(* comparison (irev-command-center, irev-attention, irev-results).         *)
(*                                                                         *)
(* Irev has the jobs that fetch, read and compare.  Here each of their     *)
(* results is one step, and the subject is the many numbers computed from  *)
(* the rows: corpus, grids, queue, votes at risk, clusters, seats.  The    *)
(* deployment is locked to one state, so everybody's context is that state *)
(* or less.  Two parties are tracked, the client's and a rival; one        *)
(* contest is modelled (the command centre's queries ask for none).        *)
(* Names, search, sorting, labels, percentages and the cap on rows a page  *)
(* is cut from are left out.                                               *)
(***************************************************************************)
EXTENDS Integers, FiniteSets

CONSTANTS
    Units, WardsOf,     \* polling units; the wards of each LGA
    UnitsIn,            \* the units of each ward
    SeatOf,             \* the wards of each assembly constituency
    Written,            \* votes the agent of each unit may write
    Scanned             \* what may be read on the scans of each unit, and whether confidently

LGAsHere == DOMAIN WardsOf
WardsHere == DOMAIN UnitsIn
NoPlace == "none"
WardUnits(wards) == UNION {UnitsIn[w] : w \in wards}
LgaUnits(l) == WardUnits(WardsOf[l])

\* PollingUnit.wardId and Ward.lgaId are required columns: every unit is in one ward of the
\* state and every ward in one LGA.  Ward.constituencyId may be null.
ASSUME PlacesNest ==
    /\ IsFiniteSet(Units) /\ IsFiniteSet(WardsHere) /\ IsFiniteSet(LGAsHere)
    /\ UnitsIn \in [WardsHere -> SUBSET Units] /\ WardsOf \in [LGAsHere -> SUBSET WardsHere]
    /\ \A u \in Units : \E w \in WardsHere : u \in UnitsIn[w]
    /\ \A w \in WardsHere : \E l \in LGAsHere : w \in WardsOf[l]
    /\ \A w, v \in WardsHere : w # v => UnitsIn[w] \cap UnitsIn[v] = {}
    /\ \A l, k \in LGAsHere : l # k => WardsOf[l] \cap WardsOf[k] = {}
    /\ NoPlace \notin WardsHere \cup LGAsHere

ASSUME SeatsNest ==
    /\ IsFiniteSet(DOMAIN SeatOf) /\ SeatOf \in [DOMAIN SeatOf -> SUBSET WardsHere]
    /\ \A s, t \in DOMAIN SeatOf : s # t => SeatOf[s] \cap SeatOf[t] = {}

\* A scan is read as counts (coerceNumber of ec8a-ai-parse rounds and cuts at 0); the party
\* votes of a sheet are an object the DTO does not look into: any numbers.
Counts == [client : Nat, rival : Nat]

ASSUME VotesAreNumbers ==
    /\ Written \in [Units -> SUBSET [client : Int, rival : Int]]
    /\ Scanned \in [Units -> SUBSET [votes : Counts, sure : BOOLEAN]]

NoFigures == [client |-> 0, rival |-> 0]
Unknown == {}    \* null; a gap that is known is the set of its number
NoCheck == [status |-> "NONE"]
NoScan == [status |-> "NONE", votes |-> NoFigures, sure |-> FALSE, before |-> {}]

VARIABLES
    entry,   \* the agent's row of each unit: its status and votes
    scan,    \* the irevPuSnapshot, with the figures of the newest replaced scan in before
    check    \* irevVerification of each unit's row

comparisonVars == <<entry, scan, check>>

ComparisonInit ==
    /\ entry = [u \in Units |-> [status |-> "NONE", votes |-> NoFigures]]
    /\ scan = [u \in Units |-> NoScan]
    /\ check = [u \in Units |-> NoCheck]

Cast(votes) == votes.client + votes.rival
Abs(n) == IF n < 0 THEN -n ELSE n

-----------------------------------------------------------------------------
(* The attention fields of a verdict (irev-attention).                     *)

\* buildIrevDiffs: of a field that differs, both numbers.
Diffs(mine, theirs) ==
    [f \in {"client", "cast"} |->
        LET a == IF f = "client" THEN mine.client ELSE Cast(mine)
            b == IF f = "client" THEN theirs.client ELSE Cast(theirs)
        IN  IF a = b THEN {} ELSE {<<a, b>>}]

\* partyDeltaFromVerification of a fresh verdict: a difference on the client's votes
\* with the agent's sheet, else one with the scan before, else the plain numbers.
PartyDelta(diffs, substitution, mine, theirs) ==
    IF diffs["client"] # {} THEN CHOOSE d \in diffs["client"] : TRUE
    ELSE IF substitution["client"] # {} THEN CHOOSE d \in substitution["client"] : TRUE
    ELSE <<mine.client, theirs.client>>

CastDelta(diffs) ==
    IF diffs["cast"] = {} THEN 0 ELSE LET d == CHOOSE d \in diffs["cast"] : TRUE IN d[1] - d[2]

\* isMaterialDelta, with MATERIAL_PARTY_DELTA and MATERIAL_VOTES_CAST_DELTA.
Material(party, cast) == (\E n \in party : Abs(n) >= 5) \/ Abs(cast) >= 10

Severity(status, material, sure) ==
    CASE status = "MATCH" -> "ALIGNED"
      [] status \in {"PENDING", "IREV_MISSING"} -> "AWAITING"
      [] status = "UNREADABLE" -> "UNREADABLE"
      [] status = "REPLACED" -> IF material THEN "REPLACED_MATERIAL" ELSE "REPLACED"
      [] OTHER -> IF ~material THEN "MISMATCH_IMMATERIAL"
                  ELSE IF sure THEN "MISMATCH_HIGH_CONF" ELSE "MISMATCH_LOW_CONF"

\* attachAttention
WithAttention(status, advice, differs, delta, cast, sure) ==
    [status |-> status, advice |-> advice, differs |-> differs, delta |-> delta,
     material |-> Material(delta, cast), severity |-> Severity(status, Material(delta, cast), sure)]

\* compareAgentToIrev
CompareAgentToIrev(mine, s) ==
    LET diffs == Diffs(mine, s.votes)
        substitution == IF s.before = {} THEN Diffs(s.votes, s.votes)
                        ELSE Diffs(CHOOSE v \in s.before : TRUE, s.votes)
        d == PartyDelta(diffs, substitution, mine, s.votes)
    IN  CASE s.status \in {"NONE", "NOT_ON_IREV"} ->
                 WithAttention("IREV_MISSING", "WAIT_IREV", FALSE, Unknown, 0, FALSE)
          [] s.status = "OCR_FAILED" ->
                 WithAttention(IF s.before = {} THEN "UNREADABLE" ELSE "REPLACED", "INVESTIGATE",
                               FALSE, Unknown, 0, FALSE)
          [] OTHER ->
                 LET status == IF s.before # {} THEN "REPLACED"
                               ELSE IF mine = s.votes THEN "MATCH" ELSE "MISMATCH"
                 IN  WithAttention(status, IF status = "MATCH" THEN "ALIGNED" ELSE "INVESTIGATE",
                                   diffs["client"] # {}, {d[1] - d[2]}, CastDelta(diffs), s.sure)

PendingCheck == WithAttention("PENDING", "WAIT_IREV", FALSE, Unknown, 0, FALSE)

-----------------------------------------------------------------------------
(* Corpus and grids: SQL counts over units (loadCorpusMetrics, loadStateGrid, *)
(* loadLgaGrid, loadWardGrid).                                             *)

Submitted == {"SUBMITTED", "APPROVED", "REJECTED", "DRAFT"}
OnPortal(u) == scan[u].status \notin {"NONE", "NOT_ON_IREV"}
Sent(u) == entry[u].status \in Submitted
Says(u, status) == Sent(u) /\ check[u].status = status
Checked(u) == Sent(u) /\ check[u] # NoCheck

\* (Mutant: a replaced scan is not among what is to be investigated.)
ToInvestigateUnlessReplaced(u) ==
    Checked(u) /\ check[u].status # "REPLACED" /\
        (check[u].advice = "INVESTIGATE" \/ check[u].status \in {"MISMATCH", "UNREADABLE"})

ToInvestigate(u) ==
    Checked(u) /\ (check[u].advice = "INVESTIGATE"
                   \/ check[u].status \in {"MISMATCH", "REPLACED", "UNREADABLE"})

Corpus(units) ==
    LET n(P(_)) == Cardinality({u \in units : P(u)})
        says(status) == n(LAMBDA u : Says(u, status))
    IN  [total |-> Cardinality(units), inecPublished |-> n(OnPortal),
         campaignSubmitted |-> n(Sent),
         overlapBoth |-> n(LAMBDA u : OnPortal(u) /\ Sent(u)),
         inecOnly |-> n(LAMBDA u : OnPortal(u) /\ ~Sent(u)),
         campaignOnly |-> n(LAMBDA u : ~OnPortal(u) /\ Sent(u)),
         aligned |-> says("MATCH"), mismatch |-> says("MISMATCH"),
         investigate |-> n(ToInvestigate), pending |-> says("PENDING"),
         notChecked |-> n(LAMBDA u : Sent(u) /\ ~Checked(u)),
         irevMissing |-> says("IREV_MISSING"), unreadable |-> says("UNREADABLE"),
         replaced |-> says("REPLACED")]

StateGrid == Corpus(WardUnits(WardsHere))
LgaGrid == [l \in LGAsHere |-> Corpus(LgaUnits(l))]
WardGrid(l) == [w \in WardsOf[l] |-> Corpus(UnitsIn[w])]
GapScore(row) == row.investigate + row.notChecked + row.inecOnly

\* corpusToSummary
SummaryChecked(row) ==
    row.aligned + row.mismatch + row.pending + row.irevMissing + row.unreadable + row.replaced

-----------------------------------------------------------------------------
(* Who sees what.  A viewer is the place of an account, a request the LGA and *)
(* ward it asks for, a seat the constituency that is selected.             *)

Viewers == {[level |-> "state", at |-> NoPlace]} \cup {[level |-> "lga", at |-> l] : l \in LGAsHere}
           \cup {[level |-> "ward", at |-> w] : w \in WardsHere}
           \cup {[level |-> "pu", at |-> u] : u \in Units}
HomeLga(w) == CHOOSE l \in LGAsHere : w \in WardsOf[l]

\* Requests the dashboard makes: a ward is asked for with its LGA.
Requests == {[lga |-> NoPlace, ward |-> NoPlace]} \cup
            {[lga |-> l, ward |-> NoPlace] : l \in LGAsHere} \cup
            {[lga |-> HomeLga(w), ward |-> w] : w \in WardsHere}

\* resolveGeoScope, with clampGeoScope and without a seat.
GeoScope(viewer, asked) ==
    CASE viewer.level = "ward" -> [lga |-> HomeLga(viewer.at), ward |-> viewer.at]
      [] viewer.level = "lga" -> [lga |-> viewer.at, ward |-> asked.ward]
      [] OTHER -> asked

\* resolveBrowseLevel, resolveCorpusScope
BrowseLevel(viewer, geo) ==
    IF geo.ward # NoPlace \/ viewer.level \in {"pu", "ward"} THEN "pu"
    ELSE IF geo.lga # NoPlace THEN "ward" ELSE "lga"

\* geoFilters, the wards the corpus is counted in.
CorpusWards(geo) ==
    IF geo.ward # NoPlace
    THEN IF geo.lga = NoPlace \/ geo.ward \in WardsOf[geo.lga] THEN {geo.ward} ELSE {}
    ELSE IF geo.lga # NoPlace THEN WardsOf[geo.lga] ELSE WardsHere

\* (Mutant: an LGA officer's queue is not narrowed to the ward asked for.)
ScopeUnitsOfWholeLga(viewer, geo) ==
    CASE viewer.level = "pu" -> {viewer.at}
      [] viewer.level = "ward" -> UnitsIn[viewer.at]
      [] viewer.level = "lga" -> LgaUnits(viewer.at)
      [] OTHER -> WardUnits(CorpusWards(geo))

\* resolveScopePuIds, the units the queue, the brief and the drift look at.
ScopeUnits(viewer, geo) ==
    CASE viewer.level = "pu" -> {viewer.at}
      [] viewer.level = "ward" -> UnitsIn[viewer.at]
      [] viewer.level = "lga" ->
             IF geo.ward = NoPlace THEN LgaUnits(viewer.at)
             ELSE WardUnits({geo.ward} \cap WardsOf[viewer.at])
      [] OTHER -> WardUnits(CorpusWards(geo))

\* The same two with a seat: clampSeatGeo, and the seat's wards in place of the rest.
SeatGeo(seat, home, geo) ==
    [lga |-> IF home = NoPlace THEN geo.lga ELSE home,
     ward |-> IF geo.ward \in SeatOf[seat] THEN geo.ward ELSE NoPlace]

SeatScopeUnits(seat, geo) ==
    WardUnits(IF geo.ward = NoPlace THEN SeatOf[seat] ELSE {geo.ward} \cap SeatOf[seat])

\* buildGeoNav: the rows one level down, with their gap scores.
GeoNav(viewer, geo) ==
    CASE BrowseLevel(viewer, geo) = "lga" -> [l \in LGAsHere |-> GapScore(LgaGrid[l])]
      [] BrowseLevel(viewer, geo) = "ward" -> [w \in WardsOf[geo.lga] |-> GapScore(WardGrid(geo.lga)[w])]
      [] OTHER -> <<>>

-----------------------------------------------------------------------------
(* The queue: rows of the units in scope (applyStatusFilter, countQueue,   *)
(* fetchQueueRows), and the severity chip on what was fetched (mapQueueRows). *)

\* Sheets and scans joined: a scan without a sheet, a sheet without a scan, and both.
InecOnlyRows(units) == {u \in units : OnPortal(u) /\ ~Sent(u)}
CampaignOnlyRows(units) == {u \in units : Sent(u) /\ ~OnPortal(u)}
BothPresentRows(units) == {u \in units : Sent(u) /\ OnPortal(u)}

QueueRows(filter, units) ==
    {u \in units :
        CASE filter = "INVESTIGATE" -> ToInvestigate(u)
          [] filter = "NOT_CHECKED" -> Sent(u) /\ check[u] = NoCheck
          [] filter = "AWAITING_IREV" -> Says(u, "PENDING") \/ Says(u, "IREV_MISSING")
          [] filter \in {"READABLE", "ATTENTION"} ->
                 Says(u, "MATCH") \/ Says(u, "MISMATCH") \/ Says(u, "REPLACED")
          [] filter = "INEC_ONLY" -> u \in InecOnlyRows(units)
          [] filter = "CAMPAIGN_ONLY" -> u \in CampaignOnlyRows(units)
          [] filter = "BOTH_PRESENT" -> u \in BothPresentRows(units)
          [] filter = "ALL" -> Sent(u)
          [] OTHER -> Says(u, filter)}

High == {"REPLACED_MATERIAL", "MISMATCH_HIGH_CONF"}
Low == {"MISMATCH_LOW_CONF", "MISMATCH_IMMATERIAL"}
OfSeverity(severities, units) ==
    {u \in QueueRows("INVESTIGATE", units) : check[u].severity \in severities}

-----------------------------------------------------------------------------
(* Votes at risk, clusters (loadAttention, summarizeVotesAtRisk, clusterAttentionRows). *)

DisputedRows(units) == QueueRows("MISMATCH", units) \cup QueueRows("REPLACED", units)

SumOf(f(_), S) == Cardinality(UNION {{x} \X (1 .. f(x)) : x \in S})

AtRisk(u) == \E n \in check[u].delta : Abs(n) >= 5 \/ check[u].status = "REPLACED"

Over(u) == Cardinality(UNION {1 .. n : n \in check[u].delta})
Under(u) == Cardinality(UNION {1 .. -n : n \in check[u].delta})

VotesAtRisk(units) ==
    LET risky == {u \in DisputedRows(units) : AtRisk(u)}
    IN  [comparable |-> Cardinality(risky),
         votesAtRisk |-> SumOf(Over, risky), votesAgainst |-> SumOf(Under, risky),
         replaced |-> Cardinality(QueueRows("REPLACED", units))]

\* (Mutant: a cluster adds up mismatches only, not replaced scans.)
ClustersOfMismatches(units) ==
    [w \in {v \in WardsHere : UnitsIn[v] \cap DisputedRows(units) # {}} |->
        LET mine == UnitsIn[w] \cap DisputedRows(units)
        IN  [compared |-> Cardinality(mine), mismatch |-> Cardinality(mine),
             replaced |-> Cardinality({u \in mine : check[u].status = "REPLACED"}),
             votesAtRisk |-> SumOf(Over, mine \cap QueueRows("MISMATCH", units))]]

Clusters(units) ==
    [w \in {v \in WardsHere : UnitsIn[v] \cap DisputedRows(units) # {}} |->
        LET mine == UnitsIn[w] \cap DisputedRows(units)
        IN  [compared |-> Cardinality(mine), mismatch |-> Cardinality(mine),
             replaced |-> Cardinality({u \in mine : check[u].status = "REPLACED"}),
             votesAtRisk |-> SumOf(Over, mine)]]

\* buildPartyDrift: rows whose sheet differs on the client's votes.
PartyDrift(units) == {u \in QueueRows("INVESTIGATE", units) : check[u].differs}

\* The figures of one brief, of what the viewer covers (getAttentionBrief) or of the
\* campaign (the race board).
Brief(units) == [risk |-> VotesAtRisk(units), clusters |-> Clusters(units)]
AttentionBrief(viewer) == Brief(ScopeUnits(viewer, [lga |-> NoPlace, ward |-> NoPlace]))
RaceBrief == Brief(Units)

\* Mismatches on the situation map: counted by area (loadIrevMismatchRollups), listed as
\* pins (listMapIrevMismatches), counted once more for the race board.
IsIrevQaMismatch(u) ==
    /\ check[u] # NoCheck
    /\ check[u].status \in {"MISMATCH", "REPLACED"} \/ check[u].advice = "INVESTIGATE"

MapMismatches(wards) == Cardinality({u \in WardUnits(wards) : IsIrevQaMismatch(u)})
MapPins(wards) == {u \in WardUnits(wards) : IsIrevQaMismatch(u)}
RaceMismatches == Cardinality({u \in Units : IsIrevQaMismatch(u)})

\* getCommandCenter: the page a viewer asks for, under every chip.
Chips == {"ALL", "INVESTIGATE", "AWAITING_IREV", "READABLE", "INEC_ONLY", "BOTH_PRESENT"}

CommandCenter(viewer, asked) ==
    LET geo == GeoScope(viewer, asked)
        units == ScopeUnits(viewer, geo)
    IN  [corpus |-> Corpus(WardUnits(CorpusWards(geo))),
         queue |-> [filter \in Chips |-> QueueRows(filter, units)],
         level |-> BrowseLevel(viewer, geo), nav |-> GeoNav(viewer, geo)]

-----------------------------------------------------------------------------
(* The official results (irev-results): what the scans alone say.          *)

\* (Mutant: a scan counts as published once somebody tried to read it.)
CoverageOfTried(units) ==
    LET n(statuses) == Cardinality({u \in units : scan[u].status \in statuses})
    IN  [total |-> Cardinality(units), published |-> n({"OCR_READY", "OCR_FAILED"}),
         readable |-> n({"OCR_READY"}), failed |-> n({"OCR_FAILED"}), pending |-> n({"FETCHED"})]

\* loadCoverageRows
Coverage(units) ==
    LET n(statuses) == Cardinality({u \in units : scan[u].status \in statuses})
    IN  [total |-> Cardinality(units), published |-> Cardinality({u \in units : OnPortal(u)}),
         readable |-> n({"OCR_READY"}), failed |-> n({"OCR_FAILED"}), pending |-> n({"FETCHED"})]

\* loadVoteAggregates
ReadVotes(units) ==
    LET ready == {u \in units : scan[u].status = "OCR_READY"}
    IN  [client |-> SumOf(LAMBDA u : scan[u].votes.client, ready),
         rival |-> SumOf(LAMBDA u : scan[u].votes.rival, ready)]

\* deriveIrevStatus
OfficialStatus(c, votes) ==
    CASE c.readable > 0 /\ Cast(votes) > 0 -> "APPROVED"
      [] ~(c.readable > 0 /\ Cast(votes) > 0)
         /\ (c.pending > 0 \/ (c.published > 0 /\ c.readable = 0)) -> "SUBMITTED"
      [] OTHER -> IF c.failed > 0 /\ c.readable = 0 THEN "REJECTED" ELSE "NOT_STARTED"

\* computeClientOutcome of irev-results: a loss has a negative margin.
Standing(votes) ==
    CASE Cast(votes) = 0 -> [outcome |-> "PENDING", margin |-> 0]
      [] votes.client > votes.rival -> [outcome |-> "WIN", margin |-> votes.client - votes.rival]
      [] votes.client < votes.rival -> [outcome |-> "LOSS", margin |-> votes.client - votes.rival]
      [] OTHER -> [outcome |-> "TIE", margin |-> 0]

\* mapScopeRow: a row of listConstituencyResults, listSeatWardResults or listPuResults.
OfficialRow(units) ==
    LET votes == ReadVotes(units)
    IN  [status |-> OfficialStatus(Coverage(units), votes), votes |-> votes,
         outcome |-> Standing(votes).outcome, coverage |-> Coverage(units)]

SeatRows == [s \in DOMAIN SeatOf |-> OfficialRow(WardUnits(SeatOf[s]))]
SeatWardRows(s) == [w \in SeatOf[s] |-> OfficialRow(UnitsIn[w])]
UnitRows(w) == [u \in UnitsIn[w] |-> OfficialRow({u})]

\* getRaceAnalytics: the seats won, lost, tied and open, and the state's figures.
SeatRaceBoard ==
    LET seats == DOMAIN SeatOf
        votes(s) == ReadVotes(WardUnits(SeatOf[s]))
        open(s) == Cast(votes(s)) = 0 \/ Coverage(WardUnits(SeatOf[s])).readable = 0
        n(outcome) == Cardinality({s \in seats : ~open(s) /\ Standing(votes(s)).outcome = outcome})
    IN  [wins |-> n("WIN"), losses |-> n("LOSS"), ties |-> n("TIE"),
         pending |-> Cardinality({s \in seats : open(s)}),
         published |-> SumOf(LAMBDA s : Coverage(WardUnits(SeatOf[s])).published, seats),
         total |-> SumOf(LAMBDA s : Coverage(WardUnits(SeatOf[s])).total, seats),
         client |-> SumOf(LAMBDA s : votes(s).client, seats),
         rival |-> SumOf(LAMBDA s : votes(s).rival, seats)]

-----------------------------------------------------------------------------
(* What changes the rows.                                                  *)

\* An agent submits, again after a return; the verdict stays until the next comparison.
WriteRow(u, votes) ==
    /\ entry[u].status \in {"NONE", "DRAFT", "REJECTED"}
    /\ entry' = [entry EXCEPT ![u] = [status |-> "SUBMITTED", votes |-> votes]]
    /\ UNCHANGED <<scan, check>>

\* An officer approves or returns.
ReviewRow(u, status) ==
    /\ entry[u].status \in {"SUBMITTED", "APPROVED"} \ {status}
    /\ entry' = [entry EXCEPT ![u].status = status]
    /\ UNCHANGED <<scan, check>>

\* persistWardCatalog: a scan appears, or another one takes its place; what was read on
\* the old one is kept as a revision.
Remembered(s) == IF s.status = "OCR_READY" THEN {s.votes} ELSE s.before

Appear(u) ==
    /\ scan' = [scan EXCEPT ![u] =
           [NoScan EXCEPT !.status = "FETCHED", !.before = Remembered(scan[u])]]
    /\ UNCHANGED <<entry, check>>

\* What the portal no longer shows.
Withdraw(u) ==
    /\ OnPortal(u)
    /\ scan' = [scan EXCEPT ![u] = [NoScan EXCEPT !.status = "NOT_ON_IREV", !.before = scan[u].before]]
    /\ UNCHANGED <<entry, check>>

\* runOcrBackfill, and the reading within a comparison.
ReadSheet(u, reading) ==
    /\ scan[u].status \in {"FETCHED", "OCR_FAILED"}
    /\ scan' = [scan EXCEPT ![u].status = "OCR_READY", ![u].votes = reading.votes,
                            ![u].sure = reading.sure]
    /\ UNCHANGED <<entry, check>>

CannotRead(u) ==
    /\ scan[u].status = "FETCHED"
    /\ scan' = [scan EXCEPT ![u].status = "OCR_FAILED"]
    /\ UNCHANGED <<entry, check>>

\* The job of one unit: pending while there is nothing to compare, else the verdict.
Verify(u) ==
    /\ Sent(u) /\ scan[u].status # "FETCHED"
    /\ check' = [check EXCEPT ![u] = CompareAgentToIrev(entry[u].votes, scan[u])]
    /\ UNCHANGED <<entry, scan>>

Postpone(u) ==
    /\ Sent(u)
    /\ check' = [check EXCEPT ![u] = PendingCheck]
    /\ UNCHANGED <<entry, scan>>

ComparisonNext ==
    \E u \in Units :
        \/ \E votes \in Written[u] : WriteRow(u, votes)
        \/ \E status \in {"APPROVED", "REJECTED"} : ReviewRow(u, status)
        \/ Appear(u) \/ Withdraw(u) \/ CannotRead(u) \/ Verify(u) \/ Postpone(u)
        \/ \E reading \in Scanned[u] : ReadSheet(u, reading)

ComparisonSpec == ComparisonInit /\ [][ComparisonNext]_comparisonVars

-----------------------------------------------------------------------------
\* The numbers of one page belong together: what is published or submitted splits into
\* what both have and what one has, every submitted row is checked or not, and the grids
\* of LGAs and wards add up to the corpus, which has the map's mismatches.  Queue and
\* corpus are counted by separate queries in separately resolved scopes: for whoever looks
\* at whatever part of the state, the queue of a status has as many rows as the corpus says.
ScreensAgree ==
    /\ \A w \in WardsHere :
          LET row == Corpus(UnitsIn[w])
          IN  /\ row.inecPublished = row.overlapBoth + row.inecOnly
              /\ row.campaignSubmitted = row.overlapBoth + row.campaignOnly
              /\ row.campaignSubmitted = SummaryChecked(row) + row.notChecked
              /\ row.investigate = row.mismatch + row.replaced + row.unreadable
    /\ \A l \in LGAsHere :
          /\ MapMismatches(WardsOf[l]) = LgaGrid[l].investigate
          /\ \A w \in WardsOf[l] : MapMismatches({w}) = WardGrid(l)[w].investigate
    /\ RaceMismatches = StateGrid.investigate
    /\ LET state == StateGrid
           lgas == {[at |-> l, row |-> LgaGrid[l]] : l \in LGAsHere}
       IN  \A f \in DOMAIN state : state[f] = SumOf(LAMBDA g : g.row[f], lgas)
    /\ \A l \in LGAsHere :
          LET lga == LgaGrid[l]
              wards == {[at |-> w, row |-> WardGrid(l)[w]] : w \in WardsOf[l]}
          IN  \A f \in DOMAIN lga : lga[f] = SumOf(LAMBDA g : g.row[f], wards)
    /\ \A v \in Viewers, asked \in Requests :
          LET page == CommandCenter(v, asked)
              row == page.corpus
              rows(filter) == Cardinality(page.queue[filter])
          IN  v.level # "pu" =>
                 /\ rows("ALL") = row.campaignSubmitted
                 /\ rows("INVESTIGATE") = row.investigate
                 /\ rows("AWAITING_IREV") = row.pending + row.irevMissing
                 /\ rows("READABLE") = row.aligned + row.mismatch + row.replaced
                 /\ rows("INEC_ONLY") = row.inecOnly /\ rows("BOTH_PRESENT") = row.overlapBoth
                 /\ page.level # "pu" =>
                        GapScore(row) = SumOf(LAMBDA x : page.nav[x], DOMAIN page.nav)
    /\ \A s \in DOMAIN SeatOf, asked \in Requests, l \in LGAsHere :
          SeatOf[s] \subseteq WardsOf[l] =>
              LET geo == SeatGeo(s, l, asked)
              IN  QueueRows("INVESTIGATE", SeatScopeUnits(s, geo))
                      \subseteq QueueRows("INVESTIGATE", WardUnits(CorpusWards(geo)))

\* What the brief puts at risk can be found: it is in the queue of what to investigate,
\* as a replaced scan or under the chip of its severity, and its ward is a cluster that
\* names at least its votes, and it is pinned on the map.  The campaign's brief has the
\* votes of the briefs of its LGAs.
RiskCanBeFound ==
    /\ VotesAtRisk(Units).votesAtRisk
           <= SumOf(LAMBDA w : Clusters(Units)[w].votesAtRisk, DOMAIN Clusters(Units))
    /\ VotesAtRisk(Units).replaced
           = SumOf(LAMBDA w : Clusters(Units)[w].replaced, DOMAIN Clusters(Units))
    /\ RaceBrief.risk.votesAtRisk
           = SumOf(LAMBDA l : AttentionBrief([level |-> "lga", at |-> l]).risk.votesAtRisk, LGAsHere)
    /\ \A u \in Units : u \in DisputedRows(Units) /\ AtRisk(u) =>
           /\ u \in QueueRows("INVESTIGATE", Units)
           /\ check[u].status = "MISMATCH" => u \in PartyDrift(Units)
           /\ \/ check[u].status = "REPLACED"
              \/ u \in OfSeverity(High \cup Low, Units)
           /\ \A w \in WardsHere : u \in UnitsIn[w] =>
                 /\ w \in DOMAIN Clusters(Units) /\ Clusters(Units)[w].votesAtRisk >= Over(u)
                 /\ u \in MapPins({w})

\* The seats' list and the race board, and the command centre and the official results,
\* tell the same story of the same scans.
OfficialPagesAgree ==
    LET n(outcome) == Cardinality({s \in DOMAIN SeatOf : SeatRows[s].outcome = outcome})
        wards == UNION {SeatOf[s] : s \in DOMAIN SeatOf}
    IN  /\ SeatRaceBoard.wins = n("WIN") /\ SeatRaceBoard.losses = n("LOSS")
        /\ SeatRaceBoard.ties = n("TIE") /\ SeatRaceBoard.pending = n("PENDING")
        /\ SeatRaceBoard.published = Corpus(WardUnits(wards)).inecPublished
        /\ \A s \in DOMAIN SeatOf :
              /\ SeatRows[s].votes.client = SumOf(LAMBDA w : SeatWardRows(s)[w].votes.client, SeatOf[s])
              /\ \A w \in SeatOf[s] : SeatWardRows(s)[w].votes.rival =
                    SumOf(LAMBDA u : UnitRows(w)[u].votes.rival, UnitsIn[w])
              /\ SeatRows[s].outcome # "PENDING" <=> SeatRows[s].status = "APPROVED"
=============================================================================
