------------------------------- MODULE Recipients -------------------------------
(***************************************************************************)
(* Whom an event is told to (notifications/recipient-resolver.service),    *)
(* from the seats as they are when it is dispatched.  Events are those     *)
(* that collation, field reports, the situation room and triage send; a    *)
(* recipient may be pushed to or only find it in the inbox.  A seat at a   *)
(* ward, LGA or state is its officer's or its coordinator's; coordinators  *)
(* of polling agents, whom no event is told to, are left out.              *)
(***************************************************************************)
EXTENDS Seats

CONSTANTS
    Leadership,      \* candidates and campaign directors, who hold no seat of a place
    Coordinators,    \* the accounts that are coordinators where they sit
    Cap              \* how many are told of a change of risk

ASSUME LeadersHaveNoSeat == Leadership \cap Accounts = {} /\ Coordinators \subseteq Accounts

ASSUME FewAreTold == IsFiniteSet(Leadership) /\ IsFiniteSet(Accounts) /\ Cap \in Nat

Nobody == "none"

To(users, push) == {[user |-> u, push |-> push] : u \in users}

\* The ward, the LGA and the state of a row: of a row of an LGA or a state no ward is
\* found, and of a row of a state no LGA.
WardOf(p) == IF p \in PUs THEN {Parent[p]} ELSE {p} \cap Wards
AreaOf(p, level) == Chain[p] \cap level

\* Officers and coordinators of the level of a place.
WardOfficers(p) == SeatedAt(WardOf(p))
LgaOfficers(p) == SeatedAt(AreaOf(p, LGAs))
StateOfficers(p) == SeatedAt(AreaOf(p, States))

\* Whoever submitted the row, else the agents of the unit.
Submitter(p, submitter) ==
    IF submitter # Nobody THEN {submitter} ELSE SeatedAt({p} \cap PUs)

\* A comment goes to the officers of the row's own level, of a unit to its ward's.
Commented(p) ==
    IF p \in PUs \cup Wards THEN WardOfficers(p)
    ELSE IF p \in LGAs THEN LgaOfficers(p) ELSE StateOfficers(p)

\* (Mutant: the ward is looked up from the unit, which a report may not name.)
WardOfReportByUnit(report) ==
    IF report.unit # "none" THEN {Parent[report.unit]} ELSE {}

\* The ward a report names, else that of its unit.
WardOfReport(report) ==
    IF report.ward # "none" THEN {report.ward}
    ELSE IF report.unit # "none" THEN {Parent[report.unit]} ELSE {}

Escalated(report) == SeatedAt({Parent[w] : w \in WardOfReport(report)})

\* The ward hears of a report; of an urgent one the LGA too, without a push.
Reported(report, push) ==
    To(SeatedAt(WardOfReport(report)), push)
        \cup IF report.urgent THEN To(Escalated(report), FALSE) ELSE {}

\* A change of risk: the leadership, the state's officers, then those of the place, in
\* no order among themselves, cut off after Cap.
RiskGroups(p) ==
    LET officers(places) == SeatedAt(places) \ Coordinators
    IN  <<Leadership, officers(Chain[p] \cap States), officers({p} \cap (LGAs \cup Wards))>>

FirstOf(groups, n) ==
    LET all == UNION {groups[i] : i \in DOMAIN groups}
    IN  {S \in SUBSET all :
            /\ Cardinality(S) = IF Cardinality(all) < n THEN Cardinality(all) ELSE n
            /\ \A i, j \in DOMAIN groups : i < j /\ groups[j] \cap S # {} => groups[i] \subseteq S}

RiskTold(p) == FirstOf(RiskGroups(p), Cap)

-----------------------------------------------------------------------------
\* The events of a row, by type.
Submitted(p, push) == To(WardOfficers(p), push)
Answer(p, submitter) == To(Submitter(p, submitter), TRUE)    \* approved or returned
WardReturned(w) == To(WardOfficers(w), TRUE)
Forwarded(p) == To(LgaOfficers(p) \cup StateOfficers(p), FALSE)
Comment(p) == To(Commented(p), TRUE)
Updated(p) == To(SeatedAt({Parent[p]}), TRUE)                \* of a unit's pulse
Resolved(reporter) == To({reporter} \ {Nobody}, TRUE)

\* resolve: nobody is told twice, with a push if any of the reasons has one, and who did
\* it is not told.
Resolve(raw, actor) ==
    {r \in raw : r.user # actor /\ (r.push \/ [r EXCEPT !.push = TRUE] \notin raw)}

Users(recipients) == {r.user : r \in recipients}
Pushed(recipients) == {r.user : r \in {q \in recipients : q.push}}

-----------------------------------------------------------------------------
ReportOf(unit, ward, urgent) == [unit |-> unit, ward |-> ward, urgent |-> urgent]

\* Whatever is told about a unit, by whatever path, is told to those who are its contacts
\* or whose own work it is, never to the one who did it.
OnlyTheirs(p, actor) ==
    LET urgent == Resolve(Reported(ReportOf(p, "none", TRUE), TRUE), actor)
        heard == {Submitted(p, TRUE), Comment(p), Updated(p), urgent, WardReturned(Parent[p]),
                  Forwarded(Parent[p]), Comment(Parent[p]), Answer(p, Nobody)}
        contacts == UNION {Contacts(p)[q] : q \in Chain[p]}
    IN  /\ \A raw \in heard : Users(Resolve(raw, actor)) \subseteq contacts \ {actor}
        /\ \A own \in Accounts :
              Users(Resolve(Answer(p, own) \cup Resolved(own), actor)) = {own} \ {actor}

\* Until its ward is forwarded everybody who sits above a unit has heard of its sheet.
AllAboveHear(p, actor) ==
    Users(Resolve(Submitted(p, TRUE), actor)) \cup Users(Resolve(Forwarded(Parent[p]), actor))
        = SeatedAt(Chain[p] \ {p}) \ {actor}

\* An urgent report reaches whom an ordinary one and its escalation reach, with a push
\* where the ordinary one has it; and a report that names a ward, as those by telephone
\* do, reaches the same people as one that names a unit there.
ReportsReach(p, actor) ==
    LET told(r, push) == Resolve(Reported(r, push), actor)
        calm == ReportOf(p, "none", FALSE)
        urgent == ReportOf(p, "none", TRUE)
        byWard == ReportOf("none", Parent[p], TRUE)
    IN  /\ Users(told(urgent, TRUE)) =
               Users(told(calm, TRUE)) \cup Users(Resolve(To(Escalated(calm), FALSE), actor))
        /\ Pushed(told(urgent, TRUE)) = Pushed(told(calm, TRUE))
        /\ told(byWard, TRUE) = told(urgent, TRUE)

\* Whom the campaign tells what, and whom it names as the contacts of a place, are
\* computed apart, the first from ids that events carry and the second up the chain of the
\* place: they agree, whoever sits where.  Of a change of risk only leaders and officers
\* of the place hear, and leaders never miss it unless there are more than Cap.
TheRightAreTold ==
    /\ \A p \in PUs, actor \in Accounts \cup {Nobody} :
          OnlyTheirs(p, actor) /\ AllAboveHear(p, actor) /\ ReportsReach(p, actor)
    /\ \A p \in States \cup LGAs \cup Wards : \A told \in RiskTold(p) :
          /\ told \subseteq Leadership \cup UNION {Contacts(p)[q] : q \in Chain[p]}
          /\ Leadership \subseteq told \/ Cardinality(Leadership) > Cap
=============================================================================
