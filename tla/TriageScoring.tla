---------------------------- MODULE TriageScoring ----------------------------
(***************************************************************************)
(* The risk engine (modules/ai/triage/scoring/triage-scoring.ts): a pure   *)
(* function from the signals of a place and its previous risk level to a   *)
(* composite score, a risk level and an outlook.                           *)
(*                                                                         *)
(* The code computes in floating point and rounds the composite to a tenth *)
(* of a point.  Here shares and margins are in thousandths, components in  *)
(* thousandths of a point (0 .. 100000), the composite in tenths of a      *)
(* point (0 .. 1000).  The age of an incident is counted in half-lives.    *)
(***************************************************************************)
EXTENDS Integers, FiniteSetsExt

CONSTANT Incidents    \* the kinds of unresolved incident that can be reported

Severities == {"CRITICAL", "HIGH", "MEDIUM", "LOW"}

ASSUME IncidentKinds ==
    Incidents \subseteq
        [severity : Severities \cup {"NONE"}, urgent : BOOLEAN, age : Nat]

Absent == -1    \* a signal that was not measured

Risks == {"LOW", "MEDIUM", "HIGH", "CRITICAL"}
Hot == {"HIGH", "CRITICAL"}
Outlooks == {"UNKNOWN", "WINNING", "LEANING_WIN", "TOSSUP", "LEANING_LOSS", "LOSING"}
Levels == {"WARD", "LGA", "STATE"}

Rank(risk) ==
    CASE risk = "LOW" -> 0 [] risk = "MEDIUM" -> 1 [] risk = "HIGH" -> 2 [] OTHER -> 3

\* The lower edge of a risk band.
Edge(risk) ==
    CASE risk = "LOW" -> 0 [] risk = "MEDIUM" -> 250 [] risk = "HIGH" -> 500 [] OTHER -> 750

HysteresisMargin == 80

Clamp(x, low, high) == IF x < low THEN low ELSE IF x > high THEN high ELSE x

Full == 100000

-----------------------------------------------------------------------------
(* The components.  Each is Absent when its signals are.                    *)

ReportedShare(in) ==
    IF in.total = 0 THEN 0 ELSE Clamp((1000 * in.reported) \div in.total, 0, 1000)

Margin(in) == ((in.client - in.rival) * 1000) \div in.votes

ResultsMargin(in) ==
    IF ~in.party \/ in.votes = 0 THEN Absent
    ELSE LET severity == Clamp(((80 - Margin(in)) * 1000) \div 160, 0, 1000)
         IN  (severity * (400 + (600 * ReportedShare(in)) \div 1000)) \div 10

ReportingCoverage(in) ==
    IF ~in.election \/ in.total = 0 THEN Absent
    ELSE Clamp(Full - (Full * ReportedShare(in)) \div 900, 0, Full)

\* Above 95% of the register and near zero are both suspicious.
Turnout(in) ==
    CASE in.registered = 0 \/ in.accredited = 0 -> Absent
      [] 100 * in.accredited > 95 * in.registered -> Full
      [] 100 * in.accredited > 85 * in.registered ->
             40000 + 600 * ((1000 * in.accredited) \div in.registered - 850)
      [] 10 * in.accredited < in.registered /\ ReportedShare(in) > 300 -> 60000
      [] OTHER -> 0

SeverityOf(kind) ==
    CASE kind.severity # "NONE" -> kind.severity
      [] kind.severity = "NONE" /\ kind.urgent -> "HIGH"
      [] OTHER -> "LOW"

\* Weights halve with every half-life; a critical incident keeps half of its own.
Pressure(kind) ==
    LET base == 1000 * (Rank(SeverityOf(kind)) + 1)
        decayed == base \div 2 ^ kind.age
    IN  IF kind.severity = "CRITICAL" /\ decayed < base \div 2 THEN base \div 2 ELSE decayed

IncidentCap(level) == CASE level = "WARD" -> 12 [] level = "LGA" -> 30 [] OTHER -> 80

CountIncidents(in, kinds) == MapThenSumSet(LAMBDA k : in.incidents[k], kinds)

IncidentPressure(in) ==
    LET weight == MapThenSumSet(LAMBDA k : in.incidents[k] * Pressure(k), Incidents)
    IN  Clamp((100 * weight) \div IncidentCap(in.level), 0, Full)

VerificationFlags(in) ==
    IF in.scored = 0 THEN Absent
    ELSE Clamp((4000 * (100 * in.flagged + 35 * in.checkPhoto)) \div in.scored, 0, Full)

Staleness(in) ==
    IF ~in.election \/ in.silence = Absent THEN Absent
    ELSE Clamp(((in.silence - 60) * Full) \div 180, 0, Full)

Sentiment(in) ==
    IF in.negative = Absent \/ in.posts = 0 THEN Absent
    ELSE (Clamp((in.negative - 30) * 25, 0, 1000) * Clamp(20 * in.posts, 0, 1000)) \div 10

Components(in) ==
    {[weight |-> 30, name |-> "incidentPressure", score |-> IncidentPressure(in)],
     [weight |-> 20, name |-> "resultsMargin", score |-> ResultsMargin(in)],
     [weight |-> 15, name |-> "verificationFlags", score |-> VerificationFlags(in)],
     [weight |-> 15, name |-> "reportingCoverage", score |-> ReportingCoverage(in)],
     [weight |-> 10, name |-> "turnout", score |-> Turnout(in)],
     [weight |-> 5, name |-> "staleness", score |-> Staleness(in)],
     [weight |-> 5, name |-> "sentiment", score |-> Sentiment(in)]}

\* The mean of the components that were measured, by weight.
Composite(in) ==
    LET measured == {c \in Components(in) : c.score # Absent}
        points == MapThenSumSet(LAMBDA c : c.weight * c.score, measured)
        weight == MapThenSumSet(LAMBDA c : c.weight, measured)
    IN  IF measured = {} THEN 0 ELSE (points + 50 * weight) \div (100 * weight)

-----------------------------------------------------------------------------
(* From the composite to the risk level.                                    *)

BandFor(score) ==
    CASE score >= Edge("CRITICAL") -> "CRITICAL"
      [] score >= Edge("HIGH") -> "HIGH"
      [] score >= Edge("MEDIUM") -> "MEDIUM"
      [] OTHER -> "LOW"

\* Some facts are serious whatever the average says.
Floored(in) ==
    \/ CountIncidents(in, {k \in Incidents : k.severity = "CRITICAL"}) > 0
    \/ CountIncidents(in, {k \in Incidents : k.urgent}) >= 3

RawRisk(in) ==
    LET band == BandFor(Composite(in))
    IN  IF Floored(in) /\ band \notin Hot THEN "HIGH" ELSE band

\* (Mutant: hysteresis holds an escalation back as well.)
ApplyHysteresisBothWays(score, raw, previous) ==
    CASE previous = "NONE" -> raw
      [] score <= Edge(previous) - HysteresisMargin -> raw
      [] OTHER -> previous

\* (Mutant: a score back under the edge leaves the band at once.)
ApplyHysteresisNot(score, raw, previous) == raw

\* A lower level is taken only once the score is clearly below the edge.
ApplyHysteresis(score, raw, previous) ==
    IF /\ previous # "NONE"
       /\ Rank(raw) < Rank(previous)
       /\ ~(score <= Edge(previous) - HysteresisMargin)
    THEN previous ELSE raw

\* The lead that calls it slides from 10% to 4% as reporting rises to 70%.
OutlookOf(in) ==
    LET r == ReportedShare(in)
        threshold == 100 - (60 * Clamp((r * 1000) \div 700, 0, 1000)) \div 1000
    IN  IF ~in.party \/ in.votes = 0 \/ r < 100 THEN "UNKNOWN"
        ELSE CASE Margin(in) >= threshold ->
                      IF r >= 700 THEN "WINNING" ELSE "LEANING_WIN"
               [] Margin(in) <= -threshold ->
                      IF r >= 700 THEN "LOSING" ELSE "LEANING_LOSS"
               [] OTHER -> "TOSSUP"

\* What the rows keep of the signals to tell whether anything material moved.
Fingerprint(in) ==
    [reported |-> in.reported, total |-> in.total, client |-> in.client,
     rival |-> in.rival, votes |-> in.votes, registered |-> in.registered,
     accredited |-> in.accredited, scored |-> in.scored, flagged |-> in.flagged,
     checkPhoto |-> in.checkPhoto, negative |-> in.negative, election |-> in.election,
     severities |-> [s \in Severities |->
         CountIncidents(in, {k \in Incidents :
             k.severity = s \/ (s = "LOW" /\ k.severity = "NONE")})]]
=============================================================================
