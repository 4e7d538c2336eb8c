-------------------------------- MODULE MCDesk --------------------------------
(***************************************************************************)
(* What officers have on their desk: the incidents that come in (Intake)   *)
(* and the pages that set sheets beside official scans (Comparison).  As   *)
(* modelled they share no variable, so that one instance holds both: one   *)
(* is busy and the other rests.  In rest nothing of Intake goes on.        *)
(***************************************************************************)
EXTENDS MCIntake, Comparison

CONSTANTS u1, u2, u3, v1, v2, l1, l2

VARIABLE busy

deskVars == <<intakeVars, comparisonVars, busy>>

\* Two LGAs, one of them with two units; sheets that agree with the scan, differ from it
\* or hide the winner; a unit without a scan and one without a sheet.
MCWardsOf == (l1 :> {v1}) @@ (l2 :> {v2})
MCUnitsIn == (v1 :> {u1, u2}) @@ (v2 :> {u3})
MCSeatOf == ("seat1" :> {v1}) @@ ("seat2" :> {v2})
Scores(x, y) == [client |-> x, rival |-> y]
MCWritten == (u1 :> {Scores(7, 2)}) @@ (u2 :> {Scores(1, 2)}) @@ (u3 :> {})
Scan(x, y, sure) == [votes |-> Scores(x, y), sure |-> sure]
MCScanned == (u1 :> {Scan(2, 2, TRUE), Scan(5, 2, FALSE)}) @@ (u2 :> {})
             @@ (u3 :> {Scan(1, 2, TRUE)})

\* The scan of one unit is not looked for (bound).
Comparing ==
    ComparisonNext /\ scan'[u2] = scan[u2] /\ check'[u2].status # "PENDING"

DeskInit == IntakeInit /\ ComparisonInit /\ busy \in {"intake", "comparison"}

DeskNext ==
    /\ UNCHANGED busy
    /\ \/ busy = "intake" /\ BoundedIntake /\ UNCHANGED comparisonVars
       \/ busy = "comparison" /\ Comparing /\ UNCHANGED intakeVars

DeskSpec == DeskInit /\ [][DeskNext]_deskVars /\ IntakeFairness
=============================================================================
