--------------------------- MODULE ResultLifecycle ---------------------------
(***************************************************************************)
(* What the collation API promises about one polling-unit sheet, whatever  *)
(* else goes on: an agent saves a draft, attaches the EC8A form, submits   *)
(* exactly what was saved; a ward officer approves exactly what was        *)
(* submitted; a reviewer returns it; and only then can it be edited again. *)
(* Each promise is an error the service answers with: "Only submitted      *)
(* results can be approved", "This result has already been submitted",     *)
(* "EC8A form must be uploaded before submission".                         *)
(***************************************************************************)
CONSTANTS PUs, Contents    \* the polling units; what a sheet can hold

VARIABLES status, sheet, form

vars == <<status, sheet, form>>

Init ==
    /\ status = [p \in PUs |-> "NONE"]
    /\ sheet \in [PUs -> Contents]
    /\ form = [p \in PUs |-> FALSE]

Move(p, from, to) ==
    /\ status[p] \in from
    /\ status' = [status EXCEPT ![p] = to]

Save(p) ==
    /\ Move(p, {"NONE", "DRAFT", "REJECTED"}, "DRAFT")
    /\ \E c \in Contents : sheet' = [sheet EXCEPT ![p] = c]
    /\ \E photo \in BOOLEAN : form' = [form EXCEPT ![p] = photo]

Attach(p) ==
    /\ status[p] \in {"DRAFT", "REJECTED"}
    /\ form' = [form EXCEPT ![p] = TRUE]
    /\ UNCHANGED <<status, sheet>>

Submit(p) ==
    /\ form[p]
    /\ Move(p, {"DRAFT", "REJECTED"}, "SUBMITTED")
    /\ UNCHANGED <<sheet, form>>

Approve(p) ==
    /\ Move(p, {"SUBMITTED"}, "APPROVED")
    /\ UNCHANGED <<sheet, form>>

Return(p) ==
    /\ Move(p, {"SUBMITTED", "APPROVED"}, "REJECTED")
    /\ UNCHANGED <<sheet, form>>

Next == \E p \in PUs : Save(p) \/ Attach(p) \/ Submit(p) \/ Approve(p) \/ Return(p)

Spec == Init /\ [][Next]_vars
=============================================================================
