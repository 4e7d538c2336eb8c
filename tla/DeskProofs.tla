------------------------------ MODULE DeskProofs ------------------------------
(***************************************************************************)
(* Proofs about Intake for any messages, forms, officers and number of     *)
(* faults, wherever an error or a crash strikes: what a sender was told    *)
(* stays true, and an urgent report that was typed or spoken has asked     *)
(* for its pass.                                                           *)
(***************************************************************************)
EXTENDS Intake, Comparison, Sums

Answers == {"help", "unsupported", "notRegistered", "failed", "logged"}
JobSteps == {"none", "queued", "ignore", "media", "giveUp", "create", "classify",
             "link", "confirm", "recover", "deny"}
VoiceSteps == {"none", "queued", "heard", "unheard", "alert"}
Marks == {"ABSENT", "RECEIVED", "IGNORED", "FAILED", "PROCESSED"}
Decisions == {"OPEN", "ESCALATED", "RESOLVED"}
Wordings == {"given", "placeholder", "summary", "failed"}

Filed == [status : Decisions, urgent : BOOLEAN, words : Wordings]

IntakeTypeOK ==
    /\ inbound \in [Messages -> Marks]
    /\ told \in [Messages -> SUBSET Answers]
    /\ job \in [Messages -> JobSteps]
    /\ voice \in [Origins -> VoiceSteps]
    /\ report \in [Origins -> Filed \cup {NoReport}]
    /\ marked \subseteq Origins
    /\ desk \in [Officers -> [of : SUBSET Origins, to : Decisions \cup {"NONE"}]]
    /\ faults \in Nat

\* A request or a recording is about a report that is there.
InProgress ==
    /\ \A x \in Origins : voice[x] # "none" => report[x] # NoReport
    /\ \A o \in Officers, x \in Origins :
          desk[o].of = {x} => report[x] # NoReport /\ desk[o].to \in Decisions

\* Where the worker of a message is, and what has been stored and said until there.
Unsaid == {"queued", "media", "create", "classify", "link", "confirm"}
Unfiled == {"queued", "ignore", "media", "giveUp", "create"}
Undecided == {"queued", "ignore", "media", "giveUp", "create", "classify", "link", "recover"}

Followed(m) ==
    /\ inbound[m] = "ABSENT" => job[m] = "none" /\ told[m] = {} /\ report[m] = NoReport
    /\ job[m] \in Undecided => inbound[m] = "RECEIVED"
    /\ job[m] \in Unsaid => told[m] = {}
    /\ job[m] \in Unfiled => report[m] = NoReport
    /\ job[m] \in {"classify", "link", "confirm"} => report[m] # NoReport
    /\ job[m] = "classify" => "audio" \notin Has[m]
    /\ job[m] = "confirm" => inbound[m] = "PROCESSED"
    /\ job[m] = "deny" => inbound[m] = "FAILED"

Told(m) ==
    /\ "logged" \in told[m] => inbound[m] = "PROCESSED" /\ report[m] # NoReport
    /\ told[m] \cap {"help", "unsupported", "notRegistered"} # {} => report[m] = NoReport
    /\ inbound[m] = "PROCESSED" => "failed" \notin told[m]

\* Until the transcript is stored a recording is not urgent.
Heard(x) ==
    (faults = 0 /\ (x \in Forms \/ "audio" \in Has[x])) =>
        /\ report[x].urgent /\ voice[x] = "none" => x \in marked
        /\ voice[x] \in {"queued", "heard", "unheard"} => ~report[x].urgent

IInv ==
    /\ IntakeTypeOK
    /\ InProgress
    /\ \A m \in Messages : Followed(m) /\ Told(m)
    /\ \A x \in Origins : Heard(x)

-----------------------------------------------------------------------------
LEMMA MessagesFile == Messages \subseteq Origins
BY DEF Origins

LEMMA InitInv == IntakeInit => IInv
<1> SUFFICES ASSUME IntakeInit PROVE IInv
  OBVIOUS
<1> USE MessagesFile DEF IntakeInit
<1>1. IntakeTypeOK
  BY DEF IntakeTypeOK, Answers, JobSteps, VoiceSteps, Marks, NoReport, NoVisit
<1>2. InProgress
  BY DEF InProgress, NoVisit
<1>3. \A m \in Messages : Followed(m) /\ Told(m)
  BY DEF Followed, Told, Unsaid, Unfiled, Undecided
<1>4. \A x \in Origins : Heard(x)
  BY DEF Heard, NoReport
<1>5. QED BY <1>1, <1>2, <1>3, <1>4 DEF IInv

\* A step of one message's worker that files nothing.
LEMMA MessageStep ==
    ASSUME IInv, NEW m \in Messages, NEW next \in JobSteps, NEW mark \in Marks,
           NEW answers \in SUBSET Answers,
           inbound' = [inbound EXCEPT ![m] = mark],
           told' = [told EXCEPT ![m] = answers], job' = [job EXCEPT ![m] = next],
           UNCHANGED <<voice, report, marked, desk>>, faults' \in Nat,
           faults' = 0 => faults = 0, Followed(m)', Told(m)'
    PROVE  IInv'
<1> USE MessagesFile DEF IInv
<1>1. IntakeTypeOK'
  BY DEF IntakeTypeOK
<1>2. InProgress'
  BY DEF InProgress
<1>3. \A k \in Messages \ {m} : Followed(k)' /\ Told(k)'
  BY DEF IntakeTypeOK, Followed, Told
<1>4. \A x \in Origins : Heard(x)'
  BY DEF Heard
<1>5. QED BY <1>1, <1>2, <1>3, <1>4

\* A step of a recording or of an officer: a report that is there stays there.
LEMMA ReportStep ==
    ASSUME IInv, IntakeTypeOK', InProgress', UNCHANGED <<inbound, told, job>>,
           \A x \in Origins : (report'[x] = NoReport) = (report[x] = NoReport),
           \A x \in Origins : Heard(x)'
    PROVE  IInv'
<1> USE MessagesFile DEF IInv
<1>1. \A m \in Messages : Followed(m)'
  BY DEF Followed
<1>2. \A m \in Messages : Told(m)'
  BY DEF Told
<1>3. QED BY <1>1, <1>2

-----------------------------------------------------------------------------
(* The worker of a message.                                                *)

LEMMA RefusalFact ==
    ASSUME NEW m \in Messages
    PROVE  Refusal(m) \in {"help", "unsupported", "notRegistered", "NONE"}
BY DEF Refusal

\* Steps that store, mark or say one thing and file nothing.
LEMMA QuietSteps ==
    ASSUME IInv, NEW m \in Messages,
           \/ IngestWebhook(m) \/ Sort(m) \/ Ignore(m) \/ Fetch(m) \/ GiveUp(m)
           \/ Process(m) \/ Confirm(m) \/ Throw(m) \/ Recover(m) \/ Deny(m)
    PROVE  IInv'
<1> USE MessagesFile DEF IInv, IntakeTypeOK
<1> DEFINE Step(next, mark, answers) ==
              /\ inbound' = [inbound EXCEPT ![m] = mark]
              /\ told' = [told EXCEPT ![m] = answers]
              /\ job' = [job EXCEPT ![m] = next]
<1> DEFINE Said(answer) == told[m] \cup {answer}
<1>0. Followed(m) /\ Told(m) /\ inbound[m] \in Marks /\ told[m] \in SUBSET Answers
  OBVIOUS
<1>1. CASE IngestWebhook(m)
  <2>1. Step("queued", "RECEIVED", told[m])
    BY <1>1 DEF IngestWebhook, Mark, Goes
  <2>2. Followed(m)' /\ Told(m)'
    BY <1>0, <1>1, <2>1 DEF IngestWebhook, Followed, Told, Unsaid, Unfiled, Undecided
  <2>3. QED BY <1>1, <2>1, <2>2, MessageStep DEF IngestWebhook, JobSteps, Marks
<1>2. CASE Sort(m) /\ Refusal(m) # "NONE"
  <2>1. Step("ignore", inbound[m], Said(Refusal(m)))
    BY <1>2 DEF Sort, Tell, Goes
  <2>2. Followed(m)' /\ Told(m)'
    BY <1>0, <1>2, <2>1, RefusalFact DEF Sort, Followed, Told, Unsaid, Unfiled, Undecided
  <2>3. QED BY <1>0, <1>2, <2>1, <2>2, RefusalFact, MessageStep DEF Sort, JobSteps, Answers
<1>3. CASE Sort(m) /\ Refusal(m) = "NONE"
  <2> DEFINE next == IF HasMedia(m) THEN "media" ELSE "create"
  <2>1. Step(next, inbound[m], told[m])
    BY <1>3 DEF Sort, Goes
  <2>2. Followed(m)' /\ Told(m)'
    BY <1>0, <1>3, <2>1 DEF Sort, Followed, Told, Unsaid, Unfiled, Undecided
  <2>3. next \in JobSteps
    BY DEF JobSteps
  <2>4. QED BY <1>0, <1>3, <2>1, <2>2, <2>3, MessageStep DEF Sort
<1>4. CASE Ignore(m)
  <2>1. Step("none", "IGNORED", told[m])
    BY <1>4 DEF Ignore, Mark, Goes
  <2>2. Followed(m)' /\ Told(m)'
    BY <1>0, <1>4, <2>1 DEF Ignore, Followed, Told, Unsaid, Unfiled, Undecided
  <2>3. QED BY <1>0, <1>4, <2>1, <2>2, MessageStep DEF Ignore, JobSteps, Marks
<1>5. CASE Fetch(m)
  <2>1. \/ Step("create", inbound[m], told[m])
        \/ Step("giveUp", inbound[m], Said("failed"))
    BY <1>5 DEF Fetch, Tell, Goes
  <2>2. Followed(m)' /\ Told(m)'
    BY <1>0, <1>5, <2>1 DEF Fetch, Followed, Told, Unsaid, Unfiled, Undecided
  <2>3. QED BY <1>0, <1>5, <2>1, <2>2, MessageStep DEF Fetch, JobSteps, Answers
<1>6. CASE GiveUp(m)
  <2>1. Step("none", "FAILED", told[m])
    BY <1>6 DEF GiveUp, Mark, Goes
  <2>2. Followed(m)' /\ Told(m)'
    BY <1>0, <1>6, <2>1 DEF GiveUp, Followed, Told, Unsaid, Unfiled, Undecided
  <2>3. QED BY <1>0, <1>6, <2>1, <2>2, MessageStep DEF GiveUp, JobSteps, Marks
<1>7. CASE Process(m)
  <2>1. Step("confirm", "PROCESSED", told[m])
    BY <1>7 DEF Process, Mark, Goes
  <2>2. Followed(m)' /\ Told(m)'
    BY <1>0, <1>7, <2>1 DEF Process, Followed, Told, Unsaid, Unfiled, Undecided
  <2>3. UNCHANGED <<voice, report, marked, desk, faults>>
    BY <1>7 DEF Process
  <2>4. "confirm" \in JobSteps /\ "PROCESSED" \in Marks
    BY DEF JobSteps, Marks
  <2>5. QED BY <1>0, <2>1, <2>2, <2>3, <2>4, MessageStep
<1>8. CASE Confirm(m)
  <2>1. Step("none", inbound[m], Said("logged"))
    BY <1>8 DEF Confirm, Tell, Goes
  <2>2. Followed(m)' /\ Told(m)'
    BY <1>0, <1>8, <2>1 DEF Confirm, Followed, Told, Unsaid, Unfiled, Undecided
  <2>3. QED BY <1>0, <1>8, <2>1, <2>2, MessageStep DEF Confirm, JobSteps, Answers
<1>9. CASE Throw(m)
  <2>1. \/ Step("recover", inbound[m], told[m]) /\ job[m] # "recover"
        \/ Step("none", inbound[m], told[m])
    BY <1>9 DEF Throw, Goes
  <2>2. Followed(m)' /\ Told(m)'
    BY <1>0, <1>9, <2>1 DEF Throw, Followed, Told, Unsaid, Unfiled, Undecided
  <2>3. faults' \in Nat /\ faults' # 0
    BY <1>9 DEF Throw
  <2>4. QED BY <1>0, <1>9, <2>1, <2>2, <2>3, MessageStep DEF Throw, JobSteps
<1>10. CASE Recover(m)
  <2>1. Step("deny", "FAILED", told[m])
    BY <1>10 DEF Recover, Mark, Goes
  <2>2. Followed(m)' /\ Told(m)'
    BY <1>0, <1>10, <2>1 DEF Recover, Followed, Told, Unsaid, Unfiled, Undecided
  <2>3. QED BY <1>0, <1>10, <2>1, <2>2, MessageStep DEF Recover, JobSteps, Marks
<1>11. CASE Deny(m)
  <2>1. Step("none", inbound[m], Said("failed"))
    BY <1>11 DEF Deny, Tell, Goes
  <2>2. Followed(m)' /\ Told(m)'
    BY <1>0, <1>11, <2>1 DEF Deny, Followed, Told, Unsaid, Unfiled, Undecided
  <2>3. QED BY <1>0, <1>11, <2>1, <2>2, MessageStep DEF Deny, JobSteps, Answers
<1>12. QED BY <1>1, <1>2, <1>3, <1>4, <1>5, <1>6, <1>7, <1>8, <1>9, <1>10, <1>11

-----------------------------------------------------------------------------
(* Reports.                                                                *)

\* What filing x does to the rows, the recordings and the passes.
LEMMA FileFact ==
    ASSUME IInv, NEW x \in Origins, File(x)
    PROVE  /\ report[x] = NoReport /\ voice[x] = "none"
           /\ report'[x] \in Filed /\ report'[x] # NoReport
           /\ report' = [report EXCEPT ![x] = report'[x]]
           /\ voice' = [voice EXCEPT ![x] = IF "audio" \in Has[x] THEN "queued" ELSE "none"]
           /\ marked \subseteq marked' /\ marked' \subseteq Origins
           /\ report'[x].urgent => ~Deferred(x) /\ x \in marked'
<1> DEFINE urgent == ~Deferred(x) /\ x \in Urgent
<1> DEFINE row == [status |-> IF x \in ByWard THEN "ESCALATED" ELSE "OPEN", urgent |-> urgent,
                   words |-> IF "words" \in Has[x] THEN "given" ELSE "placeholder"]
<1>1. /\ report[x] = NoReport /\ report' = [report EXCEPT ![x] = row]
      /\ voice' = IF "audio" \in Has[x] THEN [voice EXCEPT ![x] = "queued"] ELSE voice
      /\ marked' = marked \/ marked' = marked \cup {x}
      /\ urgent => x \in marked'
  BY DEF File, AskPass
<1>2. urgent \in BOOLEAN /\ row \in Filed /\ row.words # "NONE" /\ (row.urgent => urgent)
  BY DEF Filed, Decisions, Wordings
<1> HIDE DEF urgent, row
<1>3. report'[x] = row /\ report' = [report EXCEPT ![x] = report'[x]]
  BY <1>1 DEF IInv, IntakeTypeOK
<1>4. row # NoReport
  BY <1>2 DEF NoReport
<1>5. voice[x] = "none"
  BY <1>1 DEF IInv, InProgress
<1>6. voice' = [voice EXCEPT ![x] = IF "audio" \in Has[x] THEN "queued" ELSE "none"]
  BY <1>1, <1>5 DEF IInv, IntakeTypeOK
<1>7. row.urgent => ~Deferred(x) /\ x \in marked'
  BY <1>1, <1>2 DEF urgent
<1>8. marked \subseteq marked' /\ marked' \subseteq Origins
  BY <1>1 DEF IInv, IntakeTypeOK
<1>9. QED BY <1>1, <1>2, <1>3, <1>4, <1>5, <1>6, <1>7, <1>8

LEMMA FileKeeps ==
    ASSUME IInv, NEW x \in Origins, File(x), UNCHANGED <<inbound, told, desk, faults>>,
           job' \in [Messages -> JobSteps]
    PROVE  IntakeTypeOK' /\ InProgress' /\ \A y \in Origins : Heard(y)'
<1> USE FileFact
<1>1. IntakeTypeOK'
  BY DEF IInv, IntakeTypeOK, VoiceSteps
<1>2. InProgress'
  BY DEF IInv, IntakeTypeOK, InProgress
<1>3. \A y \in Origins \ {x} : Heard(y)'
  BY DEF IInv, IntakeTypeOK, Heard
<1>4. Heard(x)'
  BY DEF IInv, IntakeTypeOK, Heard, Deferred
<1>5. QED BY <1>1, <1>2, <1>3, <1>4

LEMMA CreateInv ==
    ASSUME IInv, NEW m \in Messages, Create(m) PROVE IInv'
<1> USE MessagesFile DEF IInv
<1> DEFINE next == IF "words" \in Has[m] /\ "audio" \notin Has[m] THEN "classify" ELSE "link"
<1>1. /\ job[m] = "create" /\ File(m) /\ job' = [job EXCEPT ![m] = next]
      /\ UNCHANGED <<inbound, told, desk, faults>>
  BY DEF Create, Goes
<1>2. next \in {"classify", "link"} /\ (next = "classify" => "audio" \notin Has[m])
  OBVIOUS
<1> HIDE DEF next
<1>3. job' \in [Messages -> JobSteps]
  BY <1>1, <1>2 DEF IntakeTypeOK, JobSteps
<1>4. IntakeTypeOK' /\ InProgress' /\ \A y \in Origins : Heard(y)'
  BY <1>1, <1>3, FileKeeps
<1>5. \A k \in Messages \ {m} : Followed(k)' /\ Told(k)'
  BY <1>1, FileFact DEF IntakeTypeOK, Followed, Told
<1>6. Followed(m)' /\ Told(m)'
  BY <1>1, <1>2, FileFact DEF IntakeTypeOK, Followed, Told, Unsaid, Unfiled, Undecided
<1>7. QED BY <1>4, <1>5, <1>6

LEMMA ClassifyInv ==
    ASSUME IInv, NEW m \in Messages, Classify(m) PROVE IInv'
<1> USE MessagesFile DEF IInv
<1>1. /\ job[m] = "classify" /\ job' = [job EXCEPT ![m] = "link"]
      /\ \/ report' = [report EXCEPT ![m].urgent = m \in Urgent, ![m].words = "summary"]
         \/ UNCHANGED report
      /\ UNCHANGED <<inbound, told, voice, marked, desk, faults>>
  BY DEF Classify, Goes
<1>2. report[m] \in Filed /\ "audio" \notin Has[m] /\ m \notin Forms
  BY <1>1, FormsAreNoMessages DEF IntakeTypeOK, Followed
<1>3. /\ report'[m] \in Filed /\ report' = [report EXCEPT ![m] = report'[m]]
      /\ report'[m] # NoReport
  <2>1. \A r \in Filed, b \in BOOLEAN : [r EXCEPT !.urgent = b, !.words = "summary"] \in Filed
    BY DEF Filed, Wordings
  <2>2. \A r \in Filed : r # NoReport
    BY DEF Filed, Wordings, NoReport
  <2>3. report' = [report EXCEPT ![m] = report'[m]]
    BY <1>1, <1>2 DEF IntakeTypeOK
  <2>4. [report[m] EXCEPT !.urgent = m \in Urgent, !.words = "summary"] \in Filed
    <3>1. (m \in Urgent) \in BOOLEAN
      OBVIOUS
    <3>2. QED BY <1>2, <2>1, <3>1, Zenon
  <2>5. \/ report'[m] = [report[m] EXCEPT !.urgent = m \in Urgent, !.words = "summary"]
        \/ report'[m] = report[m]
    BY <1>1, ZenonT(30) DEF IntakeTypeOK
  <2>6. report'[m] \in Filed
    BY <1>2, <2>4, <2>5, Zenon
  <2>7. QED BY <2>2, <2>3, <2>6
<1>4. IntakeTypeOK'
  BY <1>1, <1>3 DEF IntakeTypeOK, JobSteps
<1>5. InProgress'
  BY <1>1, <1>3 DEF IntakeTypeOK, InProgress
<1>6. \A x \in Origins : Heard(x)'
  BY <1>1, <1>2, <1>3 DEF IntakeTypeOK, Heard
<1>7. \A k \in Messages \ {m} : Followed(k)' /\ Told(k)'
  BY <1>1, <1>3 DEF IntakeTypeOK, Followed, Told
<1>8. Followed(m)' /\ Told(m)'
  BY <1>1, <1>3 DEF IntakeTypeOK, Followed, Told, Unsaid, Unfiled, Undecided
<1>9. QED BY <1>4, <1>5, <1>6, <1>7, <1>8

\* A step of the recording x, which changes the words or the urgency of its report at most.
LEMMA VoiceStep ==
    ASSUME IInv, NEW x \in Origins, NEW next \in VoiceSteps, voice[x] # "none",
           voice' = [voice EXCEPT ![x] = next], NEW row \in Filed,
           report' = [report EXCEPT ![x] = row],
           UNCHANGED <<inbound, told, job, desk>>, marked' \in {marked, marked \cup {x}},
           faults' \in Nat, faults' = 0 => faults = 0, Heard(x)'
    PROVE  IInv'
<1> USE DEF IInv
<1>1. report[x] # NoReport /\ row # NoReport
  BY DEF InProgress, Filed, Decisions, NoReport
<1>2. IntakeTypeOK'
  BY DEF IntakeTypeOK
<1>3. InProgress'
  BY <1>1 DEF IntakeTypeOK, InProgress
<1>4. \A y \in Origins \ {x} : Heard(y)'
  BY DEF IntakeTypeOK, Heard
<1>5. \A y \in Origins : (report'[y] = NoReport) = (report[y] = NoReport)
  <2>1. report'[x] # NoReport /\ \A y \in Origins \ {x} : report'[y] = report[y]
    BY <1>1 DEF IntakeTypeOK
  <2>2. QED BY <1>1, <2>1
<1>6. QED BY <1>2, <1>3, <1>4, <1>5, ReportStep

\* A row with other words and another urgency is a row.
LEMMA Rewritten ==
    ASSUME NEW row \in Filed, NEW words \in Wordings, NEW P, P \in BOOLEAN
    PROVE  /\ [row EXCEPT !.urgent = P, !.words = words] \in Filed
           /\ [row EXCEPT !.words = words] \in Filed
           /\ [row EXCEPT !.urgent = P, !.words = words].urgent = P
           /\ [row EXCEPT !.words = words].urgent = row.urgent
BY DEF Filed

LEMMA TranscribeInv ==
    ASSUME IInv, NEW x \in Origins, Transcribe(x) \/ VoiceError(x) PROVE IInv'
<1> USE DEF IInv
<1>0. voice[x] # "none" /\ report[x] \in Filed /\ "summary" \in Wordings /\ "failed" \in Wordings
  BY DEF Transcribe, Listen, StoreTranscript, AlertTriage, StoreFailure, VoiceError, InProgress,
         IntakeTypeOK, Wordings
<1>1. CASE Listen(x)
  <2>1. PICK next \in {"heard", "unheard"} : voice' = [voice EXCEPT ![x] = next]
    BY <1>1 DEF Listen
  <2>2. report' = [report EXCEPT ![x] = report[x]] /\ Heard(x)'
    BY <1>1, <2>1 DEF Listen, Heard, IntakeTypeOK
  <2>3. QED BY <1>0, <1>1, <2>1, <2>2, VoiceStep DEF Listen, VoiceSteps, IntakeTypeOK
<1>2. CASE StoreTranscript(x)
  <2> DEFINE row == [report[x] EXCEPT !.urgent = x \in Urgent, !.words = "summary"]
  <2> DEFINE next == IF x \in Urgent THEN "alert" ELSE "none"
  <2>1. /\ voice[x] = "heard" /\ voice' = [voice EXCEPT ![x] = next]
        /\ report' = [report EXCEPT ![x].urgent = x \in Urgent, ![x].words = "summary"]
        /\ UNCHANGED <<inbound, told, job, marked, desk, faults>>
    BY <1>2 DEF StoreTranscript
  <2>2. report' = [report EXCEPT ![x] = row]
    BY <2>1, ZenonT(30) DEF IntakeTypeOK
  <2>3. row \in Filed /\ (row.urgent => x \in Urgent)
    <3>1. (x \in Urgent) \in BOOLEAN
      OBVIOUS
    <3>2. \A b \in BOOLEAN :
             LET r == [report[x] EXCEPT !.urgent = b, !.words = "summary"]
             IN  r \in Filed /\ (r.urgent => b)
      BY <1>0, Rewritten
    <3>3. QED BY <3>1, <3>2, Zenon
  <2>4. next \in VoiceSteps /\ next \in {"alert", "none"} /\ (x \in Urgent => next = "alert")
    BY DEF VoiceSteps
  <2>5. row.urgent => next = "alert"
    BY <2>3, <2>4, Zenon
  <2> HIDE DEF row, next
  <2>6. Heard(x)'
    BY <2>1, <2>2, <2>4, <2>5 DEF Heard, IntakeTypeOK
  <2>7. QED BY <1>0, <2>1, <2>2, <2>3, <2>4, <2>6, VoiceStep DEF IntakeTypeOK
<1>3. CASE AlertTriage(x)
  <2>1. /\ voice' = [voice EXCEPT ![x] = "none"] /\ marked' = marked \cup {x}
        /\ report' = [report EXCEPT ![x] = report[x]]
        /\ UNCHANGED <<inbound, told, job, desk, faults>>
    BY <1>3 DEF AlertTriage, AskPass, IntakeTypeOK
  <2>2. Heard(x)'
    BY <2>1 DEF Heard, IntakeTypeOK
  <2>3. QED BY <1>0, <2>1, <2>2, VoiceStep DEF VoiceSteps, IntakeTypeOK
<1>4. CASE StoreFailure(x)
  <2> DEFINE row == [report[x] EXCEPT !.words = "failed"]
  <2>1. /\ voice[x] = "unheard" /\ voice' = [voice EXCEPT ![x] = "none"]
        /\ report' = [report EXCEPT ![x] = row]
        /\ UNCHANGED <<inbound, told, job, marked, desk, faults>>
    BY <1>4 DEF StoreFailure, IntakeTypeOK
  <2>2. row \in Filed /\ row.urgent = report[x].urgent
    BY <1>0, Rewritten
  <2> HIDE DEF row
  <2>3. Heard(x)'
    BY <2>1, <2>2 DEF Heard, IntakeTypeOK
  <2>4. QED BY <1>0, <2>1, <2>2, <2>3, VoiceStep DEF VoiceSteps, IntakeTypeOK
<1>5. CASE VoiceError(x)
  <2> DEFINE next == IF voice[x] = "heard" THEN "unheard" ELSE "none"
  <2>1. /\ voice' = [voice EXCEPT ![x] = next] /\ faults' = faults + 1
        /\ report' = [report EXCEPT ![x] = report[x]]
        /\ UNCHANGED <<inbound, told, job, marked, desk>>
    BY <1>5 DEF VoiceError, IntakeTypeOK
  <2>2. next \in VoiceSteps
    BY DEF VoiceSteps
  <2> HIDE DEF next
  <2>3. faults' \in Nat /\ faults' # 0
    BY <2>1 DEF IntakeTypeOK
  <2>4. Heard(x)'
    BY <2>3 DEF Heard
  <2>5. QED BY <1>0, <2>1, <2>2, <2>3, <2>4, VoiceStep DEF IntakeTypeOK
<1>6. QED BY <1>1, <1>2, <1>3, <1>4, <1>5 DEF Transcribe

LEMMA SubmitInv ==
    ASSUME IInv, NEW x \in Origins, SubmitReport(x) PROVE IInv'
<1> USE MessagesFile DEF IInv
<1>1. x \in Forms /\ File(x) /\ UNCHANGED <<inbound, told, job, desk, faults>>
  BY DEF SubmitReport
<1>2. IntakeTypeOK' /\ InProgress' /\ \A y \in Origins : Heard(y)'
  BY <1>1, FileKeeps DEF IntakeTypeOK
<1>3. \A m \in Messages : report'[m] = report[m]
  BY <1>1, FileFact, FormsAreNoMessages DEF IntakeTypeOK
<1>4. \A m \in Messages : Followed(m)' /\ Told(m)'
  BY <1>1, <1>3 DEF Followed, Told
<1>5. QED BY <1>2, <1>4

-----------------------------------------------------------------------------
(* Officers, and the process.                                              *)

LEMMA OpenInv ==
    ASSUME IInv, NEW o \in Officers, NEW x \in Origins, NEW ward \in BOOLEAN,
           NEW to \in Decisions, Open(o, x, ward, to)
    PROVE  IInv'
<1> USE DEF IInv
<1>1. IntakeTypeOK'
  BY DEF Open, IntakeTypeOK
<1>2. InProgress'
  BY DEF Open, InProgress, IntakeTypeOK
<1>3. \A y \in Origins : Heard(y)'
  BY DEF Open, Heard
<1>4. QED BY <1>1, <1>2, <1>3, ReportStep DEF Open

LEMMA DecideInv ==
    ASSUME IInv, NEW o \in Officers, NEW x \in Origins, Decide(o, x) PROVE IInv'
<1> USE DEF IInv
<1> DEFINE row == [report[x] EXCEPT !.status = desk[o].to]
<1>1. /\ desk[o].of = {x} /\ report' = [report EXCEPT ![x] = row]
      /\ marked' \in {marked, marked \cup {x}} /\ desk' = [desk EXCEPT ![o] = NoVisit]
      /\ UNCHANGED <<inbound, told, job, voice, faults>>
  BY DEF Decide, AskPass, IntakeTypeOK
<1>2. report[x] # NoReport /\ report[x] \in Filed /\ desk[o].to \in Decisions
  BY <1>1 DEF InProgress, IntakeTypeOK
<1>3. row \in Filed /\ row.urgent = report[x].urgent
  BY <1>2 DEF Filed
<1> HIDE DEF row
<1>4. row # NoReport
  BY <1>3 DEF Filed, Decisions, NoReport
<1>5. IntakeTypeOK'
  BY <1>1, <1>3 DEF IntakeTypeOK, NoVisit
<1>6. InProgress'
  BY <1>1, <1>4 DEF InProgress, IntakeTypeOK, NoVisit
<1>7. \A y \in Origins : Heard(y)'
  BY <1>1, <1>3 DEF Heard, IntakeTypeOK
<1>8. \A y \in Origins : (report'[y] = NoReport) = (report[y] = NoReport)
  <2>1. report'[x] # NoReport /\ \A y \in Origins \ {x} : report'[y] = report[y]
    BY <1>1, <1>4 DEF IntakeTypeOK
  <2>2. QED BY <1>2, <2>1
<1>9. QED BY <1>1, <1>5, <1>6, <1>7, <1>8, ReportStep

LEMMA CrashInv == ASSUME IInv, Crash PROVE IInv'
<1> USE MessagesFile DEF IInv
<1>1. IntakeTypeOK'
  BY DEF Crash, IntakeTypeOK, NoVisit, JobSteps, VoiceSteps
<1>2. InProgress'
  BY DEF Crash, InProgress, NoVisit
<1>3. \A m \in Messages : Followed(m)' /\ Told(m)'
  BY DEF Crash, Followed, Told, Unsaid, Unfiled, Undecided
<1>4. \A x \in Origins : Heard(x)'
  BY DEF Crash, Heard, IntakeTypeOK
<1>5. QED BY <1>1, <1>2, <1>3, <1>4

LEMMA StutterInv == ASSUME IInv, UNCHANGED intakeVars PROVE IInv'
BY DEF IInv, intakeVars, IntakeTypeOK, InProgress, Followed, Told, Heard

LEMMA NextInv == IInv /\ [IntakeNext]_intakeVars => IInv'
<1> SUFFICES ASSUME IInv, [IntakeNext]_intakeVars PROVE IInv'
  OBVIOUS
<1>1. ASSUME NEW m \in Messages, IngestWebhook(m) \/ InboundWork(m) \/ Throw(m) PROVE IInv'
  BY <1>1, QuietSteps, CreateInv, ClassifyInv DEF InboundWork
<1>2. ASSUME NEW x \in Origins, SubmitReport(x) \/ Transcribe(x) \/ VoiceError(x) PROVE IInv'
  BY <1>2, SubmitInv, TranscribeInv
<1>3. ASSUME NEW o \in Officers, NEW x \in Origins,
             \/ Decide(o, x)
             \/ \E ward \in BOOLEAN, to \in {"OPEN", "ESCALATED", "RESOLVED"} :
                   Open(o, x, ward, to)
      PROVE IInv'
  BY <1>3, DecideInv, OpenInv DEF Decisions
<1>4. QED BY <1>1, <1>2, <1>3, CrashInv, StutterInv DEF IntakeNext

-----------------------------------------------------------------------------
LEMMA Invariance == IntakeSpec => []IInv
BY InitInv, NextInv, PTL DEF IntakeSpec

LEMMA Reports == IInv => IntakeTypeOK
BY DEF IInv

\* Every variable of the intake stays within its type.
THEOREM IntakeTyped == IntakeSpec => []IntakeTypeOK
BY Invariance, Reports, PTL

LEMMA ToldTrue == IInv => AnswersAreTrue
BY DEF IInv, Told, AnswersAreTrue

\* What a sender was answered is so and stays so (whatsapp-inbound.service): "logged"
\* means a report and a processed message, a refusal that nothing was filed, and of a
\* processed message no failure was told, after any errors, crashes and repeated hooks.
THEOREM IntakeTellsTheTruth == IntakeSpec => []AnswersAreTrue
BY Invariance, ToldTrue, PTL

LEMMA HeardMarked == IInv => UrgentEarnsPass
BY DEF IInv, Heard, UrgentEarnsPass

\* An urgent report typed or spoken has asked the risk engine for a pass once its
\* recording has been dealt with, unless something failed (field-reports.service and the
\* voice worker).
THEOREM IntakeAsksForPass == IntakeSpec => []UrgentEarnsPass
BY Invariance, HeardMarked, PTL
-----------------------------------------------------------------------------
(***************************************************************************)
(* Proofs about Comparison: the many numbers of the command centre, the    *)
(* attention brief and the official pages belong together whatever the     *)
(* places, the sheets and the scans are.                                   *)
(***************************************************************************)

(***************************************************************************)
(* What the rows say.                                                      *)
(***************************************************************************)
Disputes == {"MISMATCH", "REPLACED", "UNREADABLE"}
Verdicts == Disputes \cup {"MATCH", "PENDING", "IREV_MISSING"}

Sheets == [client : Int, rival : Int]

EntryOK ==
    entry \in [Units -> [status : {"NONE", "SUBMITTED", "APPROVED", "REJECTED"},
                         votes : Sheets]]

Scans == [status : {"NONE", "FETCHED", "OCR_READY", "OCR_FAILED", "NOT_ON_IREV"},
          votes : Counts, sure : BOOLEAN, before : SUBSET Counts]

ScanOK == scan \in [Units -> Scans]

\* A verdict asks for a look exactly when it is a dispute, has at most one gap, and a
\* mismatch without a difference on the client's votes has no gap at all.
VerdictOK(c) ==
    /\ c.status \in Verdicts
    /\ (c.advice = "INVESTIGATE") <=> (c.status \in Disputes)
    /\ c.delta = {} \/ \E n \in Int : c.delta = {n}
    /\ c.status = "MISMATCH" => /\ c.severity \in High \cup Low
                                /\ c.differs \/ c.delta = {0}

\* Only a submitted row has a verdict.
CheckOK ==
    /\ DOMAIN check = Units
    /\ \A u \in Units : check[u] # NoCheck => Sent(u) /\ VerdictOK(check[u])

ComparisonIInv == EntryOK /\ ScanOK /\ CheckOK
\* What attachAttention adds makes a verdict of a status, an advice that fits it and a gap.
LEMMA AttentionMakesVerdict ==
    ASSUME NEW status \in Verdicts, NEW advice, NEW differs, NEW delta, NEW cast, NEW sure,
           (advice = "INVESTIGATE") <=> (status \in Disputes),
           delta = {} \/ \E n \in Int : delta = {n},
           status = "MISMATCH" => differs \/ delta = {0}
    PROVE  VerdictOK(WithAttention(status, advice, differs, delta, cast, sure))
<1>1. status = "MISMATCH" => Severity(status, Material(delta, cast), sure) \in High \cup Low
    BY DEF Severity, High, Low
<1>2. PICK c : c = WithAttention(status, advice, differs, delta, cast, sure) OBVIOUS
<1>3. /\ c.status = status /\ c.advice = advice /\ c.differs = differs /\ c.delta = delta
      /\ c.severity = Severity(status, Material(delta, cast), sure)
    BY <1>2 DEF WithAttention
<1> QED BY <1>1, <1>2, <1>3 DEF VerdictOK

\* The gap of two numbers is a number, and with no scan replaced and equal votes of the
\* client it is zero.
LEMMA PartyGap ==
    ASSUME NEW mine \in Sheets, NEW theirs \in Counts, NEW old \in Counts
    PROVE  LET d == PartyDelta(Diffs(mine, theirs), Diffs(old, theirs), mine, theirs)
           IN  /\ d[1] - d[2] \in Int
               /\ old = theirs => \/ Diffs(mine, theirs)["client"] # {}
                                  \/ d[1] - d[2] = 0
<1>1. \A a \in Sheets : Diffs(a, theirs)["client"]
          = IF a.client = theirs.client THEN {} ELSE {<<a.client, theirs.client>>}
    BY DEF Diffs
<1>2. old \in Sheets /\ theirs \in Sheets BY DEF Sheets, Counts
<1>3. mine.client \in Int /\ theirs.client \in Int /\ old.client \in Int
    BY <1>2 DEF Sheets
<1>4. \A x : (CHOOSE d \in {x} : TRUE) = x OBVIOUS
<1>5. CASE mine.client # theirs.client
    <2>1. Diffs(mine, theirs)["client"] = {<<mine.client, theirs.client>>} BY <1>1, <1>5
    <2>2. PartyDelta(Diffs(mine, theirs), Diffs(old, theirs), mine, theirs)
              = <<mine.client, theirs.client>>
        BY <2>1, <1>4 DEF PartyDelta
    <2> QED BY <2>1, <2>2, <1>3
<1>6. CASE mine.client = theirs.client /\ old.client # theirs.client
    <2>1. Diffs(mine, theirs)["client"] = {} BY <1>1, <1>6
    <2>2. Diffs(old, theirs)["client"] = {<<old.client, theirs.client>>} BY <1>1, <1>2, <1>6
    <2>3. PartyDelta(Diffs(mine, theirs), Diffs(old, theirs), mine, theirs)
              = <<old.client, theirs.client>>
        BY <2>1, <2>2, <1>4 DEF PartyDelta
    <2> QED BY <2>3, <1>3, <1>6
<1>7. CASE mine.client = theirs.client /\ old.client = theirs.client
    <2>1. Diffs(mine, theirs)["client"] = {} BY <1>1, <1>7
    <2>2. Diffs(old, theirs)["client"] = {} BY <1>1, <1>2, <1>7
    <2>3. PartyDelta(Diffs(mine, theirs), Diffs(old, theirs), mine, theirs)
              = <<mine.client, theirs.client>>
        BY <2>1, <2>2 DEF PartyDelta
    <2> QED BY <2>3, <1>3, <1>7
<1> QED BY <1>5, <1>6, <1>7

\* Every comparison gives a well-formed verdict.
LEMMA CompareIsVerdict ==
    ASSUME NEW mine \in Sheets, NEW s \in Scans
    PROVE  VerdictOK(CompareAgentToIrev(mine, s))
<1> DEFINE old == IF s.before = {} THEN s.votes ELSE CHOOSE v \in s.before : TRUE
           diffs == Diffs(mine, s.votes)
           d == PartyDelta(diffs, Diffs(old, s.votes), mine, s.votes)
           status == IF s.before # {} THEN "REPLACED"
                     ELSE IF mine = s.votes THEN "MATCH" ELSE "MISMATCH"
<1>1. old \in Counts /\ s.votes \in Counts BY DEF Scans
<1>2. CASE s.status \in {"NONE", "NOT_ON_IREV"}
    <2>1. CompareAgentToIrev(mine, s) = WithAttention("IREV_MISSING", "WAIT_IREV", FALSE, {}, 0, FALSE)
        BY <1>2 DEF CompareAgentToIrev, Unknown
    <2> QED BY <2>1, AttentionMakesVerdict DEF Verdicts, Disputes
<1>3. CASE s.status = "OCR_FAILED"
    <2>1. CompareAgentToIrev(mine, s)
              = WithAttention(IF s.before = {} THEN "UNREADABLE" ELSE "REPLACED", "INVESTIGATE",
                              FALSE, {}, 0, FALSE)
        BY <1>3 DEF CompareAgentToIrev, Unknown
    <2> QED BY <2>1, AttentionMakesVerdict DEF Verdicts, Disputes
<1>4. CASE s.status \in {"FETCHED", "OCR_READY"}
    <2>1. CompareAgentToIrev(mine, s)
              = WithAttention(status, IF status = "MATCH" THEN "ALIGNED" ELSE "INVESTIGATE",
                              diffs["client"] # {}, {d[1] - d[2]}, CastDelta(diffs), s.sure)
        BY <1>4 DEF CompareAgentToIrev
    <2>2. d[1] - d[2] \in Int
        BY <1>1, PartyGap
    <2>3. status = "MISMATCH" => \/ diffs["client"] # {}
                                 \/ d[1] - d[2] = 0
        BY <1>1, PartyGap
    <2>4. status \in {"REPLACED", "MATCH", "MISMATCH"} OBVIOUS
    <2> HIDE DEF d, diffs, status
    <2> QED BY <2>1, <2>2, <2>3, <2>4, AttentionMakesVerdict DEF Verdicts, Disputes
<1> QED BY <1>2, <1>3, <1>4 DEF Scans
LEMMA NothingYet == ComparisonInit => ComparisonIInv
<1> SUFFICES ASSUME ComparisonInit PROVE ComparisonIInv OBVIOUS
<1> USE DEF ComparisonInit
<1>1. NoFigures \in Sheets /\ NoFigures \in Counts BY DEF NoFigures, Sheets, Counts
<1>2. NoScan \in Scans BY <1>1 DEF NoScan, Scans
<1> QED BY <1>1, <1>2 DEF ComparisonIInv, EntryOK, ScanOK, CheckOK

\* What an agent or an officer does leaves every submitted row submitted.
LEMMA RowsStayWell ==
    ASSUME ComparisonIInv, NEW u \in Units,
           \/ \E votes \in Written[u] : WriteRow(u, votes)
           \/ \E status \in {"APPROVED", "REJECTED"} : ReviewRow(u, status)
    PROVE  ComparisonIInv'
<1> USE DEF ComparisonIInv, EntryOK
<1>1. UNCHANGED <<scan, check>> BY DEF WriteRow, ReviewRow
<1>2. EntryOK' /\ entry'[u].status \in Submitted /\ \A v \in Units : v # u => entry'[v] = entry[v]
    <2>1. CASE \E votes \in Written[u] : WriteRow(u, votes)
        <3>1. PICK votes \in Written[u] : WriteRow(u, votes) BY <2>1
        <3>2. votes \in Sheets BY VotesAreNumbers DEF Sheets
        <3>3. [status |-> "SUBMITTED", votes |-> votes].status = "SUBMITTED" OBVIOUS
        <3> QED BY <3>1, <3>2, <3>3 DEF WriteRow, Submitted
    <2>2. CASE \E status \in {"APPROVED", "REJECTED"} : ReviewRow(u, status)
        BY <2>2 DEF ReviewRow, Submitted
    <2> QED BY <2>1, <2>2
<1>3. CheckOK' BY <1>1, <1>2 DEF CheckOK, Sent, VerdictOK
<1>4. ScanOK' BY <1>1 DEF ScanOK
<1> QED BY <1>2, <1>3, <1>4

\* What the portal and the readers do touches the scans only.
LEMMA ScansStayWell ==
    ASSUME ComparisonIInv, NEW u \in Units,
           \/ Appear(u) \/ Withdraw(u) \/ CannotRead(u)
           \/ \E reading \in Scanned[u] : ReadSheet(u, reading)
    PROVE  ComparisonIInv'
<1> USE DEF ComparisonIInv, ScanOK
<1>1. UNCHANGED <<entry, check>> BY DEF Appear, Withdraw, CannotRead, ReadSheet
<1>2. NoScan \in Scans BY DEF NoScan, Scans, NoFigures, Counts
<1>3. scan[u] \in Scans OBVIOUS
<1>4. ScanOK'
    <2>1. CASE Appear(u)
        <3>1. Remembered(scan[u]) \in SUBSET Counts BY <1>3 DEF Remembered, Scans
        <3> QED BY <2>1, <3>1, <1>2 DEF Appear, Scans, NoScan
    <2>2. CASE Withdraw(u) BY <2>2, <1>2, <1>3 DEF Withdraw, Scans, NoScan
    <2>3. CASE CannotRead(u) BY <2>3, <1>3 DEF CannotRead, Scans
    <2>4. CASE \E reading \in Scanned[u] : ReadSheet(u, reading)
        <3>1. PICK reading \in Scanned[u] : ReadSheet(u, reading) BY <2>4
        <3>2. reading.votes \in Counts /\ reading.sure \in BOOLEAN BY VotesAreNumbers
        <3> QED BY <3>1, <3>2, <1>3 DEF ReadSheet, Scans
    <2> QED BY <2>1, <2>2, <2>3, <2>4
<1>5. EntryOK' BY <1>1 DEF EntryOK
<1>6. CheckOK' BY <1>1 DEF CheckOK, Sent, VerdictOK
<1> QED BY <1>4, <1>5, <1>6

\* A comparison writes a verdict on a submitted row.
LEMMA ChecksStayWell ==
    ASSUME ComparisonIInv, NEW u \in Units, Verify(u) \/ Postpone(u)
    PROVE  ComparisonIInv'
<1> USE DEF ComparisonIInv
<1>1. UNCHANGED <<entry, scan>> /\ Sent(u) BY DEF Verify, Postpone
<1>2. PICK c : check' = [check EXCEPT ![u] = c] /\ VerdictOK(c)
    <2>1. CASE Verify(u)
        <3>1. VerdictOK(CompareAgentToIrev(entry[u].votes, scan[u]))
            BY CompareIsVerdict DEF EntryOK, ScanOK
        <3> QED BY <2>1, <3>1 DEF Verify
    <2>2. CASE Postpone(u)
        <3>1. VerdictOK(PendingCheck)
            BY AttentionMakesVerdict DEF PendingCheck, Unknown, Verdicts, Disputes
        <3> QED BY <2>2, <3>1 DEF Postpone
    <2> QED BY <2>1, <2>2
<1>3. CheckOK' BY <1>1, <1>2 DEF CheckOK, Sent, VerdictOK
<1> QED BY <1>1, <1>3 DEF EntryOK, ScanOK

\* Every number of the pages is a number of well-formed rows: what is typed and read, and
\* the verdicts that irev-attention attaches to submitted rows only.
THEOREM ComparisonTyped == ComparisonSpec => []ComparisonIInv
<1>1. ComparisonIInv /\ [ComparisonNext]_comparisonVars => ComparisonIInv'
    <2> SUFFICES ASSUME ComparisonIInv, [ComparisonNext]_comparisonVars PROVE ComparisonIInv'
        OBVIOUS
    <2>1. CASE ComparisonNext BY <2>1, RowsStayWell, ScansStayWell, ChecksStayWell DEF ComparisonNext
    <2>2. CASE UNCHANGED comparisonVars
        BY <2>2 DEF comparisonVars, ComparisonIInv, EntryOK, ScanOK, CheckOK, Sent, VerdictOK
    <2> QED BY <2>1, <2>2
<1> QED BY <1>1, NothingYet, PTL DEF ComparisonSpec
-----------------------------------------------------------------------------
(***************************************************************************)
(* The numbers of a corpus count units: In says which.                     *)
(***************************************************************************)
Fields == {"total", "inecPublished", "campaignSubmitted", "overlapBoth", "inecOnly",
           "campaignOnly", "aligned", "mismatch", "investigate", "pending", "notChecked",
           "irevMissing", "unreadable", "replaced"}

In(f, u) ==
    \/ f = "total"
    \/ f = "inecPublished" /\ OnPortal(u)
    \/ f = "campaignSubmitted" /\ Sent(u)
    \/ f = "overlapBoth" /\ OnPortal(u) /\ Sent(u)
    \/ f = "inecOnly" /\ OnPortal(u) /\ ~Sent(u)
    \/ f = "campaignOnly" /\ ~OnPortal(u) /\ Sent(u)
    \/ f = "aligned" /\ Says(u, "MATCH")
    \/ f = "mismatch" /\ Says(u, "MISMATCH")
    \/ f = "investigate" /\ ToInvestigate(u)
    \/ f = "pending" /\ Says(u, "PENDING")
    \/ f = "notChecked" /\ Sent(u) /\ ~Checked(u)
    \/ f = "irevMissing" /\ Says(u, "IREV_MISSING")
    \/ f = "unreadable" /\ Says(u, "UNREADABLE")
    \/ f = "replaced" /\ Says(u, "REPLACED")

Of(f, units) == {u \in units : In(f, u)}

LEMMA CorpusCounts ==
    ASSUME NEW units
    PROVE  DOMAIN Corpus(units) = Fields /\ \A f \in Fields : Corpus(units)[f] = Cardinality(Of(f, units))
<1>1. DOMAIN Corpus(units) = Fields BY DEF Corpus, Fields
<1>2. Of("total", units) = units /\ Corpus(units)["total"] = Cardinality(units)
    BY DEF Of, In, Corpus
<1>3. Of("inecPublished", units) = {u \in units : OnPortal(u)}
      /\ Corpus(units)["inecPublished"] = Cardinality({u \in units : OnPortal(u)})
    BY DEF Of, In, Corpus
<1>4. Of("campaignSubmitted", units) = {u \in units : Sent(u)}
      /\ Corpus(units)["campaignSubmitted"] = Cardinality({u \in units : Sent(u)})
    BY DEF Of, In, Corpus
<1>5. Of("overlapBoth", units) = {u \in units : OnPortal(u) /\ Sent(u)}
      /\ Corpus(units)["overlapBoth"] = Cardinality({u \in units : OnPortal(u) /\ Sent(u)})
    BY DEF Of, In, Corpus
<1>6. Of("inecOnly", units) = {u \in units : OnPortal(u) /\ ~Sent(u)}
      /\ Corpus(units)["inecOnly"] = Cardinality({u \in units : OnPortal(u) /\ ~Sent(u)})
    BY DEF Of, In, Corpus
<1>7. Of("campaignOnly", units) = {u \in units : ~OnPortal(u) /\ Sent(u)}
      /\ Corpus(units)["campaignOnly"] = Cardinality({u \in units : ~OnPortal(u) /\ Sent(u)})
    BY DEF Of, In, Corpus
<1>8. Of("investigate", units) = {u \in units : ToInvestigate(u)}
      /\ Corpus(units)["investigate"] = Cardinality({u \in units : ToInvestigate(u)})
    BY DEF Of, In, Corpus
<1>9. Of("notChecked", units) = {u \in units : Sent(u) /\ ~Checked(u)}
      /\ Corpus(units)["notChecked"] = Cardinality({u \in units : Sent(u) /\ ~Checked(u)})
    BY DEF Of, In, Corpus
<1>10. Of("aligned", units) = {u \in units : Says(u, "MATCH")}
       /\ Corpus(units)["aligned"] = Cardinality({u \in units : Says(u, "MATCH")})
    BY DEF Of, In, Corpus
<1>11. Of("mismatch", units) = {u \in units : Says(u, "MISMATCH")}
       /\ Corpus(units)["mismatch"] = Cardinality({u \in units : Says(u, "MISMATCH")})
    BY DEF Of, In, Corpus
<1>12. Of("pending", units) = {u \in units : Says(u, "PENDING")}
       /\ Corpus(units)["pending"] = Cardinality({u \in units : Says(u, "PENDING")})
    BY DEF Of, In, Corpus
<1>13. Of("irevMissing", units) = {u \in units : Says(u, "IREV_MISSING")}
       /\ Corpus(units)["irevMissing"] = Cardinality({u \in units : Says(u, "IREV_MISSING")})
    BY DEF Of, In, Corpus
<1>14. Of("unreadable", units) = {u \in units : Says(u, "UNREADABLE")}
       /\ Corpus(units)["unreadable"] = Cardinality({u \in units : Says(u, "UNREADABLE")})
    BY DEF Of, In, Corpus
<1>15. Of("replaced", units) = {u \in units : Says(u, "REPLACED")}
       /\ Corpus(units)["replaced"] = Cardinality({u \in units : Says(u, "REPLACED")})
    BY DEF Of, In, Corpus
<1> QED BY <1>1, <1>2, <1>3, <1>4, <1>5, <1>6, <1>7, <1>8, <1>9, <1>10, <1>11, <1>12, <1>13,
           <1>14, <1>15 DEF Fields
-----------------------------------------------------------------------------
(***************************************************************************)
(* One row: what a unit counts as.                                         *)
(***************************************************************************)
LEMMA RowSays ==
    ASSUME ComparisonIInv, NEW u \in Units
    PROVE  /\ Checked(u) <=> \/ Says(u, "MATCH") \/ Says(u, "MISMATCH") \/ Says(u, "PENDING")
                             \/ Says(u, "IREV_MISSING") \/ Says(u, "UNREADABLE")
                             \/ Says(u, "REPLACED")
           /\ ToInvestigate(u) <=> \/ Says(u, "MISMATCH") \/ Says(u, "REPLACED")
                                   \/ Says(u, "UNREADABLE")
           /\ IsIrevQaMismatch(u) <=> ToInvestigate(u)
           /\ check[u] = NoCheck \/ Sent(u)
<1>1. check[u] # NoCheck => Sent(u) /\ VerdictOK(check[u]) BY DEF ComparisonIInv, CheckOK
<1>2. NoCheck.status = "NONE" BY DEF NoCheck
<1>3. CASE check[u] = NoCheck
    BY <1>2, <1>3 DEF Checked, Says, ToInvestigate, IsIrevQaMismatch
<1>4. CASE check[u] # NoCheck
    BY <1>1, <1>4 DEF Checked, Says, ToInvestigate, IsIrevQaMismatch, VerdictOK, Verdicts, Disputes
<1> QED BY <1>3, <1>4

LEMMA UnitsAreFinite ==
    ASSUME NEW units \in SUBSET Units, NEW f
    PROVE  /\ IsFiniteSet(units) /\ IsFiniteSet(Of(f, units))
           /\ f \in Fields => Corpus(units)[f] = Cardinality(Of(f, units)) /\ Corpus(units)[f] \in Nat
<1>1. IsFiniteSet(units) BY PlacesNest, FS_Subset
<1>2. Of(f, units) \in SUBSET units BY DEF Of
<1>3. IsFiniteSet(Of(f, units)) BY <1>1, <1>2, FS_Subset
<1> QED BY <1>1, <1>3, CorpusCounts, FS_CardinalityType

\* The numbers of a corpus belong together.
LEMMA CorpusAddsUp ==
    ASSUME ComparisonIInv, NEW units \in SUBSET Units
    PROVE  LET row == Corpus(units)
           IN  /\ row.inecPublished = row.overlapBoth + row.inecOnly
               /\ row.campaignSubmitted = row.overlapBoth + row.campaignOnly
               /\ row.campaignSubmitted = SummaryChecked(row) + row.notChecked
               /\ row.investigate = row.mismatch + row.replaced + row.unreadable
<1> DEFINE n(f) == Cardinality(Of(f, units))
           set(f) == Of(f, units)
<1>0. \A f \in Fields : Corpus(units)[f] = n(f) BY CorpusCounts
<1>f. \A f : IsFiniteSet(set(f)) BY UnitsAreFinite
<1>n. \A f : n(f) \in Nat BY <1>f, FS_CardinalityType
<1>s. \A u \in units : u \in Units OBVIOUS
<1>1. n("inecPublished") = n("overlapBoth") + n("inecOnly")
    <2>1. set("inecPublished") = set("overlapBoth") \cup set("inecOnly")
          /\ set("overlapBoth") \cap set("inecOnly") = {}
        BY DEF Of, In
    <2> QED BY <2>1, <1>f, TwoParts
<1>2. n("campaignSubmitted") = n("overlapBoth") + n("campaignOnly")
    <2>1. set("campaignSubmitted") = set("overlapBoth") \cup set("campaignOnly")
          /\ set("overlapBoth") \cap set("campaignOnly") = {}
        BY DEF Of, In
    <2> QED BY <2>1, <1>f, TwoParts
<1>3. n("investigate") = n("mismatch") + n("replaced") + n("unreadable")
    <2> DEFINE two == set("mismatch") \cup set("replaced")
    <2>1. set("mismatch") \cap set("replaced") = {} BY DEF Of, In, Says
    <2>2. two \cap set("unreadable") = {} BY DEF Of, In, Says
    <2>3. set("investigate") = two \cup set("unreadable") BY RowSays, <1>s DEF Of, In
    <2>4. IsFiniteSet(two) /\ Cardinality(two) = n("mismatch") + n("replaced")
        BY <2>1, <1>f, TwoParts
    <2> QED BY <2>2, <2>3, <2>4, <1>f, TwoParts
<1>4. n("campaignSubmitted") = n("aligned") + n("mismatch") + n("pending") + n("irevMissing")
                                   + n("unreadable") + n("replaced") + n("notChecked")
    <2> DEFINE a2 == set("aligned") \cup set("mismatch")
               a3 == a2 \cup set("pending")
               a4 == a3 \cup set("irevMissing")
               a5 == a4 \cup set("unreadable")
               a6 == a5 \cup set("replaced")
    <2>1. /\ set("aligned") \cap set("mismatch") = {} /\ a2 \cap set("pending") = {}
          /\ a3 \cap set("irevMissing") = {} /\ a4 \cap set("unreadable") = {}
          /\ a5 \cap set("replaced") = {}
        BY DEF Of, In, Says
    <2>2. a6 = {u \in units : Checked(u)} BY RowSays, <1>s DEF Of, In
    <2>3. a6 \cap set("notChecked") = {} /\ set("campaignSubmitted") = a6 \cup set("notChecked")
        BY <2>2 DEF Of, In, Checked
    <2>4. IsFiniteSet(a2) /\ Cardinality(a2) = n("aligned") + n("mismatch")
        BY <2>1, <1>f, TwoParts
    <2>5. IsFiniteSet(a3) /\ Cardinality(a3) = Cardinality(a2) + n("pending")
        BY <2>1, <2>4, <1>f, TwoParts
    <2>6. IsFiniteSet(a4) /\ Cardinality(a4) = Cardinality(a3) + n("irevMissing")
        BY <2>1, <2>5, <1>f, TwoParts
    <2>7. IsFiniteSet(a5) /\ Cardinality(a5) = Cardinality(a4) + n("unreadable")
        BY <2>1, <2>6, <1>f, TwoParts
    <2>8. IsFiniteSet(a6) /\ Cardinality(a6) = Cardinality(a5) + n("replaced")
        BY <2>1, <2>7, <1>f, TwoParts
    <2>9. n("campaignSubmitted") = Cardinality(a6) + n("notChecked")
        BY <2>3, <2>8, <1>f, TwoParts
    <2> HIDE DEF a2, a3, a4, a5, a6, n, set
    <2> QED BY <2>4, <2>5, <2>6, <2>7, <2>8, <2>9
<1> HIDE DEF n
<1> QED BY <1>0, <1>1, <1>2, <1>3, <1>4, <1>n DEF SummaryChecked, Fields
-----------------------------------------------------------------------------
(***************************************************************************)
(* Areas: a number of an area is the sum of the numbers of its parts.      *)
(***************************************************************************)

\* As a grid shows it, one row for each part.
LEMMA GridAddsUp ==
    ASSUME NEW area, NEW Ix, NEW whole \in SUBSET Units, Cuts(area, Ix, whole), NEW f \in Fields
    PROVE  Corpus(whole)[f]
               = SumOf(LAMBDA g : g.row[f], {[at |-> i, row |-> Corpus(area[i])] : i \in Ix})
<1> DEFINE rows == {[at |-> i, row |-> Corpus(area[i])] : i \in Ix}
           row == [i \in Ix |-> [at |-> i, row |-> Corpus(area[i])]]
           part == [g \in rows |-> Of(f, area[g.at])]
           n == [g \in rows |-> g.row[f]]
<1>1. IsFiniteSet(rows)
    <2>1. row \in Surjection(Ix, rows)
        <3>1. row \in [Ix -> rows] OBVIOUS
        <3>2. \A t \in rows : \E i \in Ix : row[i] = t OBVIOUS
        <3> QED BY <3>1, <3>2, Fun_IsSurj
    <2> QED BY <2>1, FS_Surjection DEF Cuts
<1>2. \A g \in rows : g.at \in Ix /\ g.row = Corpus(area[g.at]) /\ g = [at |-> g.at, row |-> g.row]
    OBVIOUS
<1>3. \A i \in Ix : \E g \in rows : g.at = i
    <2> SUFFICES ASSUME NEW i \in Ix PROVE \E g \in rows : g.at = i OBVIOUS
    <2>1. [at |-> i, row |-> Corpus(area[i])] \in rows OBVIOUS
    <2>2. [at |-> i, row |-> Corpus(area[i])].at = i OBVIOUS
    <2> QED BY <2>1, <2>2
<1> HIDE DEF rows, row
<1>4. IsFiniteSet(Of(f, whole)) BY UnitsAreFinite
<1>5. \A g \in rows : part[g] \subseteq Of(f, whole) /\ n[g] = Cardinality(part[g])
    <2> SUFFICES ASSUME NEW g \in rows
                 PROVE  Of(f, area[g.at]) \subseteq Of(f, whole) /\ g.row[f] = Cardinality(Of(f, area[g.at]))
        OBVIOUS
    <2>1. area[g.at] \in SUBSET whole BY <1>2 DEF Cuts
    <2> QED BY <2>1, <1>2, CorpusCounts DEF Of
<1>6. \A u \in Of(f, whole) : \E g \in rows : u \in part[g]
    <2> SUFFICES ASSUME NEW u \in Of(f, whole) PROVE \E g \in rows : u \in Of(f, area[g.at])
        OBVIOUS
    <2>1. PICK i \in Ix : u \in area[i] BY DEF Cuts, Of
    <2> QED BY <2>1, <1>3 DEF Of
<1>7. \A g, h \in rows : g # h => part[g] \cap part[h] = {}
    <2> SUFFICES ASSUME NEW g \in rows, NEW h \in rows, g # h
                 PROVE  Of(f, area[g.at]) \cap Of(f, area[h.at]) = {}
        OBVIOUS
    <2>1. g.at # h.at BY <1>2
    <2>2. area[g.at] \cap area[h.at] = {} BY <2>1, <1>2 DEF Cuts
    <2> QED BY <2>2 DEF Of
<1>8. Cardinality(Of(f, whole)) = SumOver(n, rows)
    <2> HIDE DEF part, n
    <2>1. Splits(part, n, rows, Of(f, whole)) BY <1>1, <1>4, <1>5, <1>6, <1>7 DEF Splits
    <2> QED BY <2>1, PartsAddUp
<1>9. {{g} \X (1 .. n[g]) : g \in rows} = {{g} \X (1 .. g.row[f]) : g \in rows} OBVIOUS
<1>10. Corpus(whole)[f] = Cardinality(Of(f, whole)) BY CorpusCounts
<1> QED BY <1>8, <1>9, <1>10 DEF SumOf, SumOver, rows
\* The units that make a part of the navigation urgent.
Gap(units) == {u \in units : In("investigate", u) \/ In("notChecked", u) \/ In("inecOnly", u)}

LEMMA GapCounts ==
    ASSUME ComparisonIInv, NEW units \in SUBSET Units
    PROVE  GapScore(Corpus(units)) = Cardinality(Gap(units))
<1> DEFINE n(f) == Cardinality(Of(f, units))
           set(f) == Of(f, units)
           two == set("investigate") \cup set("notChecked")
<1>0. \A f \in Fields : Corpus(units)[f] = n(f) BY CorpusCounts
<1>f. \A f : IsFiniteSet(set(f)) BY UnitsAreFinite
<1>1. set("investigate") \cap set("notChecked") = {} BY DEF Of, In, ToInvestigate
<1>2. two \cap set("inecOnly") = {} BY DEF Of, In, ToInvestigate, Checked
<1>3. Gap(units) = two \cup set("inecOnly") BY DEF Gap, Of
<1>4. IsFiniteSet(two) /\ Cardinality(two) = n("investigate") + n("notChecked")
    BY <1>1, <1>f, TwoParts
<1>5. Cardinality(Gap(units)) = n("investigate") + n("notChecked") + n("inecOnly")
    BY <1>2, <1>3, <1>4, <1>f, TwoParts
<1> HIDE DEF n
<1> QED BY <1>0, <1>5 DEF GapScore, Fields

GapsOf(n, area, Ix) == \A i \in Ix : n[i] = GapScore(Corpus(area[i]))

LEMMA GapAddsUp ==
    ASSUME ComparisonIInv, NEW area, NEW Ix, NEW whole \in SUBSET Units,
           Cuts(area, Ix, whole), NEW n, GapsOf(n, area, Ix)
    PROVE  GapScore(Corpus(whole)) = SumOver(n, Ix)
<1>1. \A i \in Ix : area[i] \in SUBSET Units BY DEF Cuts
<1>2. \A i \in Ix : n[i] = Cardinality(Gap(area[i])) BY <1>1, GapCounts DEF GapsOf
<1>3. \A i \in Ix : Gap(area[i]) = Gap(Units) \cap area[i] BY <1>1 DEF Gap
<1>4. Gap(whole) = Gap(Units) \cap whole BY DEF Gap
<1>5. CountsOf(n, Gap(Units), area, Ix) BY <1>2, <1>3 DEF CountsOf
<1>6. Cardinality(Gap(Units) \cap whole) = SumOver(n, Ix) BY <1>5, CountAddsUp
<1> QED BY <1>4, <1>6, GapCounts
\* The state is cut into its LGAs, any wards into their units' areas, a ward into its units.
LgaArea == [l \in LGAsHere |-> LgaUnits(l)]

LEMMA WardUnitsAre ==
    ASSUME NEW wards \in SUBSET WardsHere
    PROVE  /\ WardUnits(wards) \in SUBSET Units
           /\ \A u : u \in WardUnits(wards) <=> \E w \in wards : u \in UnitsIn[w]
           /\ Cuts(UnitsIn, wards, WardUnits(wards))
<1>1. \A w \in wards : w \in WardsHere /\ UnitsIn[w] \in SUBSET Units BY PlacesNest
<1>2. \A u : u \in WardUnits(wards) <=> \E w \in wards : u \in UnitsIn[w] BY DEF WardUnits
<1>3. WardUnits(wards) \in SUBSET Units BY <1>1, <1>2
<1>4. IsFiniteSet(wards) BY PlacesNest, FS_Subset
<1>5. \A w, v \in wards : w # v => UnitsIn[w] \cap UnitsIn[v] = {} BY <1>1, PlacesNest
<1>6. IsFiniteSet(WardUnits(wards)) BY <1>3, UnitsAreFinite
<1> QED BY <1>2, <1>3, <1>4, <1>5, <1>6 DEF Cuts

LEMMA StateIsUnits == WardUnits(WardsHere) = Units
<1>1. WardsHere \in SUBSET WardsHere OBVIOUS
<1>2. \A u : u \in WardUnits(WardsHere) <=> \E w \in WardsHere : u \in UnitsIn[w]
    BY <1>1, WardUnitsAre
<1>3. WardUnits(WardsHere) \in SUBSET Units BY <1>1, WardUnitsAre
<1>4. \A u \in Units : \E w \in WardsHere : u \in UnitsIn[w] BY PlacesNest
<1> QED BY <1>2, <1>3, <1>4

LEMMA LgasCut == Cuts(LgaArea, LGAsHere, Units)
<1>1. \A l \in LGAsHere : WardsOf[l] \in SUBSET WardsHere BY PlacesNest
<1>2. \A l \in LGAsHere : LgaArea[l] \in SUBSET Units
          /\ \A u : u \in LgaArea[l] <=> \E w \in WardsOf[l] : u \in UnitsIn[w]
    BY <1>1, WardUnitsAre DEF LgaArea, LgaUnits
<1>3. \A u \in Units : \E l \in LGAsHere : u \in LgaArea[l]
    <2> SUFFICES ASSUME NEW u \in Units PROVE \E l \in LGAsHere : u \in LgaArea[l] OBVIOUS
    <2>1. PICK w \in WardsHere : u \in UnitsIn[w] BY PlacesNest
    <2>2. PICK l \in LGAsHere : w \in WardsOf[l] BY PlacesNest
    <2> QED BY <2>1, <2>2, <1>2
<1>4. \A l, k \in LGAsHere : l # k => LgaArea[l] \cap LgaArea[k] = {}
    <2> SUFFICES ASSUME NEW l \in LGAsHere, NEW k \in LGAsHere, l # k,
                        NEW u \in LgaArea[l], u \in LgaArea[k]
                 PROVE  FALSE
        OBVIOUS
    <2>1. PICK w \in WardsOf[l] : u \in UnitsIn[w] BY <1>2
    <2>2. PICK v \in WardsOf[k] : u \in UnitsIn[v] BY <1>2
    <2>3. w \in WardsHere /\ v \in WardsHere BY <1>1
    <2>4. w = v BY <2>1, <2>2, <2>3, PlacesNest
    <2>5. WardsOf[l] \cap WardsOf[k] = {} BY PlacesNest
    <2> QED BY <2>4, <2>5
<1> QED BY <1>2, <1>3, <1>4, PlacesNest DEF Cuts

-----------------------------------------------------------------------------
(***************************************************************************)
(* ScreensAgree, conjunct by conjunct.                                     *)
(***************************************************************************)
LEMMA WardRowsAgree ==
    ComparisonIInv =>
        \A w \in WardsHere :
            LET row == Corpus(UnitsIn[w])
            IN  /\ row.inecPublished = row.overlapBoth + row.inecOnly
                /\ row.campaignSubmitted = row.overlapBoth + row.campaignOnly
                /\ row.campaignSubmitted = SummaryChecked(row) + row.notChecked
                /\ row.investigate = row.mismatch + row.replaced + row.unreadable
<1>1. \A w \in WardsHere : UnitsIn[w] \in SUBSET Units BY PlacesNest
<1> QED BY <1>1, CorpusAddsUp

LEMMA MapCounts ==
    ASSUME ComparisonIInv, NEW wards \in SUBSET WardsHere
    PROVE  MapMismatches(wards) = Corpus(WardUnits(wards)).investigate
<1>1. WardUnits(wards) \in SUBSET Units BY WardUnitsAre
<1>2. {u \in WardUnits(wards) : IsIrevQaMismatch(u)} = Of("investigate", WardUnits(wards))
    BY <1>1, RowSays DEF Of, In
<1> QED BY <1>2, CorpusCounts DEF MapMismatches, Fields

LEMMA MapAgrees ==
    ComparisonIInv =>
        /\ \A l \in LGAsHere :
              /\ MapMismatches(WardsOf[l]) = LgaGrid[l].investigate
              /\ \A w \in WardsOf[l] : MapMismatches({w}) = WardGrid(l)[w].investigate
        /\ RaceMismatches = StateGrid.investigate
<1> SUFFICES ASSUME ComparisonIInv
             PROVE  /\ \A l \in LGAsHere :
                          /\ MapMismatches(WardsOf[l]) = LgaGrid[l].investigate
                          /\ \A w \in WardsOf[l] : MapMismatches({w}) = WardGrid(l)[w].investigate
                    /\ RaceMismatches = StateGrid.investigate
    OBVIOUS
<1>1. ASSUME NEW l \in LGAsHere PROVE MapMismatches(WardsOf[l]) = LgaGrid[l].investigate
    <2>1. WardsOf[l] \in SUBSET WardsHere BY PlacesNest
    <2> QED BY <2>1, MapCounts DEF LgaGrid, LgaUnits
<1>2. ASSUME NEW l \in LGAsHere, NEW w \in WardsOf[l]
      PROVE  MapMismatches({w}) = WardGrid(l)[w].investigate
    <2>1. {w} \in SUBSET WardsHere BY PlacesNest
    <2>2. WardUnits({w}) = UnitsIn[w] BY DEF WardUnits
    <2> QED BY <2>1, <2>2, MapCounts DEF WardGrid
<1>3. RaceMismatches = MapMismatches(WardsHere)
    BY StateIsUnits DEF RaceMismatches, MapMismatches
<1>4. RaceMismatches = StateGrid.investigate
    <2>1. WardsHere \in SUBSET WardsHere OBVIOUS
    <2> QED BY <2>1, <1>3, MapCounts DEF StateGrid
<1> QED BY <1>1, <1>2, <1>4

LEMMA StateGridAddsUp ==
    LET state == StateGrid
        lgas == {[at |-> l, row |-> LgaGrid[l]] : l \in LGAsHere}
    IN  \A f \in DOMAIN state : state[f] = SumOf(LAMBDA g : g.row[f], lgas)
<1>1. StateGrid = Corpus(Units) BY StateIsUnits DEF StateGrid
<1>2. {[at |-> l, row |-> LgaGrid[l]] : l \in LGAsHere}
          = {[at |-> l, row |-> Corpus(LgaArea[l])] : l \in LGAsHere}
    BY DEF LgaGrid, LgaArea
<1>3. DOMAIN StateGrid = Fields BY <1>1, CorpusCounts
<1> QED BY <1>1, <1>2, <1>3, LgasCut, GridAddsUp

LEMMA LgaGridAddsUp ==
    \A l \in LGAsHere :
        LET lga == LgaGrid[l]
            wards == {[at |-> w, row |-> WardGrid(l)[w]] : w \in WardsOf[l]}
        IN  \A f \in DOMAIN lga : lga[f] = SumOf(LAMBDA g : g.row[f], wards)
<1> TAKE l \in LGAsHere
<1>1. LgaGrid[l] = Corpus(WardUnits(WardsOf[l])) BY DEF LgaGrid, LgaUnits
<1>2. {[at |-> w, row |-> WardGrid(l)[w]] : w \in WardsOf[l]}
          = {[at |-> w, row |-> Corpus(UnitsIn[w])] : w \in WardsOf[l]}
    BY DEF WardGrid
<1>3. DOMAIN LgaGrid[l] = Fields BY <1>1, CorpusCounts
<1>4. WardUnits(WardsOf[l]) \in SUBSET Units /\ Cuts(UnitsIn, WardsOf[l], WardUnits(WardsOf[l]))
    BY PlacesNest, WardUnitsAre
<1> QED BY <1>1, <1>2, <1>3, <1>4, GridAddsUp
\* Whoever looks at whatever part: the queue's units are the corpus's units.
LEMMA HomeIsHome ==
    ASSUME NEW w \in WardsHere PROVE HomeLga(w) \in LGAsHere /\ w \in WardsOf[HomeLga(w)]
    BY PlacesNest DEF HomeLga

\* What a page asks for is a place or none.
LEMMA AskedIsAPlace ==
    ASSUME NEW asked \in Requests
    PROVE  /\ asked.lga \in LGAsHere \cup {NoPlace} /\ asked.ward \in WardsHere \cup {NoPlace}
           /\ asked.ward # NoPlace => asked.lga # NoPlace
    BY HomeIsHome, PlacesNest DEF Requests

LEMMA ScopesMatch ==
    ASSUME NEW v \in Viewers, NEW asked \in Requests, v.level # "pu"
    PROVE  LET geo == GeoScope(v, asked)
           IN  /\ CorpusWards(geo) \in SUBSET WardsHere
               /\ ScopeUnits(v, geo) = WardUnits(CorpusWards(geo))
               /\ BrowseLevel(v, geo) = "lga" => CorpusWards(geo) = WardsHere
               /\ BrowseLevel(v, geo) = "ward" =>
                      geo.lga \in LGAsHere /\ CorpusWards(geo) = WardsOf[geo.lga]
<1> DEFINE geo == GeoScope(v, asked)
<1>0. \A l \in LGAsHere : WardsOf[l] \in SUBSET WardsHere BY PlacesNest
<1>1. \A w : WardUnits({w}) = UnitsIn[w] BY DEF WardUnits
<1>2. CASE \E w \in WardsHere : v = [level |-> "ward", at |-> w]
    <2>1. PICK w \in WardsHere : v = [level |-> "ward", at |-> w] BY <1>2
    <2>2. geo = [lga |-> HomeLga(w), ward |-> w] BY <2>1 DEF GeoScope
    <2>3. CorpusWards(geo) = {w} BY <2>2, HomeIsHome, PlacesNest DEF CorpusWards
    <2>4. ScopeUnits(v, geo) = UnitsIn[w] BY <2>1 DEF ScopeUnits
    <2>5. BrowseLevel(v, geo) = "pu" BY <2>1 DEF BrowseLevel
    <2> QED BY <2>3, <2>4, <2>5, <1>1
<1>3. CASE \E l \in LGAsHere : v = [level |-> "lga", at |-> l]
    <2>1. PICK l \in LGAsHere : v = [level |-> "lga", at |-> l] BY <1>3
    <2>2. geo = [lga |-> l, ward |-> asked.ward] BY <2>1 DEF GeoScope
    <2>3. l # NoPlace BY PlacesNest
    <2>4. CASE asked.ward = NoPlace
        <3>1. CorpusWards(geo) = WardsOf[l] BY <2>2, <2>3, <2>4 DEF CorpusWards
        <3>2. ScopeUnits(v, geo) = LgaUnits(l) BY <2>1, <2>2, <2>4 DEF ScopeUnits
        <3>3. BrowseLevel(v, geo) = "ward" BY <2>1, <2>2, <2>3, <2>4 DEF BrowseLevel
        <3> QED BY <3>1, <3>2, <3>3, <2>2, <1>0 DEF LgaUnits
    <2>5. CASE asked.ward # NoPlace
        <3>1. CorpusWards(geo) = {asked.ward} \cap WardsOf[l] BY <2>2, <2>3, <2>5 DEF CorpusWards
        <3>2. ScopeUnits(v, geo) = WardUnits({asked.ward} \cap WardsOf[l])
            BY <2>1, <2>2, <2>5 DEF ScopeUnits
        <3>3. BrowseLevel(v, geo) = "pu" BY <2>2, <2>5 DEF BrowseLevel
        <3> QED BY <3>1, <3>2, <3>3, <1>0
    <2> QED BY <2>4, <2>5
<1>4. CASE v = [level |-> "state", at |-> NoPlace]
    <2>1. geo = asked BY <1>4 DEF GeoScope
    <2>2. ScopeUnits(v, geo) = WardUnits(CorpusWards(geo)) BY <1>4 DEF ScopeUnits
    <2>3. CorpusWards(asked) \in SUBSET WardsHere BY AskedIsAPlace, <1>0 DEF CorpusWards
    <2>4. BrowseLevel(v, asked) = "lga" => asked.ward = NoPlace /\ asked.lga = NoPlace
        BY DEF BrowseLevel
    <2>5. BrowseLevel(v, asked) = "ward" => asked.ward = NoPlace /\ asked.lga # NoPlace
        BY DEF BrowseLevel
    <2>6. asked.ward = NoPlace /\ asked.lga = NoPlace => CorpusWards(asked) = WardsHere
        BY DEF CorpusWards
    <2>7. asked.ward = NoPlace /\ asked.lga # NoPlace =>
              asked.lga \in LGAsHere /\ CorpusWards(asked) = WardsOf[asked.lga]
        BY AskedIsAPlace DEF CorpusWards
    <2> QED BY <2>1, <2>2, <2>3, <2>4, <2>5, <2>6, <2>7
<1>5. \/ v = [level |-> "state", at |-> NoPlace]
      \/ \E l \in LGAsHere : v = [level |-> "lga", at |-> l]
      \/ \E w \in WardsHere : v = [level |-> "ward", at |-> w]
    BY DEF Viewers
<1> QED BY <1>2, <1>3, <1>4, <1>5

\* What the chips select, in terms of the corpus.
LEMMA QueueCounts ==
    ASSUME ComparisonIInv, NEW units \in SUBSET Units
    PROVE  LET row == Corpus(units)
               rows(filter) == Cardinality(QueueRows(filter, units))
           IN  /\ rows("ALL") = row.campaignSubmitted
               /\ rows("INVESTIGATE") = row.investigate
               /\ rows("AWAITING_IREV") = row.pending + row.irevMissing
               /\ rows("READABLE") = row.aligned + row.mismatch + row.replaced
               /\ rows("INEC_ONLY") = row.inecOnly /\ rows("BOTH_PRESENT") = row.overlapBoth
<1> DEFINE n(f) == Cardinality(Of(f, units))
           set(f) == Of(f, units)
           two == set("aligned") \cup set("mismatch")
<1>0. \A f \in Fields : Corpus(units)[f] = n(f) BY CorpusCounts
<1>f. \A f : IsFiniteSet(set(f)) BY UnitsAreFinite
<1>1. QueueRows("ALL", units) = set("campaignSubmitted") BY DEF QueueRows, Of, In
<1>2. QueueRows("INVESTIGATE", units) = set("investigate") BY DEF QueueRows, Of, In
<1>3. QueueRows("INEC_ONLY", units) = set("inecOnly") BY DEF QueueRows, InecOnlyRows, Of, In
<1>4. QueueRows("BOTH_PRESENT", units) = set("overlapBoth")
    BY DEF QueueRows, BothPresentRows, Of, In
<1>5. Cardinality(QueueRows("AWAITING_IREV", units)) = n("pending") + n("irevMissing")
    <2>1. QueueRows("AWAITING_IREV", units) = set("pending") \cup set("irevMissing")
          /\ set("pending") \cap set("irevMissing") = {}
        BY DEF QueueRows, Of, In, Says
    <2> QED BY <2>1, <1>f, TwoParts
<1>6. Cardinality(QueueRows("READABLE", units)) = n("aligned") + n("mismatch") + n("replaced")
    <2>1. set("aligned") \cap set("mismatch") = {} /\ two \cap set("replaced") = {}
        BY DEF Of, In, Says
    <2>2. QueueRows("READABLE", units) = two \cup set("replaced") BY DEF QueueRows, Of, In
    <2>3. IsFiniteSet(two) /\ Cardinality(two) = n("aligned") + n("mismatch")
        BY <2>1, <1>f, TwoParts
    <2> QED BY <2>1, <2>2, <2>3, <1>f, TwoParts
<1> HIDE DEF n
<1>7. \A f \in {"campaignSubmitted", "investigate", "pending", "irevMissing", "aligned",
               "mismatch", "replaced", "inecOnly", "overlapBoth"} : Corpus(units)[f] = n(f)
    BY <1>0 DEF Fields
<1> QED BY <1>1, <1>2, <1>3, <1>4, <1>5, <1>6, <1>7 DEF n
\* The rows of the navigation have the gaps of the page.
LEMMA NavAddsUp ==
    ASSUME ComparisonIInv, NEW v \in Viewers, NEW asked \in Requests, v.level # "pu",
           BrowseLevel(v, GeoScope(v, asked)) # "pu"
    PROVE  LET geo == GeoScope(v, asked)
               nav == GeoNav(v, geo)
           IN  GapScore(Corpus(WardUnits(CorpusWards(geo)))) = SumOver(nav, DOMAIN nav)
<1> PICK geo : geo = GeoScope(v, asked) OBVIOUS
<1>1. /\ BrowseLevel(v, geo) = "lga" => CorpusWards(geo) = WardsHere
      /\ BrowseLevel(v, geo) = "ward" => geo.lga \in LGAsHere /\ CorpusWards(geo) = WardsOf[geo.lga]
    BY ScopesMatch
<1>2. CASE BrowseLevel(v, geo) = "lga"
    <2> DEFINE nav == [l \in LGAsHere |-> GapScore(LgaGrid[l])]
    <2>1. GeoNav(v, geo) = nav BY <1>2 DEF GeoNav
    <2>2. GapsOf(nav, LgaArea, LGAsHere) BY DEF GapsOf, LgaArea, LgaGrid
    <2>3. DOMAIN nav = LGAsHere OBVIOUS
    <2> HIDE DEF nav
    <2>4. GapScore(Corpus(Units)) = SumOver(nav, LGAsHere) BY <2>2, LgasCut, GapAddsUp
    <2> QED BY <2>1, <2>3, <2>4, <1>1, <1>2, StateIsUnits
<1>3. CASE BrowseLevel(v, geo) = "ward"
    <2> DEFINE wards == WardsOf[geo.lga]
               nav == [w \in wards |-> GapScore(WardGrid(geo.lga)[w])]
    <2>0. wards \in SUBSET WardsHere BY <1>1, <1>3, PlacesNest
    <2>1. GeoNav(v, geo) = nav BY <1>3 DEF GeoNav
    <2>2. GapsOf(nav, UnitsIn, wards) BY DEF GapsOf, WardGrid
    <2>3. DOMAIN nav = wards OBVIOUS
    <2>5. CorpusWards(geo) = wards BY <1>1, <1>3
    <2> HIDE DEF nav, wards
    <2>4. GapScore(Corpus(WardUnits(wards))) = SumOver(nav, wards)
        BY <2>0, <2>2, WardUnitsAre, GapAddsUp
    <2> QED BY <2>1, <2>3, <2>4, <2>5
<1>4. BrowseLevel(v, geo) \in {"lga", "ward", "pu"} BY DEF BrowseLevel
<1> QED BY <1>2, <1>3, <1>4

LEMMA PagesAgree ==
    ComparisonIInv =>
        \A v \in Viewers, asked \in Requests :
            LET page == CommandCenter(v, asked)
                row == page.corpus
                rows(filter) == Cardinality(page.queue[filter])
            IN  v.level # "pu" =>
                   /\ rows("ALL") = row.campaignSubmitted
                   /\ rows("INVESTIGATE") = row.investigate
                   /\ rows("AWAITING_IREV") = row.pending + row.irevMissing
                   /\ rows("READABLE") = row.aligned + row.mismatch + row.replaced
                   /\ rows("INEC_ONLY") = row.inecOnly /\ rows("BOTH_PRESENT") = row.overlapBoth
                   /\ page.level # "pu" =>
                          GapScore(row) = SumOf(LAMBDA x : page.nav[x], DOMAIN page.nav)
<1> SUFFICES ASSUME ComparisonIInv, NEW v \in Viewers, NEW asked \in Requests, v.level # "pu"
             PROVE  LET page == CommandCenter(v, asked)
                        row == page.corpus
                        rows(filter) == Cardinality(page.queue[filter])
                    IN  /\ rows("ALL") = row.campaignSubmitted
                        /\ rows("INVESTIGATE") = row.investigate
                        /\ rows("AWAITING_IREV") = row.pending + row.irevMissing
                        /\ rows("READABLE") = row.aligned + row.mismatch + row.replaced
                        /\ rows("INEC_ONLY") = row.inecOnly /\ rows("BOTH_PRESENT") = row.overlapBoth
                        /\ page.level # "pu" =>
                               GapScore(row) = SumOf(LAMBDA x : page.nav[x], DOMAIN page.nav)
    OBVIOUS
<1> PICK geo : geo = GeoScope(v, asked) OBVIOUS
<1> PICK units : units = WardUnits(CorpusWards(geo)) OBVIOUS
<1> PICK page : page = CommandCenter(v, asked) OBVIOUS
<1>1. CorpusWards(geo) \in SUBSET WardsHere /\ ScopeUnits(v, geo) = units BY ScopesMatch
<1>2. units \in SUBSET Units BY <1>1, WardUnitsAre
<1>3. /\ page.corpus = Corpus(units) /\ page.level = BrowseLevel(v, geo)
      /\ page.nav = GeoNav(v, geo)
      /\ page.queue = [filter \in Chips |-> QueueRows(filter, units)]
    BY <1>1 DEF CommandCenter
<1>4. \A filter \in Chips : page.queue[filter] = QueueRows(filter, units) BY <1>3
<1>5. /\ page.queue["ALL"] = QueueRows("ALL", units)
      /\ page.queue["INVESTIGATE"] = QueueRows("INVESTIGATE", units)
      /\ page.queue["AWAITING_IREV"] = QueueRows("AWAITING_IREV", units)
      /\ page.queue["READABLE"] = QueueRows("READABLE", units)
      /\ page.queue["INEC_ONLY"] = QueueRows("INEC_ONLY", units)
      /\ page.queue["BOTH_PRESENT"] = QueueRows("BOTH_PRESENT", units)
    BY <1>4 DEF Chips
<1>6. page.level # "pu" => GapScore(page.corpus) = SumOver(page.nav, DOMAIN page.nav)
    BY <1>3, NavAddsUp
<1>7. SumOver(page.nav, DOMAIN page.nav) = SumOf(LAMBDA x : page.nav[x], DOMAIN page.nav)
    BY DEF SumOver, SumOf
<1> QED BY <1>2, <1>3, <1>5, <1>6, <1>7, QueueCounts

\* A seat's queue is within the corpus of the seat's page.
LEMMA SeatQueuesFit ==
    \A s \in DOMAIN SeatOf, asked \in Requests, l \in LGAsHere :
        SeatOf[s] \subseteq WardsOf[l] =>
            LET geo == SeatGeo(s, l, asked)
            IN  QueueRows("INVESTIGATE", SeatScopeUnits(s, geo))
                    \subseteq QueueRows("INVESTIGATE", WardUnits(CorpusWards(geo)))
<1> SUFFICES ASSUME NEW s \in DOMAIN SeatOf, NEW asked \in Requests, NEW l \in LGAsHere,
                    SeatOf[s] \subseteq WardsOf[l]
             PROVE  LET geo == SeatGeo(s, l, asked)
                    IN  QueueRows("INVESTIGATE", SeatScopeUnits(s, geo))
                            \subseteq QueueRows("INVESTIGATE", WardUnits(CorpusWards(geo)))
    OBVIOUS
<1> PICK geo : geo = SeatGeo(s, l, asked) OBVIOUS
<1>1. l # NoPlace /\ NoPlace \notin SeatOf[s] BY PlacesNest, SeatsNest
<1>2. geo.lga = l /\ geo.ward = IF asked.ward \in SeatOf[s] THEN asked.ward ELSE NoPlace
    BY <1>1 DEF SeatGeo
<1>3. (IF geo.ward = NoPlace THEN SeatOf[s] ELSE {geo.ward} \cap SeatOf[s]) \subseteq CorpusWards(geo)
    BY <1>1, <1>2 DEF CorpusWards
<1>4. SeatScopeUnits(s, geo) \subseteq WardUnits(CorpusWards(geo))
    BY <1>3 DEF SeatScopeUnits, WardUnits
<1> QED BY <1>4 DEF QueueRows

\* The numbers of the command centre agree with one another, on every page of every viewer.
THEOREM ScreensCorrect == ComparisonSpec => []ScreensAgree
<1>1. ComparisonIInv => ScreensAgree
    BY WardRowsAgree, MapAgrees, StateGridAddsUp, LgaGridAddsUp, PagesAgree, SeatQueuesFit
       DEF ScreensAgree
<1> QED BY <1>1, ComparisonTyped, PTL
-----------------------------------------------------------------------------
(***************************************************************************)
(* RiskCanBeFound.                                                         *)
(***************************************************************************)
Disputed == DisputedRows(Units)
Risky == {u \in Disputed : AtRisk(u)}

\* The votes a disputed row has over the scan.
OverOf == [u \in Units |-> IF u \in Disputed THEN Over(u) ELSE 0]

LEMMA DisputedAre ==
    ASSUME ComparisonIInv, NEW u \in Disputed
    PROVE  /\ u \in Units /\ Sent(u) /\ check[u] # NoCheck /\ VerdictOK(check[u])
           /\ check[u].status \in {"MISMATCH", "REPLACED"}
           /\ Over(u) \in Nat
<1>1. u \in Units /\ Sent(u) /\ check[u].status \in {"MISMATCH", "REPLACED"}
    BY DEF Disputed, DisputedRows, QueueRows, Says
<1>2. check[u] # NoCheck BY <1>1 DEF NoCheck
<1>3. VerdictOK(check[u]) BY <1>1, <1>2 DEF ComparisonIInv, CheckOK
<1>4. IsFiniteSet(UNION {1 .. n : n \in check[u].delta})
    <2>1. CASE check[u].delta = {}
        <3>1. UNION {1 .. n : n \in check[u].delta} = {} BY <2>1
        <3> QED BY <3>1, FS_EmptySet
    <2>2. CASE \E n \in Int : check[u].delta = {n}
        <3>1. PICK m \in Int : check[u].delta = {m} BY <2>2
        <3>2. UNION {1 .. n : n \in check[u].delta} = 1 .. m BY <3>1
        <3>3. IsFiniteSet(1 .. m) BY FS_Interval
        <3> QED BY <3>2, <3>3
    <2> QED BY <2>1, <2>2, <1>3 DEF VerdictOK
<1>5. Over(u) \in Nat BY <1>4, FS_CardinalityType DEF Over
<1> QED BY <1>1, <1>2, <1>3, <1>5

\* Within any units the disputed and the risky rows are the state's that lie there.
LEMMA RiskIsLocal ==
    ASSUME NEW units \in SUBSET Units
    PROVE  /\ DisputedRows(units) = Disputed \cap units
           /\ {u \in DisputedRows(units) : AtRisk(u)} = Risky \cap units
           /\ VotesAtRisk(units).votesAtRisk = SumOver(OverOf, Risky \cap units)
<1>1. DisputedRows(units) = Disputed \cap units BY DEF Disputed, DisputedRows, QueueRows
<1>2. {u \in DisputedRows(units) : AtRisk(u)} = Risky \cap units BY <1>1 DEF Risky
<1>3. \A u \in Risky \cap units : OverOf[u] = Over(u)
    BY <1>1 DEF OverOf, Risky, Disputed, DisputedRows, QueueRows
<1>4. VotesAtRisk(units).votesAtRisk
          = Cardinality(UNION {{u} \X (1 .. Over(u)) : u \in Risky \cap units})
    BY <1>2 DEF VotesAtRisk, SumOf
<1>5. {{u} \X (1 .. Over(u)) : u \in Risky \cap units}
          = {{u} \X (1 .. OverOf[u]) : u \in Risky \cap units}
    BY <1>3
<1> QED BY <1>1, <1>2, <1>4, <1>5 DEF SumOver

LEMMA OverIsCount == ComparisonIInv => \A u \in Units : OverOf[u] \in Nat
    BY DisputedAre DEF OverOf

\* The clusters are the wards with a disputed row, and hold them all.
ClusterWards == {w \in WardsHere : UnitsIn[w] \cap Disputed # {}}

LEMMA ClustersAre ==
    /\ DOMAIN Clusters(Units) = ClusterWards
    /\ \A w \in ClusterWards :
          /\ Clusters(Units)[w].votesAtRisk = SumOver(OverOf, Disputed \cap UnitsIn[w])
          /\ Clusters(Units)[w].replaced = Cardinality(QueueRows("REPLACED", Units) \cap UnitsIn[w])
    /\ Cuts(UnitsIn, ClusterWards, WardUnits(ClusterWards))
    /\ Disputed \subseteq WardUnits(ClusterWards)
<1>1. DOMAIN Clusters(Units) = ClusterWards BY DEF Clusters, ClusterWards, Disputed
<1>2. ClusterWards \in SUBSET WardsHere BY DEF ClusterWards
<1>3. Disputed \subseteq WardUnits(ClusterWards)
    <2> SUFFICES ASSUME NEW u \in Disputed PROVE u \in WardUnits(ClusterWards) OBVIOUS
    <2>1. u \in Units BY DEF Disputed, DisputedRows, QueueRows
    <2>2. PICK w \in WardsHere : u \in UnitsIn[w] BY <2>1, PlacesNest
    <2>3. w \in ClusterWards BY <2>2 DEF ClusterWards
    <2> QED BY <2>2, <2>3, <1>2, WardUnitsAre
<1>4. ASSUME NEW w \in ClusterWards
      PROVE  /\ Clusters(Units)[w].votesAtRisk = SumOver(OverOf, Disputed \cap UnitsIn[w])
             /\ Clusters(Units)[w].replaced
                    = Cardinality(QueueRows("REPLACED", Units) \cap UnitsIn[w])
    <2> DEFINE mine == UnitsIn[w] \cap Disputed
    <2>1. Clusters(Units)[w] = [compared |-> Cardinality(mine), mismatch |-> Cardinality(mine),
               replaced |-> Cardinality({u \in mine : check[u].status = "REPLACED"}),
               votesAtRisk |-> SumOf(Over, mine)]
        BY DEF Clusters, ClusterWards, Disputed
    <2>2. {u \in mine : check[u].status = "REPLACED"} = QueueRows("REPLACED", Units) \cap UnitsIn[w]
        BY DEF Disputed, DisputedRows, QueueRows, Says
    <2>3. mine = Disputed \cap UnitsIn[w] OBVIOUS
    <2>4. \A u \in Disputed : OverOf[u] = Over(u)
        BY DEF OverOf, Disputed, DisputedRows, QueueRows
    <2>5. {{u} \X (1 .. Over(u)) : u \in mine} = {{u} \X (1 .. OverOf[u]) : u \in mine}
        BY <2>4
    <2>6. SumOf(Over, mine) = SumOver(OverOf, mine) BY <2>5 DEF SumOf, SumOver
    <2>7. /\ Clusters(Units)[w].votesAtRisk = SumOf(Over, mine)
          /\ Clusters(Units)[w].replaced = Cardinality({u \in mine : check[u].status = "REPLACED"})
        BY <2>1
    <2> QED BY <2>2, <2>3, <2>6, <2>7
<1> QED BY <1>1, <1>2, <1>3, <1>4, WardUnitsAre
LEMMA DisputedIsFinite == IsFiniteSet(Disputed) /\ Disputed \in SUBSET Units
<1>1. Disputed \in SUBSET Units BY DEF Disputed, DisputedRows, QueueRows
<1> QED BY <1>1, PlacesNest, FS_Subset

LEMMA RiskAddsUp ==
    ComparisonIInv =>
        /\ VotesAtRisk(Units).votesAtRisk
               <= SumOf(LAMBDA w : Clusters(Units)[w].votesAtRisk, DOMAIN Clusters(Units))
        /\ VotesAtRisk(Units).replaced
               = SumOf(LAMBDA w : Clusters(Units)[w].replaced, DOMAIN Clusters(Units))
        /\ RaceBrief.risk.votesAtRisk
               = SumOf(LAMBDA l : AttentionBrief([level |-> "lga", at |-> l]).risk.votesAtRisk, LGAsHere)
<1> SUFFICES ASSUME ComparisonIInv
             PROVE  /\ VotesAtRisk(Units).votesAtRisk
                           <= SumOf(LAMBDA w : Clusters(Units)[w].votesAtRisk, DOMAIN Clusters(Units))
                    /\ VotesAtRisk(Units).replaced
                           = SumOf(LAMBDA w : Clusters(Units)[w].replaced, DOMAIN Clusters(Units))
                    /\ RaceBrief.risk.votesAtRisk
                           = SumOf(LAMBDA l : AttentionBrief([level |-> "lga", at |-> l]).risk.votesAtRisk,
                                   LGAsHere)
    OBVIOUS
<1> DEFINE votes == [w \in ClusterWards |-> Clusters(Units)[w].votesAtRisk]
           gone == [w \in ClusterWards |-> Clusters(Units)[w].replaced]
           ofLga == [l \in LGAsHere |-> AttentionBrief([level |-> "lga", at |-> l]).risk.votesAtRisk]
<1>1. SumOver(votes, ClusterWards) = SumOver(OverOf, Disputed)
    <2>1. VotesOf(votes, OverOf, Disputed, UnitsIn, ClusterWards)
        <3>1. \A w \in ClusterWards : votes[w] = SumOver(OverOf, Disputed \cap UnitsIn[w])
            BY ClustersAre
        <3>2. \A u \in Disputed : OverOf[u] \in Nat BY OverIsCount, DisputedIsFinite
        <3> QED BY <3>1, <3>2 DEF VotesOf
    <2>2. SumOver(OverOf, Disputed \cap WardUnits(ClusterWards)) = SumOver(votes, ClusterWards)
        BY <2>1, ClustersAre, VotesAddUp
    <2>3. Disputed \cap WardUnits(ClusterWards) = Disputed BY ClustersAre
    <2> QED BY <2>2, <2>3
<1>2. SumOver(gone, ClusterWards) = Cardinality(QueueRows("REPLACED", Units))
    <2>1. CountsOf(gone, QueueRows("REPLACED", Units), UnitsIn, ClusterWards)
        BY ClustersAre DEF CountsOf
    <2>2. Cardinality(QueueRows("REPLACED", Units) \cap WardUnits(ClusterWards))
              = SumOver(gone, ClusterWards)
        BY <2>1, ClustersAre, CountAddsUp
    <2>3. QueueRows("REPLACED", Units) \subseteq Disputed BY DEF Disputed, DisputedRows
    <2>4. QueueRows("REPLACED", Units) \cap WardUnits(ClusterWards) = QueueRows("REPLACED", Units)
        BY <2>3, ClustersAre
    <2> QED BY <2>2, <2>4
<1>3. SumOver(ofLga, LGAsHere) = VotesAtRisk(Units).votesAtRisk
    <2>1. \A l \in LGAsHere : LgaArea[l] \in SUBSET Units BY LgasCut DEF Cuts
    <2>2. \A l \in LGAsHere : ofLga[l] = VotesAtRisk(LgaArea[l]).votesAtRisk
        BY DEF AttentionBrief, Brief, ScopeUnits, LgaArea
    <2>3. VotesOf(ofLga, OverOf, Risky, LgaArea, LGAsHere)
        BY <2>1, <2>2, RiskIsLocal, OverIsCount DEF VotesOf
    <2>4. SumOver(OverOf, Risky \cap Units) = SumOver(ofLga, LGAsHere)
        BY <2>3, LgasCut, VotesAddUp
    <2> QED BY <2>4, RiskIsLocal
<1>4. VotesAtRisk(Units).votesAtRisk <= SumOver(OverOf, Disputed)
    <2>1. VotesAtRisk(Units).votesAtRisk = SumOver(OverOf, Risky \cap Units) BY RiskIsLocal
    <2>2. Risky \cap Units \in SUBSET Disputed BY DEF Risky
    <2>3. \A u \in Disputed : OverOf[u] \in Nat BY OverIsCount, DisputedIsFinite
    <2> QED BY <2>1, <2>2, <2>3, DisputedIsFinite, FewerSumLess
<1>5. SumOver(votes, ClusterWards)
          = SumOf(LAMBDA w : Clusters(Units)[w].votesAtRisk, DOMAIN Clusters(Units))
    <2>1. {{w} \X (1 .. votes[w]) : w \in ClusterWards}
              = {{w} \X (1 .. Clusters(Units)[w].votesAtRisk) : w \in ClusterWards}
        OBVIOUS
    <2> QED BY <2>1, ClustersAre DEF SumOver, SumOf
<1>6. SumOver(gone, ClusterWards)
          = SumOf(LAMBDA w : Clusters(Units)[w].replaced, DOMAIN Clusters(Units))
    <2>1. {{w} \X (1 .. gone[w]) : w \in ClusterWards}
              = {{w} \X (1 .. Clusters(Units)[w].replaced) : w \in ClusterWards}
        OBVIOUS
    <2> QED BY <2>1, ClustersAre DEF SumOver, SumOf
<1>7. SumOver(ofLga, LGAsHere)
          = SumOf(LAMBDA l : AttentionBrief([level |-> "lga", at |-> l]).risk.votesAtRisk, LGAsHere)
    BY DEF SumOver, SumOf
<1>8. VotesAtRisk(Units).replaced = Cardinality(QueueRows("REPLACED", Units)) BY DEF VotesAtRisk
<1>9. RaceBrief.risk.votesAtRisk = VotesAtRisk(Units).votesAtRisk BY DEF RaceBrief, Brief
<1> HIDE DEF votes, gone, ofLga
<1>10. VotesAtRisk(Units).votesAtRisk
           <= SumOf(LAMBDA w : Clusters(Units)[w].votesAtRisk, DOMAIN Clusters(Units))
    BY <1>1, <1>4, <1>5
<1> QED BY <1>2, <1>3, <1>6, <1>7, <1>8, <1>9, <1>10

LEMMA RiskIsListed ==
    ComparisonIInv =>
        \A u \in Units : u \in DisputedRows(Units) /\ AtRisk(u) =>
            /\ u \in QueueRows("INVESTIGATE", Units)
            /\ check[u].status = "MISMATCH" => u \in PartyDrift(Units)
            /\ \/ check[u].status = "REPLACED"
               \/ u \in OfSeverity(High \cup Low, Units)
            /\ \A w \in WardsHere : u \in UnitsIn[w] =>
                  /\ w \in DOMAIN Clusters(Units) /\ Clusters(Units)[w].votesAtRisk >= Over(u)
                  /\ u \in MapPins({w})
<1> SUFFICES ASSUME ComparisonIInv, NEW u \in Units, u \in DisputedRows(Units), AtRisk(u)
             PROVE  /\ u \in QueueRows("INVESTIGATE", Units)
                    /\ check[u].status = "MISMATCH" => u \in PartyDrift(Units)
                    /\ \/ check[u].status = "REPLACED"
                       \/ u \in OfSeverity(High \cup Low, Units)
                    /\ \A w \in WardsHere : u \in UnitsIn[w] =>
                          /\ w \in DOMAIN Clusters(Units)
                          /\ Clusters(Units)[w].votesAtRisk >= Over(u)
                          /\ u \in MapPins({w})
    OBVIOUS
<1>1. u \in Disputed BY DEF Disputed
<1>2. /\ Sent(u) /\ check[u] # NoCheck /\ VerdictOK(check[u])
      /\ check[u].status \in {"MISMATCH", "REPLACED"} /\ Over(u) \in Nat
    BY <1>1, DisputedAre
<1>3. u \in QueueRows("INVESTIGATE", Units)
    <2>1. ToInvestigate(u) BY <1>2 DEF ToInvestigate, Checked
    <2> QED BY <2>1 DEF QueueRows
<1>4. ASSUME check[u].status = "MISMATCH"
      PROVE  u \in PartyDrift(Units) /\ u \in OfSeverity(High \cup Low, Units)
    <2>1. PICK n \in check[u].delta : Abs(n) >= 5 BY <1>4 DEF AtRisk
    <2>2. check[u].delta # {0} BY <2>1 DEF Abs
    <2>3. check[u].differs /\ check[u].severity \in High \cup Low BY <2>2, <1>2, <1>4 DEF VerdictOK
    <2> QED BY <2>3, <1>3 DEF PartyDrift, OfSeverity
<1>5. ASSUME NEW w \in WardsHere, u \in UnitsIn[w]
      PROVE  /\ w \in DOMAIN Clusters(Units) /\ Clusters(Units)[w].votesAtRisk >= Over(u)
             /\ u \in MapPins({w})
    <2>1. w \in ClusterWards BY <1>1, <1>5 DEF ClusterWards
    <2>2. Clusters(Units)[w].votesAtRisk = SumOver(OverOf, Disputed \cap UnitsIn[w])
        BY <2>1, ClustersAre
    <2>3. OverOf[u] = Over(u) BY <1>1 DEF OverOf
    <2>4. SumOver(OverOf, {u}) = Over(u) BY <2>3, <1>2, SumOfOne
    <2>5. {u} \in SUBSET (Disputed \cap UnitsIn[w]) BY <1>1, <1>5
    <2>6. IsFiniteSet(Disputed \cap UnitsIn[w]) BY DisputedIsFinite, FS_Intersection
    <2>7. \A x \in Disputed \cap UnitsIn[w] : OverOf[x] \in Nat BY OverIsCount, DisputedIsFinite
    <2>8. SumOver(OverOf, {u}) <= SumOver(OverOf, Disputed \cap UnitsIn[w])
        BY <2>5, <2>6, <2>7, FewerSumLess
    <2>9. SumOver(OverOf, Disputed \cap UnitsIn[w]) \in Nat
        BY <2>6, <2>7, SumIsCount
    <2>10. u \in MapPins({w})
        BY <1>2, <1>5 DEF MapPins, WardUnits, IsIrevQaMismatch
    <2> QED BY <2>1, <2>2, <2>4, <2>8, <2>9, <2>10, <1>2, ClustersAre
<1> QED BY <1>2, <1>3, <1>4, <1>5

\* What the brief puts at risk can be found in the queue, the clusters and on the map, and
\* the votes of the campaign's brief are those of its LGAs.
THEOREM RiskFound == ComparisonSpec => []RiskCanBeFound
<1>1. ComparisonIInv => RiskCanBeFound BY RiskAddsUp, RiskIsListed DEF RiskCanBeFound
<1> QED BY <1>1, ComparisonTyped, PTL
-----------------------------------------------------------------------------
(***************************************************************************)
(* OfficialPagesAgree.                                                     *)
(***************************************************************************)
Ready == {u \in Units : scan[u].status = "OCR_READY"}
Published == {u \in Units : OnPortal(u)}
ClientOf == [u \in Units |-> scan[u].votes.client]
RivalOf == [u \in Units |-> scan[u].votes.rival]

LEMMA ScansAreCounts ==
    ComparisonIInv => \A u \in Units : ClientOf[u] \in Nat /\ RivalOf[u] \in Nat
    BY DEF ComparisonIInv, ScanOK, Scans, Counts, ClientOf, RivalOf

LEMMA OfficialAre ==
    ASSUME ComparisonIInv, NEW units \in SUBSET Units
    PROVE  /\ ReadVotes(units) = [client |-> SumOver(ClientOf, Ready \cap units),
                                  rival |-> SumOver(RivalOf, Ready \cap units)]
           /\ ReadVotes(units) \in Counts
           /\ Coverage(units).published = Cardinality(Published \cap units)
           /\ Coverage(units).readable \in Nat
           /\ Coverage(units).readable = 0 => Cast(ReadVotes(units)) = 0
<1> DEFINE ready == {u \in units : scan[u].status = "OCR_READY"}
<1>1. ready = Ready \cap units BY DEF Ready
<1>2. \A u \in ready : u \in Units /\ ClientOf[u] = scan[u].votes.client
                      /\ RivalOf[u] = scan[u].votes.rival
    BY DEF ClientOf, RivalOf
<1>3. {{u} \X (1 .. scan[u].votes.client) : u \in ready} = {{u} \X (1 .. ClientOf[u]) : u \in ready}
    BY <1>2
<1>4. {{u} \X (1 .. scan[u].votes.rival) : u \in ready} = {{u} \X (1 .. RivalOf[u]) : u \in ready}
    BY <1>2
<1>5. ReadVotes(units) = [client |-> SumOver(ClientOf, ready), rival |-> SumOver(RivalOf, ready)]
    BY <1>3, <1>4 DEF ReadVotes, SumOf, SumOver
<1>6. IsFiniteSet(ready) /\ IsFiniteSet(units)
    <2>1. IsFiniteSet(units) BY UnitsAreFinite
    <2>2. ready \in SUBSET units OBVIOUS
    <2> QED BY <2>1, <2>2, FS_Subset
<1>7. \A u \in ready : ClientOf[u] \in Nat /\ RivalOf[u] \in Nat BY <1>2, ScansAreCounts
<1>8. Coverage(units).published = Cardinality(Published \cap units)
    <2>1. Published \cap units = {u \in units : OnPortal(u)} BY DEF Published
    <2> QED BY <2>1 DEF Coverage
<1>9. Coverage(units).readable = Cardinality(ready)
    <2>1. ready = {u \in units : scan[u].status \in {"OCR_READY"}} OBVIOUS
    <2> QED BY <2>1 DEF Coverage
<1> HIDE DEF ready
<1>10. SumOver(ClientOf, ready) \in Nat /\ SumOver(RivalOf, ready) \in Nat
    BY <1>6, <1>7, SumIsCount
<1>11. ready = {} => SumOver(ClientOf, ready) = 0 /\ SumOver(RivalOf, ready) = 0
    <2>1. UNION {{u} \X (1 .. ClientOf[u]) : u \in {}} = {} OBVIOUS
    <2>2. UNION {{u} \X (1 .. RivalOf[u]) : u \in {}} = {} OBVIOUS
    <2> QED BY <2>1, <2>2, FS_EmptySet DEF SumOver
<1>12. Cardinality(ready) \in Nat /\ (Cardinality(ready) = 0 => ready = {})
    BY <1>6, FS_CardinalityType, FS_EmptySet
<1> QED BY <1>1, <1>5, <1>8, <1>9, <1>10, <1>11, <1>12 DEF Counts, Cast

\* A race is open exactly while no vote is read.
LEMMA OpenIsPending ==
    ASSUME NEW votes \in Counts
    PROVE  /\ Standing(votes).outcome \in {"PENDING", "WIN", "LOSS", "TIE"}
           /\ Standing(votes).outcome = "PENDING" <=> Cast(votes) = 0
           /\ Cast(votes) \in Nat
<1>1. votes.client \in Nat /\ votes.rival \in Nat BY DEF Counts
<1>2. CASE Cast(votes) = 0 BY <1>1, <1>2 DEF Standing, Cast
<1>3. CASE Cast(votes) # 0 BY <1>1, <1>3 DEF Standing, Cast
<1> QED BY <1>1, <1>2, <1>3 DEF Cast

SeatArea == [s \in DOMAIN SeatOf |-> WardUnits(SeatOf[s])]
SeatWards == UNION {SeatOf[s] : s \in DOMAIN SeatOf}

LEMMA SeatsCut ==
    /\ Cuts(SeatArea, DOMAIN SeatOf, WardUnits(SeatWards))
    /\ \A s \in DOMAIN SeatOf : SeatOf[s] \in SUBSET WardsHere /\ SeatArea[s] \in SUBSET Units
<1>1. \A s \in DOMAIN SeatOf : SeatOf[s] \in SUBSET WardsHere BY SeatsNest
<1>2. SeatWards \in SUBSET WardsHere BY <1>1 DEF SeatWards
<1>3. \A s \in DOMAIN SeatOf : SeatArea[s] \in SUBSET Units
          /\ \A u : u \in SeatArea[s] <=> \E w \in SeatOf[s] : u \in UnitsIn[w]
    BY <1>1, WardUnitsAre DEF SeatArea
<1>4. WardUnits(SeatWards) \in SUBSET Units
      /\ \A u : u \in WardUnits(SeatWards) <=> \E w \in SeatWards : u \in UnitsIn[w]
    BY <1>2, WardUnitsAre
<1>5. \A s \in DOMAIN SeatOf : SeatArea[s] \subseteq WardUnits(SeatWards)
    BY <1>3, <1>4 DEF SeatWards
<1>6. \A u \in WardUnits(SeatWards) : \E s \in DOMAIN SeatOf : u \in SeatArea[s]
    <2> SUFFICES ASSUME NEW u \in WardUnits(SeatWards)
                 PROVE  \E s \in DOMAIN SeatOf : u \in SeatArea[s]
        OBVIOUS
    <2>1. PICK w \in SeatWards : u \in UnitsIn[w] BY <1>4
    <2>2. PICK s \in DOMAIN SeatOf : w \in SeatOf[s] BY DEF SeatWards
    <2> QED BY <2>1, <2>2, <1>3
<1>7. \A s, t \in DOMAIN SeatOf : s # t => SeatArea[s] \cap SeatArea[t] = {}
    <2> SUFFICES ASSUME NEW s \in DOMAIN SeatOf, NEW t \in DOMAIN SeatOf, s # t,
                        NEW u \in SeatArea[s], u \in SeatArea[t]
                 PROVE  FALSE
        OBVIOUS
    <2>1. PICK w \in SeatOf[s] : u \in UnitsIn[w] BY <1>3
    <2>2. PICK v \in SeatOf[t] : u \in UnitsIn[v] BY <1>3
    <2>3. w \in WardsHere /\ v \in WardsHere BY <1>1
    <2>4. w = v BY <2>1, <2>2, <2>3, PlacesNest
    <2>5. SeatOf[s] \cap SeatOf[t] = {} BY SeatsNest
    <2> QED BY <2>4, <2>5
<1>8. IsFiniteSet(WardUnits(SeatWards)) BY <1>4, UnitsAreFinite
<1> QED BY <1>1, <1>3, <1>4, <1>5, <1>6, <1>7, <1>8, SeatsNest DEF Cuts

\* The race board counts the outcomes of the seats' list.
LEMMA BoardCountsSeats ==
    ComparisonIInv =>
        LET n(outcome) == Cardinality({s \in DOMAIN SeatOf : SeatRows[s].outcome = outcome})
        IN  /\ SeatRaceBoard.wins = n("WIN") /\ SeatRaceBoard.losses = n("LOSS")
            /\ SeatRaceBoard.ties = n("TIE") /\ SeatRaceBoard.pending = n("PENDING")
            /\ \A s \in DOMAIN SeatOf : SeatRows[s].outcome # "PENDING" <=> SeatRows[s].status = "APPROVED"
<1> SUFFICES ASSUME ComparisonIInv
             PROVE  LET n(outcome) == Cardinality({s \in DOMAIN SeatOf : SeatRows[s].outcome = outcome})
                    IN  /\ SeatRaceBoard.wins = n("WIN") /\ SeatRaceBoard.losses = n("LOSS")
                        /\ SeatRaceBoard.ties = n("TIE") /\ SeatRaceBoard.pending = n("PENDING")
                        /\ \A s \in DOMAIN SeatOf :
                              SeatRows[s].outcome # "PENDING" <=> SeatRows[s].status = "APPROVED"
    OBVIOUS
<1> DEFINE votes(s) == ReadVotes(WardUnits(SeatOf[s]))
           open(s) == Cast(votes(s)) = 0 \/ Coverage(WardUnits(SeatOf[s])).readable = 0
<1>1. \A s \in DOMAIN SeatOf : WardUnits(SeatOf[s]) \in SUBSET Units
    BY SeatsCut DEF SeatArea
<1>2. \A s \in DOMAIN SeatOf :
          /\ votes(s) \in Counts /\ Coverage(WardUnits(SeatOf[s])).readable \in Nat
          /\ Coverage(WardUnits(SeatOf[s])).readable = 0 => Cast(votes(s)) = 0
    BY <1>1, OfficialAre
<1>3. \A s \in DOMAIN SeatOf : SeatRows[s].outcome = Standing(votes(s)).outcome
    BY DEF SeatRows, OfficialRow
<1>4. \A s \in DOMAIN SeatOf : open(s) <=> Cast(votes(s)) = 0 BY <1>2
<1>5. \A s \in DOMAIN SeatOf : open(s) <=> Standing(votes(s)).outcome = "PENDING"
    BY <1>2, <1>4, OpenIsPending
<1>6. /\ {s \in DOMAIN SeatOf : open(s)} = {s \in DOMAIN SeatOf : SeatRows[s].outcome = "PENDING"}
      /\ \A outcome \in {"WIN", "LOSS", "TIE"} :
            {s \in DOMAIN SeatOf : ~open(s) /\ Standing(votes(s)).outcome = outcome}
                = {s \in DOMAIN SeatOf : SeatRows[s].outcome = outcome}
    BY <1>3, <1>5
<1>7. /\ SeatRaceBoard.wins
             = Cardinality({s \in DOMAIN SeatOf : ~open(s) /\ Standing(votes(s)).outcome = "WIN"})
      /\ SeatRaceBoard.losses
             = Cardinality({s \in DOMAIN SeatOf : ~open(s) /\ Standing(votes(s)).outcome = "LOSS"})
      /\ SeatRaceBoard.ties
             = Cardinality({s \in DOMAIN SeatOf : ~open(s) /\ Standing(votes(s)).outcome = "TIE"})
      /\ SeatRaceBoard.pending = Cardinality({s \in DOMAIN SeatOf : open(s)})
    BY DEF SeatRaceBoard
<1>8. ASSUME NEW s \in DOMAIN SeatOf
      PROVE  SeatRows[s].outcome # "PENDING" <=> SeatRows[s].status = "APPROVED"
    <2> PICK cov : cov = Coverage(WardUnits(SeatOf[s])) OBVIOUS
    <2>1. SeatRows[s].status = OfficialStatus(cov, votes(s)) BY DEF SeatRows, OfficialRow
    <2>2. Cast(votes(s)) \in Nat /\ cov.readable \in Nat BY <1>2, OpenIsPending
    <2>3. OfficialStatus(cov, votes(s)) = "APPROVED" <=> cov.readable > 0 /\ Cast(votes(s)) > 0
        BY DEF OfficialStatus
    <2>4. cov.readable > 0 /\ Cast(votes(s)) > 0 <=> ~open(s) BY <2>2, <1>2
    <2> QED BY <2>1, <2>3, <2>4, <1>3, <1>5
<1> HIDE DEF votes, open
<1> QED BY <1>6, <1>7, <1>8
\* The figures of the seats, their wards and units add up, and the published scans are the
\* command centre's.
LEMMA SeatFiguresAddUp ==
    ComparisonIInv =>
        /\ SeatRaceBoard.published = Corpus(WardUnits(SeatWards)).inecPublished
        /\ \A s \in DOMAIN SeatOf :
              /\ SeatRows[s].votes.client = SumOf(LAMBDA w : SeatWardRows(s)[w].votes.client, SeatOf[s])
              /\ \A w \in SeatOf[s] : SeatWardRows(s)[w].votes.rival =
                    SumOf(LAMBDA u : UnitRows(w)[u].votes.rival, UnitsIn[w])
<1> SUFFICES ASSUME ComparisonIInv
             PROVE  /\ SeatRaceBoard.published = Corpus(WardUnits(SeatWards)).inecPublished
                    /\ \A s \in DOMAIN SeatOf :
                          /\ SeatRows[s].votes.client
                                 = SumOf(LAMBDA w : SeatWardRows(s)[w].votes.client, SeatOf[s])
                          /\ \A w \in SeatOf[s] : SeatWardRows(s)[w].votes.rival =
                                SumOf(LAMBDA u : UnitRows(w)[u].votes.rival, UnitsIn[w])
    OBVIOUS
<1>0. \A units \in SUBSET Units :
          /\ ReadVotes(units).client = SumOver(ClientOf, Ready \cap units)
          /\ ReadVotes(units).rival = SumOver(RivalOf, Ready \cap units)
          /\ Coverage(units).published = Cardinality(Published \cap units)
    <2> TAKE units \in SUBSET Units
    <2>1. ReadVotes(units) = [client |-> SumOver(ClientOf, Ready \cap units),
                              rival |-> SumOver(RivalOf, Ready \cap units)]
          /\ Coverage(units).published = Cardinality(Published \cap units)
        BY OfficialAre
    <2> QED BY <2>1
<1>1. SeatRaceBoard.published = Corpus(WardUnits(SeatWards)).inecPublished
    <2> DEFINE n == [s \in DOMAIN SeatOf |-> Coverage(WardUnits(SeatOf[s])).published]
    <2>1. SeatRaceBoard.published = SumOver(n, DOMAIN SeatOf)
        BY DEF SeatRaceBoard, SumOf, SumOver
    <2>2. CountsOf(n, Published, SeatArea, DOMAIN SeatOf)
        BY <1>0, SeatsCut DEF CountsOf, SeatArea
    <2> HIDE DEF n
    <2>3. Cardinality(Published \cap WardUnits(SeatWards)) = SumOver(n, DOMAIN SeatOf)
        BY <2>2, SeatsCut, CountAddsUp
    <2>4. Published \cap WardUnits(SeatWards) = Of("inecPublished", WardUnits(SeatWards))
        BY SeatsCut DEF Cuts, Published, Of, In
    <2> QED BY <2>1, <2>3, <2>4, CorpusCounts DEF Fields
<1>2. ASSUME NEW s \in DOMAIN SeatOf
      PROVE  SeatRows[s].votes.client = SumOf(LAMBDA w : SeatWardRows(s)[w].votes.client, SeatOf[s])
    <2> DEFINE n == [w \in SeatOf[s] |-> SeatWardRows(s)[w].votes.client]
    <2>1. SumOf(LAMBDA w : SeatWardRows(s)[w].votes.client, SeatOf[s]) = SumOver(n, SeatOf[s])
        BY DEF SumOf, SumOver
    <2>2. \A w \in SeatOf[s] : n[w] = ReadVotes(UnitsIn[w]).client
        BY DEF SeatWardRows, OfficialRow
    <2>3. \A w \in SeatOf[s] : UnitsIn[w] \in SUBSET Units BY SeatsCut, PlacesNest
    <2>4. VotesOf(n, ClientOf, Ready, UnitsIn, SeatOf[s])
        BY <2>2, <2>3, <1>0, ScansAreCounts DEF VotesOf
    <2>5. Cuts(UnitsIn, SeatOf[s], WardUnits(SeatOf[s])) BY SeatsCut, WardUnitsAre
    <2> HIDE DEF n
    <2>6. SumOver(ClientOf, Ready \cap WardUnits(SeatOf[s])) = SumOver(n, SeatOf[s])
        BY <2>4, <2>5, VotesAddUp
    <2>7. SeatRows[s].votes = ReadVotes(WardUnits(SeatOf[s])) BY DEF SeatRows, OfficialRow
    <2>8. WardUnits(SeatOf[s]) \in SUBSET Units BY SeatsCut, WardUnitsAre
    <2> QED BY <2>1, <2>6, <2>7, <2>8, <1>0
<1>3. ASSUME NEW s \in DOMAIN SeatOf, NEW w \in SeatOf[s]
      PROVE  SeatWardRows(s)[w].votes.rival = SumOf(LAMBDA u : UnitRows(w)[u].votes.rival, UnitsIn[w])
    <2> DEFINE n == [u \in UnitsIn[w] |-> UnitRows(w)[u].votes.rival]
               one == [u \in UnitsIn[w] |-> {u}]
    <2>0. UnitsIn[w] \in SUBSET Units BY SeatsCut, PlacesNest
    <2>1. SumOf(LAMBDA u : UnitRows(w)[u].votes.rival, UnitsIn[w]) = SumOver(n, UnitsIn[w])
        BY DEF SumOf, SumOver
    <2>2. \A u \in UnitsIn[w] : n[u] = ReadVotes({u}).rival BY DEF UnitRows, OfficialRow
    <2>3. \A u \in UnitsIn[w] : {u} \in SUBSET Units BY <2>0
    <2>4. VotesOf(n, RivalOf, Ready, one, UnitsIn[w])
        BY <2>2, <2>3, <1>0, ScansAreCounts DEF VotesOf
    <2>5. Cuts(one, UnitsIn[w], UnitsIn[w])
        <3>1. IsFiniteSet(UnitsIn[w]) BY <2>0, UnitsAreFinite
        <3> QED BY <2>0, <3>1 DEF Cuts
    <2> HIDE DEF n, one
    <2>6. SumOver(RivalOf, Ready \cap UnitsIn[w]) = SumOver(n, UnitsIn[w])
        BY <2>4, <2>5, VotesAddUp
    <2>7. SeatWardRows(s)[w].votes = ReadVotes(UnitsIn[w]) BY DEF SeatWardRows, OfficialRow
    <2> QED BY <2>0, <2>1, <2>6, <2>7, <1>0
<1> QED BY <1>1, <1>2, <1>3

\* The seats' list, the race board, the command centre and the official results tell the
\* same story of the same scans.
THEOREM OfficialCorrect == ComparisonSpec => []OfficialPagesAgree
<1>1. ComparisonIInv => OfficialPagesAgree
    BY BoardCountsSeats, SeatFiguresAddUp DEF OfficialPagesAgree, SeatWards
<1> QED BY <1>1, ComparisonTyped, PTL
=============================================================================
