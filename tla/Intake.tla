-------------------------------- MODULE Intake --------------------------------
(***************************************************************************)
(* Incident reports and how they come in (modules/whatsapp and             *)
(* modules/field-reports): the WhatsApp webhook and its worker, reports    *)
(* typed or spoken into the dashboard, the transcription of voice reports, *)
(* and what officers do with a report.  The workers run in the process     *)
(* that emitted their event; a stored message is never looked for again.   *)
(*                                                                         *)
(* A report is identified by the message or the form it came from, which   *)
(* is what the unique sourceMessageId makes of it.  Of its severity it     *)
(* matters whether it is urgent (HIGH or CRITICAL), of its description     *)
(* whose words they are.                                                   *)
(***************************************************************************)
EXTENDS Integers, FiniteSets

CONSTANTS
    Messages,     \* WhatsApp messages
    Forms,        \* reports made in the dashboard
    Payload,      \* what the provider posts for each message
    Clips,        \* dashboard reports that are recorded, not typed
    Help,         \* messages that ask for help
    Registered,   \* messages from the phone of an active member
    ByWard,       \* what an officer of the ward reports
    Urgent,       \* what is urgent, if anybody reads it
    Officers,     \* requests about a report served at once
    MaxFaults     \* errors and crashes (bound)

Origins == Messages \cup Forms

\* A payload, to what parsing it tells apart: the kind of event, whether it names a
\* sender and a message, its text, link and content type, a caption, a position.
Payloads ==
    [event : {"none", "inbound", "status"}, from : BOOLEAN, id : BOOLEAN,
     text : {"none", "words", "image", "audio"}, url : {"none", "image", "audio", "bare"},
     mime : {"none", "image", "audio", "other"}, caption : BOOLEAN, place : BOOLEAN]

ASSUME PayloadsArePayloads == Payload \in [Messages -> Payloads] /\ Clips \subseteq Forms

\* What a form files has no message.
ASSUME FormsAreNoMessages == Messages \cap Forms = {}

\* Delivery reports and device states are dropped, as is what names no sender or id.
Readable(p) == p.event # "status" /\ p.from /\ p.id

\* The link to the media: a field of its own, or a text that is nothing but a link.
Link(p) == IF p.url # "none" THEN p.url
           ELSE IF p.text \in {"image", "audio"} THEN p.text ELSE "none"

\* A link is a recording by its content type or its ending, and a photo otherwise; of
\* captions only a photo's counts as the sender's words.
Media(p) ==
    IF Link(p) = "none" THEN {}
    ELSE IF p.mime = "audio" \/ Link(p) = "audio" THEN {"audio"}
    ELSE {"photo"} \cup IF p.caption THEN {"words"} ELSE {}

Parts(p) ==
    Media(p) \cup (IF p.text = "words" THEN {"words"} ELSE {})
             \cup (IF p.place THEN {"place"} ELSE {})

Has == [x \in Origins |-> IF x \in Messages THEN Parts(Payload[x])
                          ELSE {IF x \in Clips THEN "audio" ELSE "words"}]

VARIABLES
    inbound,   \* the status of each WhatsAppInboundMessage
    told,      \* what the sender of each message was answered
    job,       \* the next step of the worker for each message
    voice,     \* the next step of the transcription of each report
    report,    \* the FieldReport rows
    marked,    \* reports for which the risk engine was asked for a pass at once
    desk,      \* the change an officer's request has decided on
    faults     \* errors so far

intakeVars == <<inbound, told, job, voice, report, marked, desk, faults>>

NoReport == [status |-> "NONE", urgent |-> FALSE, words |-> "NONE"]
NoVisit == [of |-> {}, to |-> "NONE"]

IntakeInit ==
    /\ inbound = [m \in Messages |-> "ABSENT"]
    /\ told = [m \in Messages |-> {}]
    /\ job = [m \in Messages |-> "none"]
    /\ voice = [x \in Origins |-> "none"]
    /\ report = [x \in Origins |-> NoReport]
    /\ marked = {}
    /\ desk = [o \in Officers |-> NoVisit]
    /\ faults = 0

Goes(m, next) == job' = [job EXCEPT ![m] = next]
Tell(m, answer) == told' = [told EXCEPT ![m] = @ \cup {answer}]
Mark(m, status) == inbound' = [inbound EXCEPT ![m] = status]

HasMedia(x) == Has[x] \cap {"photo", "audio"} # {}

-----------------------------------------------------------------------------
\* The webhook stores a message and starts its worker; a message that is
\* delivered again is stored already, and accepted without another job.
IngestWebhook(m) ==
    /\ Readable(Payload[m])
    /\ inbound[m] = "ABSENT"
    /\ Mark(m, "RECEIVED")
    /\ Goes(m, "queued")
    /\ UNCHANGED <<told, voice, report, marked, desk, faults>>

\* What the worker makes of a message before it looks at its media: a request
\* for help, nothing it can file and an unknown number are answered.
Refusal(m) ==
    IF m \in Help /\ ~HasMedia(m) THEN "help"
    ELSE IF Has[m] = {} THEN "unsupported"
    ELSE IF m \notin Registered THEN "notRegistered" ELSE "NONE"

Sort(m) ==
    /\ job[m] = "queued"
    /\ IF Refusal(m) # "NONE"
       THEN /\ Tell(m, Refusal(m))
            /\ Goes(m, "ignore")
       ELSE /\ Goes(m, IF HasMedia(m) THEN "media" ELSE "create")
            /\ UNCHANGED told
    /\ UNCHANGED <<inbound, voice, report, marked, desk, faults>>

Ignore(m) ==
    /\ job[m] = "ignore"
    /\ Mark(m, "IGNORED")
    /\ Goes(m, "none")
    /\ UNCHANGED <<told, voice, report, marked, desk, faults>>

\* The provider's copy of a photo or recording is fetched and stored.  One that
\* cannot be had ends the report: the sender is told before the row is marked.
Fetch(m) ==
    /\ job[m] = "media"
    /\ \/ /\ Goes(m, "create")
          /\ UNCHANGED told
       \/ /\ Tell(m, "failed")
          /\ Goes(m, "giveUp")
    /\ UNCHANGED <<inbound, voice, report, marked, desk, faults>>

GiveUp(m) ==
    /\ job[m] = "giveUp"
    /\ Mark(m, "FAILED")
    /\ Goes(m, "none")
    /\ UNCHANGED <<told, voice, report, marked, desk, faults>>

\* The ward of the report is looked up and told to the risk engine as urgent.
AskPass(x) == marked' = marked \cup {x}

\* FieldReportsService.create for source x: an officer of the ward escalates what
\* he reports.  What is to be read first starts as MEDIUM, under a placeholder if
\* nobody gave words; an urgent one asks for a pass, a recording for its worker.
Deferred(x) == x \in Messages \/ "audio" \in Has[x]

File(x) ==
    LET urgent == ~Deferred(x) /\ x \in Urgent
    IN  /\ report[x] = NoReport
        /\ report' = [report EXCEPT ![x] =
               [status |-> IF x \in ByWard THEN "ESCALATED" ELSE "OPEN",
                urgent |-> urgent,
                words |-> IF "words" \in Has[x] THEN "given" ELSE "placeholder"]]
        /\ voice' = IF "audio" \in Has[x] THEN [voice EXCEPT ![x] = "queued"] ELSE voice
        /\ IF urgent THEN AskPass(x) ELSE UNCHANGED marked

\* (Mutant: a report whose words need no classifying is confirmed before it is linked.)
CreateConfirmed(m) ==
    /\ job[m] = "create"
    /\ File(m)
    /\ Goes(m, IF "words" \in Has[m] /\ "audio" \notin Has[m] THEN "classify" ELSE "confirm")
    /\ UNCHANGED <<inbound, told, desk, faults>>

\* Words that came without a recording are classified before the message counts
\* as processed.
Create(m) ==
    /\ job[m] = "create"
    /\ File(m)
    /\ Goes(m, IF "words" \in Has[m] /\ "audio" \notin Has[m] THEN "classify" ELSE "link")
    /\ UNCHANGED <<inbound, told, desk, faults>>

\* (Mutant: a classification that fails gives the message up.)
ClassifyOrFail(m) ==
    /\ job[m] = "classify"
    /\ \/ /\ report' = [report EXCEPT ![m].urgent = m \in Urgent, ![m].words = "summary"]
          /\ Goes(m, "link")
       \/ Goes(m, "none") /\ UNCHANGED report
    /\ UNCHANGED <<inbound, told, voice, marked, desk, faults>>

\* The classifier's answer replaces the words and the severity; without one (no
\* model, an error, an unusable answer) the report stays as it was sent.
Classify(m) ==
    /\ job[m] = "classify"
    /\ \/ report' = [report EXCEPT ![m].urgent = m \in Urgent, ![m].words = "summary"]
       \/ UNCHANGED report
    /\ Goes(m, "link")
    /\ UNCHANGED <<inbound, told, voice, marked, desk, faults>>

Process(m) ==
    /\ job[m] = "link"
    /\ Mark(m, "PROCESSED")
    /\ Goes(m, "confirm")
    /\ UNCHANGED <<told, voice, report, marked, desk, faults>>

Confirm(m) ==
    /\ job[m] = "confirm"
    /\ Tell(m, "logged")
    /\ Goes(m, "none")
    /\ UNCHANGED <<inbound, voice, report, marked, desk, faults>>

\* An error anywhere in the work ends in one place, which marks the message
\* failed and tells its sender, whatever had been stored or said before.  Before the
\* message is read, and in that place itself, an error ends the job without a verdict.
Throw(m) ==
    /\ job[m] \in {"queued", "ignore", "media", "giveUp", "create", "link", "recover"}
    /\ faults < MaxFaults
    /\ faults' = faults + 1
    /\ \/ job[m] # "recover" /\ Goes(m, "recover")
       \/ job[m] \in {"queued", "recover"} /\ Goes(m, "none")
    /\ UNCHANGED <<inbound, told, voice, report, marked, desk>>

Recover(m) ==
    /\ job[m] = "recover"
    /\ Mark(m, "FAILED")
    /\ Goes(m, "deny")
    /\ UNCHANGED <<told, voice, report, marked, desk, faults>>

Deny(m) ==
    /\ job[m] = "deny"
    /\ Tell(m, "failed")
    /\ Goes(m, "none")
    /\ UNCHANGED <<inbound, voice, report, marked, desk, faults>>

-----------------------------------------------------------------------------
\* A report from the dashboard.
SubmitReport(x) ==
    /\ x \in Forms
    /\ File(x)
    /\ UNCHANGED <<inbound, told, job, desk, faults>>

\* The voice worker reads the row, gets the recording and has it transcribed and
\* classified; what it cannot hear or use it calls failed.
Listen(x) ==
    /\ voice[x] = "queued"
    /\ \E next \in {"heard", "unheard"} : voice' = [voice EXCEPT ![x] = next]
    /\ UNCHANGED <<inbound, told, job, report, marked, desk, faults>>

\* (Mutant: a transcribed report is stored and no pass asked for.)
StoreQuietly(x) ==
    /\ voice[x] = "heard"
    /\ report' = [report EXCEPT ![x].urgent = x \in Urgent, ![x].words = "summary"]
    /\ voice' = [voice EXCEPT ![x] = "none"]
    /\ UNCHANGED <<inbound, told, job, marked, desk, faults>>

StoreTranscript(x) ==
    /\ voice[x] = "heard"
    /\ report' = [report EXCEPT ![x].urgent = x \in Urgent, ![x].words = "summary"]
    /\ voice' = [voice EXCEPT ![x] = IF x \in Urgent THEN "alert" ELSE "none"]
    /\ UNCHANGED <<inbound, told, job, marked, desk, faults>>

\* Asking for the pass: the ward is looked up, then the event emitted.
AlertTriage(x) ==
    /\ voice[x] = "alert"
    /\ AskPass(x)
    /\ voice' = [voice EXCEPT ![x] = "none"]
    /\ UNCHANGED <<inbound, told, job, report, desk, faults>>

\* The failure notice replaces whatever description there was.
StoreFailure(x) ==
    /\ voice[x] = "unheard"
    /\ report' = [report EXCEPT ![x].words = "failed"]
    /\ voice' = [voice EXCEPT ![x] = "none"]
    /\ UNCHANGED <<inbound, told, job, marked, desk, faults>>

\* An error while storing the transcript is a failed transcription as well; one
\* while looking up the ward is swallowed, and the pass not asked for.
VoiceError(x) ==
    /\ voice[x] \in {"heard", "alert"}
    /\ faults < MaxFaults
    /\ faults' = faults + 1
    /\ voice' = [voice EXCEPT ![x] = IF @ = "heard" THEN "unheard" ELSE "none"]
    /\ UNCHANGED <<inbound, told, job, report, marked, desk>>

\* The process dies: what its events had started is gone.
Crash ==
    /\ faults < MaxFaults
    /\ faults' = faults + 1
    /\ job' = [m \in Messages |-> "none"]
    /\ voice' = [x \in Origins |-> "none"]
    /\ desk' = [o \in Officers |-> NoVisit]
    /\ UNCHANGED <<inbound, told, report, marked>>

-----------------------------------------------------------------------------
\* updateStatus: the report is read and the officer's right to the change decided
\* by its status; a ward officer leaves escalated reports to the LGA.
Open(o, x, ward, to) ==
    /\ desk[o] = NoVisit
    /\ report[x] # NoReport
    /\ ward => /\ report[x].status # "RESOLVED"
               /\ ~(to = "RESOLVED" /\ report[x].status = "ESCALATED")
    /\ desk' = [desk EXCEPT ![o] = [of |-> {x}, to |-> to]]
    /\ UNCHANGED <<inbound, told, job, voice, report, marked, faults>>

\* The write goes by id.  Resolving and escalating notify, and with the notice of
\* a report that is urgent now goes another request for a pass.
Decide(o, x) ==
    /\ desk[o].of = {x}
    /\ report' = [report EXCEPT ![x].status = desk[o].to]
    /\ IF desk[o].to # "OPEN" /\ report[x].urgent THEN AskPass(x) ELSE UNCHANGED marked
    /\ desk' = [desk EXCEPT ![o] = NoVisit]
    /\ UNCHANGED <<inbound, told, job, voice, faults>>

-----------------------------------------------------------------------------
InboundWork(m) ==
    \/ Sort(m) \/ Ignore(m) \/ Fetch(m) \/ GiveUp(m) \/ Create(m) \/ Classify(m)
    \/ Process(m) \/ Confirm(m) \/ Recover(m) \/ Deny(m)

Transcribe(x) == Listen(x) \/ StoreTranscript(x) \/ AlertTriage(x) \/ StoreFailure(x)

IntakeNext ==
    \/ \E m \in Messages : IngestWebhook(m) \/ InboundWork(m) \/ Throw(m)
    \/ \E x \in Origins : SubmitReport(x) \/ Transcribe(x) \/ VoiceError(x)
    \/ Crash
    \/ \E o \in Officers, x \in Origins :
          \/ Decide(o, x)
          \/ \E ward \in BOOLEAN, to \in {"OPEN", "ESCALATED", "RESOLVED"} :
                Open(o, x, ward, to)

\* A handler goes on once its call has returned; nobody has to write or decide.
IntakeFairness ==
    /\ \A m \in Messages : WF_intakeVars(InboundWork(m))
    /\ \A x \in Origins : WF_intakeVars(Transcribe(x))

IntakeSpec == IntakeInit /\ [][IntakeNext]_intakeVars /\ IntakeFairness

-----------------------------------------------------------------------------
\* What a sender is told is so, whatever failed on the way: "logged" that the
\* report is there and the message processed, any refusal that nothing was filed.
\* (The converse is not promised: a report may be there although linking it
\* failed and the sender was told it could not be saved.)
AnswersAreTrue ==
    \A m \in Messages :
        /\ "logged" \in told[m] => inbound[m] = "PROCESSED" /\ report[m] # NoReport
        /\ told[m] \cap {"help", "unsupported", "notRegistered"} # {} =>
               report[m] = NoReport
        /\ inbound[m] = "PROCESSED" => "failed" \notin told[m]

\* "An urgent or high-severity report earns an immediate ward pass": once nobody is
\* working on it, an urgent report that was typed or spoken has asked for one, unless
\* something failed.
UrgentEarnsPass ==
    \A x \in Origins :
        (/\ report[x].urgent /\ voice[x] = "none" /\ faults = 0
         /\ x \in Forms \/ "audio" \in Has[x]) => x \in marked

\* The same of every report.
EveryUrgentEarnsPass ==
    \A x \in Origins :
        (/\ report[x].urgent /\ voice[x] = "none" /\ faults = 0
         /\ x \in Messages => job[x] = "none") => x \in marked

\* Work that was started and not killed ends: the message gets its verdict and its
\* sender an answer, and no recording stays under "processing".
IntakeSettles ==
    /\ \A m \in Messages :
          (job[m] # "none") ~> (job[m] = "none" /\ (faults > 0 \/ told[m] # {}))
    /\ \A x \in Origins : (voice[x] # "none") ~> (voice[x] = "none" /\
          (faults > 0 \/ report[x].words \in {"summary", "failed"}))
=============================================================================
