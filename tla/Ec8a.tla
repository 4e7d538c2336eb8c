---------------------------------- MODULE Ec8a ----------------------------------
(***************************************************************************)
(* The check of a polling unit's sheet against its own arithmetic and      *)
(* against a photo of the form (ocr-verification, ocr-queue, ocr-verify,   *)
(* ec8a-photo-reader, ec8a-ai-parse).  Every save and submission of a      *)
(* sheet stores a chip; a submission also publishes a job, which asks the  *)
(* vision model what the photo says and stores the chip that officers sort *)
(* and decide by.  Jobs go through RabbitMQ, one at a time, or run in the  *)
(* process when there is no broker.                                        *)
(*                                                                         *)
(* A sheet has at most one photo; what is on it and what the model makes   *)
(* of it is the model's answer.  Messages and labels are left out.         *)
(***************************************************************************)
EXTENDS Integers, Sequences, FiniteSets, Functions

CONSTANTS
    Rows,       \* result rows of polling units
    Sheets,     \* figures an agent may type
    Answers,    \* what the vision model may answer
    Helpers,    \* slots for jobs that run in the process
    Crashes,    \* how often the process may stop, a bound
    Backlog     \* messages the broker holds, a bound

Consumer == "consumer"                \* the handler of the broker's messages
Workers == Helpers \cup {Consumer}

ASSUME HelpersAndRows == Consumer \notin Helpers /\ "none" \notin Rows

Boxes == {"registered", "accredited", "issued", "unused", "spoiled", "rejected",
          "valid", "used"}

Empty == -1                           \* a box with nothing in it
Filled(x) == x # Empty
OrZero(x) == IF Filled(x) THEN x ELSE 0

VARIABLES
    row,        \* each row: figures, photo, status and chip
    inbox,      \* the broker's queue; its head is in progress while Consumer works
    channel,    \* whether the process holds a channel to the broker
    work,       \* the job of each worker: row, step, what it read and the answer
    fate,       \* rows of which a job was lost, or ran beside another one
    crashes

ec8aVars == <<row, inbox, channel, work, fate, crashes>>

-----------------------------------------------------------------------------
\* partyVotesSum: nothing unless some party has a figure.
PartySum(parties) ==
    IF DOMAIN parties = {} THEN Empty ELSE FoldFunction(+, 0, parties)

HasAnyFigures(f) == Filled(PartySum(f.parties)) \/ \E box \in Boxes : Filled(f[box])

\* The sum of those of the parts that are there, if any is.
SumOfParts(parts) ==
    IF \E i \in DOMAIN parts : Filled(parts[i])
    THEN FoldFunction(LAMBDA x, sum : OrZero(x) + sum, 0, parts) ELSE Empty

Differ(x, y) == Filled(x) /\ Filled(y) /\ x # y

\* arithmeticVerification: the identities of the form that do not hold.
Broken(f) ==
    {flag \in {"ACCREDITED_GT_REGISTERED", "PARTY_SUM_NE_VALID", "ACCREDITED_NE_USED",
               "USED_NE_SPOILED_REJECTED_VALID", "ISSUED_NE_USED_UNUSED"} :
        CASE flag = "ACCREDITED_GT_REGISTERED" ->
                 Filled(f.accredited) /\ Filled(f.registered) /\ f.accredited > f.registered
          [] flag = "PARTY_SUM_NE_VALID" -> Differ(PartySum(f.parties), f.valid)
          [] flag = "ACCREDITED_NE_USED" -> Differ(f.accredited, f.used)
          [] flag = "USED_NE_SPOILED_REJECTED_VALID" ->
                 Differ(f.used, SumOfParts(<<f.spoiled, f.rejected, f.valid>>))
          [] OTHER -> Differ(f.issued, SumOfParts(<<f.used, f.unused>>))}

\* A chip, with the figures it is about.
Chip(status, advice, engine, f) ==
    [status |-> status, recommendation |-> advice, engine |-> engine, of |-> f]

Arithmetic(f) ==
    IF ~HasAnyFigures(f) THEN Chip("PENDING", "CHECK_PHOTO", "ARITHMETIC", f)
    ELSE IF Broken(f) = {} THEN Chip("MATCH", "APPROVE", "ARITHMETIC", f)
    ELSE Chip("MISMATCH", "RETURN", "ARITHMETIC", f)

\* ocrVerificationWrite of a submission.
AwaitingOcr(f, photo) ==
    IF photo /\ Arithmetic(f).recommendation # "RETURN"
    THEN Chip("PENDING", "CHECK_PHOTO", "ARITHMETIC", f) ELSE Arithmetic(f)

\* parseAiEc8aJson: figures below zero are zero, parties the sheet does not name are
\* dropped, unless it names none, and an answer without figures is unreadable.
Unreadable == [fields |-> <<>>, parties |-> <<>>, unreadable |-> TRUE]

ParseAnswer(answer, codes) ==
    LET clamp(n) == IF n < 0 THEN 0 ELSE n
        named == IF codes = {} THEN DOMAIN answer.parties ELSE DOMAIN answer.parties \cap codes
    IN  IF answer.unreadable \/ (DOMAIN answer.fields = {} /\ named = {}) THEN Unreadable
        ELSE [fields |-> [box \in DOMAIN answer.fields |-> clamp(answer.fields[box])],
              parties |-> [p \in named |-> clamp(answer.parties[p])], unreadable |-> FALSE]

\* extractEc8a: the model answers, or it cannot be asked, the file is gone, the request
\* fails or the answer is no JSON.
PhotoReads(codes) == {ParseAnswer(answer, codes) : answer \in Answers} \cup {Unreadable}

\* What the photo says otherwise than the sheet.
Disagreements(f, read) ==
    {box \in DOMAIN read.fields : Differ(f[box], read.fields[box])} \cup
    {p \in DOMAIN read.parties \cap DOMAIN f.parties : read.parties[p] # f.parties[p]} \cup
    (IF Differ(f.valid, PartySum(read.parties)) THEN {"sum"} ELSE {})

\* (Mutant: a photo that agrees outweighs the arithmetic.)
MergeTrusting(f, read) ==
    LET returned == Arithmetic(f).recommendation = "RETURN"
    IN  IF read.unreadable
        THEN IF returned THEN Chip("MISMATCH", "RETURN", "OCR", f)
             ELSE Chip("UNREADABLE", "CHECK_PHOTO", "OCR", f)
        ELSE IF Disagreements(f, read) # {}
        THEN Chip("MISMATCH", "RETURN", "OCR", f) ELSE Chip("MATCH", "APPROVE", "OCR", f)

\* mergeVisionWithArithmetic.
Merge(f, read) ==
    LET returned == Arithmetic(f).recommendation = "RETURN"
    IN  IF read.unreadable
        THEN IF returned THEN Chip("MISMATCH", "RETURN", "OCR", f)
             ELSE Chip("UNREADABLE", "CHECK_PHOTO", "OCR", f)
        ELSE IF returned \/ Disagreements(f, read) # {}
        THEN Chip("MISMATCH", "RETURN", "OCR", f) ELSE Chip("MATCH", "APPROVE", "OCR", f)

-----------------------------------------------------------------------------
Unwritten == [box \in Boxes \cup {"parties"} |-> IF box = "parties" THEN <<>> ELSE Empty]
NoChip == Chip("NONE", "NONE", "NONE", Unwritten)
NewRow == [figures |-> Unwritten, photo |-> FALSE, status |-> "NOT_STARTED", chip |-> NoChip]
Idle == [row |-> "none", step |-> "idle", figures |-> Unwritten, photo |-> FALSE,
         read |-> Unreadable]

Ec8aInit ==
    /\ row = [r \in Rows |-> NewRow]
    /\ inbox = <<>>
    /\ channel \in {"up", "down"}
    /\ work = [w \in Workers |-> Idle]
    /\ fate = [r \in Rows |-> {}]
    /\ crashes = 0

Busy(r) == {w \in Workers : work[w].row = r}

\* upsertResult by the agent, with a photo, without one, or with the one there is.
Save(r, f, photo) ==
    /\ row[r].status \in {"NOT_STARTED", "DRAFT", "REJECTED"}
    /\ row' = [row EXCEPT ![r] = [figures |-> f, photo |-> photo, status |-> "DRAFT",
                                  chip |-> Arithmetic(f)]]
    /\ UNCHANGED <<inbox, channel, work, fate, crashes>>

\* attachEc8aPhoto.
Attach(r) ==
    /\ row[r].status \in {"DRAFT", "REJECTED"}
    /\ row' = [row EXCEPT ![r].photo = TRUE, ![r].chip = Arithmetic(row[r].figures)]
    /\ UNCHANGED <<inbox, channel, work, fate, crashes>>

\* OcrQueueService.publish.  A job that runs in the process starts at once, beside
\* whatever else runs.
PublishJob(r) ==
    IF channel = "up"
    THEN /\ Len(inbox) < Backlog
         /\ inbox' = Append(inbox, r)
         /\ UNCHANGED <<work, fate>>
    ELSE /\ \E w \in Helpers :
               /\ work[w] = Idle
               /\ work' = [work EXCEPT ![w].row = r, ![w].step = "read"]
         /\ fate' = [fate EXCEPT ![r] =
                IF Busy(r) # {} \/ r \in Range(inbox) THEN @ \cup {"overlapped"} ELSE @]
         /\ UNCHANGED inbox

\* submitResult of a sheet with a photo.
SubmitRow(r) ==
    /\ row[r].status \in {"DRAFT", "REJECTED"}
    /\ row[r].photo
    /\ row' = [row EXCEPT ![r].status = "SUBMITTED",
                          ![r].chip = AwaitingOcr(row[r].figures, TRUE)]
    /\ PublishJob(r)
    /\ UNCHANGED <<channel, crashes>>

\* approveResult and rejectResult by the ward's officer.
DecideRow(r, to) ==
    /\ row[r].status = "SUBMITTED" \/ (row[r].status = "APPROVED" /\ to = "REJECTED")
    /\ row' = [row EXCEPT ![r].status = to]
    /\ UNCHANGED <<inbox, channel, work, fate, crashes>>

-----------------------------------------------------------------------------
\* The consumer takes one message at a time and keeps it until it is acknowledged.
Consume ==
    /\ channel = "up" /\ inbox # <<>> /\ work[Consumer] = Idle
    /\ work' = [work EXCEPT ![Consumer].row = Head(inbox), ![Consumer].step = "read"]
    /\ UNCHANGED <<row, inbox, channel, fate, crashes>>

\* handle reads the row; a sheet without a photo is written at once.
ReadRow(w) ==
    /\ work[w].step = "read"
    /\ LET now == row[work[w].row]
       IN  work' = [work EXCEPT ![w].figures = now.figures, ![w].photo = now.photo,
                                ![w].step = IF now.photo THEN "ask" ELSE "write"]
    /\ UNCHANGED <<row, inbox, channel, fate, crashes>>

Ask(w) ==
    /\ work[w].step = "ask"
    /\ \E read \in PhotoReads(DOMAIN work[w].figures.parties) :
          work' = [work EXCEPT ![w].read = read, ![w].step = "write"]
    /\ UNCHANGED <<row, inbox, channel, fate, crashes>>

Store(w) ==
    /\ work[w].step = "write"
    /\ row' = [row EXCEPT ![work[w].row].chip =
           IF work[w].photo THEN Merge(work[w].figures, work[w].read)
           ELSE Arithmetic(work[w].figures)]
    /\ work' = [work EXCEPT ![w] = [Idle EXCEPT !.row = work[w].row, !.step = "done"]]
    /\ UNCHANGED <<inbox, channel, fate, crashes>>

\* (Mutant: without an acknowledgement the broker holds back the next message.)
DoneUnacked(w) ==
    /\ work[w].step = "done"
    /\ work' = [work EXCEPT ![w].step = "held"]
    /\ UNCHANGED <<row, inbox, channel, fate, crashes>>

\* The message is acknowledged if the channel is still there.
Done(w) ==
    /\ work[w].step = "done"
    /\ work' = [work EXCEPT ![w] = Idle]
    /\ inbox' = IF w = Consumer /\ channel = "up" THEN Tail(inbox) ELSE inbox
    /\ UNCHANGED <<row, channel, fate, crashes>>

\* A read or write of the row fails.  The consumer acknowledges the message all the same.
Fail ==
    /\ work[Consumer].step \in {"read", "write"}
    /\ work' = [work EXCEPT ![Consumer] = [Idle EXCEPT !.row = work[Consumer].row,
                                                  !.step = "done"]]
    /\ fate' = [fate EXCEPT ![work[Consumer].row] = @ \cup {"lost"}]
    /\ UNCHANGED <<row, inbox, channel, crashes>>

\* The connection breaks: nothing connects again, jobs run in the process from now on,
\* and the broker keeps what was not acknowledged.
Disconnect ==
    /\ channel = "up"
    /\ channel' = "down"
    /\ UNCHANGED <<row, inbox, work, fate, crashes>>

\* The process stops, which a failing job in the process also causes, and starts again:
\* jobs in the process are gone, the broker delivers again.
Restart(connected) ==
    /\ crashes < Crashes
    /\ crashes' = crashes + 1
    /\ channel' = connected
    /\ work' = [w \in Workers |-> Idle]
    /\ fate' = [r \in Rows |->
           IF \E w \in Helpers : work[w].row = r /\ work[w].step # "done"
           THEN fate[r] \cup {"lost"} ELSE fate[r]]
    /\ UNCHANGED <<row, inbox>>

WorkOn(w) == ReadRow(w) \/ Ask(w) \/ Store(w) \/ Done(w)

Ec8aNext ==
    \/ \E r \in Rows :
          \/ \E f \in Sheets, photo \in BOOLEAN : Save(r, f, photo)
          \/ Attach(r) \/ SubmitRow(r)
          \/ \E to \in {"APPROVED", "REJECTED"} : DecideRow(r, to)
    \/ Consume \/ \E w \in Workers : WorkOn(w)
    \/ Fail \/ Disconnect \/ \E connected \in {"up", "down"} : Restart(connected)

\* Jobs go on and the broker delivers.
Ec8aFairness == WF_ec8aVars(Consume) /\ \A w \in Workers : WF_ec8aVars(WorkOn(w))

Ec8aSpec == Ec8aInit /\ [][Ec8aNext]_ec8aVars /\ Ec8aFairness

-----------------------------------------------------------------------------
\* What officers see: the chip stored or, for rows without one, the arithmetic; and the
\* order and the counts of their lists.
Shown(r) ==
    IF row[r].chip # NoChip THEN row[r].chip
    ELSE IF HasAnyFigures(row[r].figures) THEN Arithmetic(row[r].figures) ELSE NoChip

SortRank(chip) ==
    CASE chip.recommendation = "RETURN" -> 0
      [] chip.recommendation = "CHECK_PHOTO" -> 1
      [] chip.recommendation = "APPROVE" -> 2
      [] OTHER -> 3

Counts ==
    LET n(advice) == Cardinality({r \in Rows : Shown(r).recommendation = advice})
    IN  [flagged |-> n("RETURN"), check |-> n("CHECK_PHOTO"), matched |-> n("APPROVE"),
         pending |-> n("NONE")]

\* Whether a job of the row is waiting or running.
Underway(r) == Busy(r) # {} \/ r \in Range(inbox)

\* "Arithmetic diffs always stay" (docs/OCR.md): whatever the model answers, a sheet whose
\* own figures do not add up is recommended for return, and sorts before all others.  Once
\* nothing is under way a submitted sheet's chip is about the figures it has, unless a job
\* of it was lost or ran beside another one.
ChipsFit ==
    \A r \in Rows :
        LET chip == row[r].chip
        IN  /\ Broken(chip.of) # {} => chip.recommendation = "RETURN" /\ SortRank(chip) = 0
            /\ row[r].status \in {"SUBMITTED", "APPROVED"} /\ ~Underway(r) /\ fate[r] = {} =>
                   /\ chip.of = row[r].figures
                   /\ chip.engine = "OCR"

\* A submitted sheet does not wait for its chip forever, although the process may stop at
\* any moment, if its job went through a broker the process is connected to in the end.
ChipsSettle ==
    <>[](channel = "up") =>
        \A r \in Rows : []<>(Shown(r).status # "PENDING" \/ fate[r] # {}
                             \/ row[r].status \in {"NOT_STARTED", "DRAFT", "REJECTED"})
=============================================================================
