SPECIFICATION WorkersSpec
CONSTANTS
    p1 = p1
    d0 = d0
    d1 = d1
    d2 = d2
    PUs = {p1}
    Docs = {d0, d1, d2}
    Eligible = {d1, d2}
    Legible = {d1, d2}
    Figures = {"a", "b"}
    Reading <- Differing
    MaxAttempts = 2
    Slots = {"j1"}
    MaxEvents = 3
    Rows = {r1}
    Sheets <- Typed
    Answers <- Seen
    Helpers = {h1}
    Crashes = 1
    Backlog = 2
    q1 = q1
    q2 = q2
    Posts = {q1, q2}
    Account <- Writer
    PostedAt <- SameHour
    Analyses = {"t"}
    LastHour = 1
    Back = 1
    States <- TwoStates
    LGAs <- Obi
    Sentiments = {"NEGATIVE"}
    Moods <- OneMood
    MaxRestarts = 1
    JobLimit = 1
INVARIANTS ReadyIsRead VerdictFits ChipsFit HoursAreCounted ReadingsOfTheirPlace
PROPERTIES ReplacedStaysOpen  WaitersAnswered  QueuedSettles
CHECK_DEADLOCK FALSE
