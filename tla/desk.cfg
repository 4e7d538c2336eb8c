SPECIFICATION DeskSpec
CONSTANTS
    text = text
    spoken = spoken
    empty = empty
    typed = typed
    clip = clip
    Messages = {text, spoken, empty}
    Forms = {typed, clip}
    Payload <- Posted
    Clips = {clip}
    Help = {}
    Registered = {text, spoken}
    ByWard = {typed}
    Urgent = {text, spoken, clip}
    Officers = {1}
    MaxFaults = 1
    MaxReports = 2
    u1 = u1
    u2 = u2
    u3 = u3
    v1 = v1
    v2 = v2
    l1 = l1
    l2 = l2
    Units = {u1, u2, u3}
    WardsOf <- MCWardsOf
    UnitsIn <- MCUnitsIn
    SeatOf <- MCSeatOf
    Written <- MCWritten
    Scanned <- MCScanned
INVARIANTS AnswersAreTrue    OfficialPagesAgree
 
CHECK_DEADLOCK FALSE
