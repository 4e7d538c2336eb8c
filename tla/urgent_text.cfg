SPECIFICATION BoundedIntakeSpec
CONSTANTS
    text = text
    spoken = spoken
    empty = empty
    typed = typed
    clip = clip
    Messages = {text, spoken, empty}
    Forms = {typed, clip}
    Payload <- Posted
    Clips = {clip}
    Help = {}
    Registered = {text, spoken}
    ByWard = {typed}
    Urgent = {text, spoken, clip}
    Officers = {1}
    MaxFaults = 1
    MaxReports = 2
INVARIANT EveryUrgentEarnsPass

CHECK_DEADLOCK FALSE
