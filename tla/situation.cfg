SPECIFICATION SituationSpec
CONSTANTS
    u1 = u1
    Units = {u1}
    Fields <- TwoFields
    Alarming = {"bvas"}
    Reports <- AllReports
    Slots = {1}
    r1 = r1
    o1 = o1
    i1 = i1
    Staffed = {r1}
    Users = {r1, o1}
    Keys <- AllKeys
    Processes = {i1}
    Tasks = {1, 2}
    WardOfficers = {o1}
    LgaOfficers = {}
    HasRedis = TRUE
    Openers = {r1}
    Heard = {"silent", "over"}
    MaxHour = 1
    MaxFailures = 1
    w1 = w1
    l1 = l1
    s1 = s1
    Incidents <- Kind3
    Wards = {w1}
    LGAs = {l1}
    States = {s1}
    Above <- OneWard
    Situations <- Pair
    Instances = {"i1"}
    Overlap = TRUE
    Acknowledged = {}
    Opened = {}
INVARIANTS ObservedWhileCounting PushedOnce
PROPERTIES InferredNeverBack ChangesAnnounced ReachesAll CatchesUp
CHECK_DEADLOCK FALSE
