SPECIFICATION ReliableSpec
CONSTANTS
    w1 = w1
    l1 = l1
    s1 = s1
    Incidents <- Kind3
    Wards = {w1}
    LGAs = {l1}
    States = {s1}
    Above <- OneWard
    Situations <- Four
    Instances = {"i1"}
    HasRedis = TRUE
    Overlap = FALSE
    Acknowledged = {l1}
    Opened = {l1}
INVARIANTS RowJustified  DrainedIsCurrent
PROPERTIES NoFlap
