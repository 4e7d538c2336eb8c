SPECIFICATION BoundedSpec
CONSTANTS
    p1 = p1
    p2 = p2
    w1 = w1
    l1 = l1
    s1 = s1
    PUs = {p1}
    Wards = {w1}
    LGAs = {l1}
    States = {s1}
    Nations = {}
    Parent <- OneUnit
    Typed = {p1}
    Figures = {a, b}
    Slots = {r1, r2}
    MaxRequests = 6
SYMMETRY Symmetry
CHECK_DEADLOCK FALSE
INVARIANTS MarksOnlyWhileReturned CountedOnce
