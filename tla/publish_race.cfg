SPECIFICATION ReliableSpec
CONSTANTS
    p1 = p1
    p2 = p2
    w1 = w1
    l1 = l1
    s1 = s1
    PUs = {p1, p2}
    Wards = {w1}
    LGAs = {l1}
    States = {s1}
    Nations = {}
    Parent <- OneWard
    Typed = {p1, p2}
    Figures = {"a"}
    Slots = {"r1", "r2"}
INVARIANT ApprovalPublished
