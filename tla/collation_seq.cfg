SPECIFICATION ReliableSpec
CONSTANTS
    p1 = p1
    p2 = p2
    w1 = w1
    l1 = l1
    s1 = s1
    PUs = {p1, p2}
    Wards = {w1}
    LGAs = {l1}
    States = {s1}
    Nations = {}
    Parent <- OneWard
    Typed = {p1, p2, l1}
    Figures = {"a", "b"}
    Slots = {"r1"}
INVARIANTS TotalsAgree AuditAgrees
PROPERTIES ReturnHolds FollowsLifecycle ApprovedIsCounted
