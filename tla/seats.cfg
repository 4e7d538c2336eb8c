SPECIFICATION BoundedSeatsSpec
CONSTANTS
    PUs = {"p1"}
    Wards = {"w1"}
    LGAs = {"l1"}
    States = {"s1"}
    Parent <- Up
    Accounts = {a1, a2}
    Phones = {n1, n2}
    Clerks = {c1, c2}
    Name <- Names
    Code <- Codes
    Leadership = {b1}
    Coordinators = {}
    Cap = 2
SYMMETRY Alike
INVARIANTS OneAgentPerUnit  TheRightAreTold
