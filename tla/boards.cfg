SPECIFICATION BoardsSpec
CONSTANTS
    p1 = p1
    p2 = p2
    p3 = p3
    w1 = w1
    w2 = w2
    l1 = l1
    s1 = s1
    PUs = {p1, p2, p3}
    Wards = {w1, w2}
    LGAs = {l1}
    States = {s1}
    Within <- MCWithin
    Contests = {"president"}
    Votes <- MCVotes
    Seat = {w1, w2}
    Alarms = {p1}
    Screens = {d1}
INVARIANTS  CountsAddUp StandingsTellWinner
PROPERTIES DashboardCatchesUp
CHECK_DEADLOCK FALSE
