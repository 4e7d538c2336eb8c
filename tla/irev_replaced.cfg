SPECIFICATION SettlingSpec
CONSTANTS
    p1 = p1
    d0 = d0
    d1 = d1
    d2 = d2
    PUs = {p1}
    Docs = {d1, d2}
    Eligible = {d1, d2}
    Legible = {d1, d2}
    Figures = {"a", "b"}
    Reading <- Differing
    MaxAttempts = 2
    Slots = {"j1"}
    MaxEvents = 3
PROPERTIES ReplacementComesShown
