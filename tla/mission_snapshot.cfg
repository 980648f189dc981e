\* Two handlers that post two of three missions, overlapping or not, one of them rejected.
CONSTANTS
    Handlers = {h1, h2}
    Missions = {m1, m2}
    Rejected = {bad}
    Attempts = 2
    MaxPosts = 2
SPECIFICATION Spec
INVARIANTS
    PlanIsOfTheMission
    FenceFitsPath
SYMMETRY Symmetry
CHECK_DEADLOCK FALSE
