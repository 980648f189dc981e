\* A second mission is posted while a path is planned from the first.
CONSTANTS
    Handlers = {h1}
    Missions = {m1, m2}
    Rejected = {}
    Attempts = 1
    MaxPosts = 2
SPECIFICATION Spec
INVARIANT
    PartsAreOfOneMission
CHECK_DEADLOCK FALSE
