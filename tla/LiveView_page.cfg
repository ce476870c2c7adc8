SPECIFICATION Spec
CONSTANTS
    MaxPost = 2
    Bases = {rest}
    Places = {here, there}
    Stations = {s1, s2}
    MaxTrail = 2
    MaxOthers = 1
    Settings <- MCSettings
    Clients = {c1, c2}
    Budgets <- MCBudgets
    None = None
    LogPolls = {l1, l2}
    MapPolls = {m1, m2}
CHECK_DEADLOCK FALSE
INVARIANTS
    LogPrefix
    TrailsComplete
    NewsTold
    AirAccounted
PROPERTIES
    AirClears
