SPECIFICATION Spec
CONSTANTS
    ada = ada
    bob = bob
    W1AW = W1AW
    K2XY = K2XY
    ANON1 = ANON1
    PENDING = PENDING
    People <- MCPeople
    Calls <- MCCalls
    Anons <- MCAnons
    Placeholder <- MCPlaceholder
    MaxNet = 2
    MaxPat = 2
    MaxActive = 1
    Wizards = {w1, w2}
    Callbacks = {k1, k2}
    Budgets <- MCBudgets
    None = None
    Tokens = {t1, t2}
    Claimers = {r1, r2}
    NoToken = NoToken
SYMMETRY Symmetries
CHECK_DEADLOCK FALSE
INVARIANTS
    TypeOK
    ClaimedOnce
    SetupWhole
    FirstAdminOnce
