SPECIFICATION Spec
CONSTANTS
    None = None
    Absent = Absent
    Standalone <- MCStandalone
    Operators = {op}
    Admin = boss
    Addressed = {op, boss}
    LeadTime <- MCLeadTime
    Chats = {h1, h2}
    UserLimit = 2
    GlobalLimit = 2
    LastDay = 3
    MaxId = 3
    MaxTemplate = 4
    MaxActivity = 2
    Budgets <- EveryWeek
CHECK_DEADLOCK FALSE
PROPERTIES
    CadenceKept
