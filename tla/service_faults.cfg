SPECIFICATION FairSpec
CONSTANTS
    a = a
    b = b
    c = c
    d = d
    k1 = k1
    k2 = k2
    Node = {a, b, c}
    NoNode = NoNode
    Key = {k1}
    Value = {v1}
    Absent = Absent
    Placement <- MCPlacement3
    KeyHash <- MCKeyHash1
    Client = {client}
    InitialNodes = {a, b, c}
    Temporary = {v1}
    Http = TRUE
    Awaited = "none"
    Punctual = FALSE
    Budget <- BudgetFaults
INVARIANTS
    HeartbeatsOnlyForMembers
PROPERTIES
    BackgroundDrains
    CallsReturn
CHECK_DEADLOCK FALSE
