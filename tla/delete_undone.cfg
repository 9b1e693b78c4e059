SPECIFICATION Spec
CONSTANTS
    a = a
    b = b
    c = c
    d = d
    k1 = k1
    k2 = k2
    Node = {a, b, c}
    NoNode = NoNode
    Key = {k1}
    Value = {v1}
    Absent = Absent
    Placement <- MCPlacement3
    KeyHash <- MCKeyHash1
    Client = {client}
    InitialNodes = {a, b, c}
    Temporary = {}
    Http = FALSE
    Awaited = "none"
    Punctual = TRUE
    Budget <- BudgetDelete
INVARIANTS
    GetsLatestAck
CHECK_DEADLOCK FALSE
