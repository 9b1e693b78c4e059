SPECIFICATION Spec
CONSTANTS
    a = a
    b = b
    c = c
    d = d
    k1 = k1
    k2 = k2
    Node = {a, b, c}
    NoNode = NoNode
    Key = {k1}
    Value = {v1, v2, v3}
    Absent = Absent
    Placement <- MCPlacement3
    KeyHash <- MCKeyHash1
    Client = {client}
    InitialNodes = {a, b, c}
    Temporary = {}
    Http = TRUE
    Awaited = "all"
    Punctual = TRUE
    Budget <- BudgetFailover
INVARIANTS
    GetsLatestAck
CHECK_DEADLOCK FALSE
