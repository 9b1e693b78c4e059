SPECIFICATION Spec
CONSTANTS
    a = a
    b = b
    c = c
    d = d
    k1 = k1
    k2 = k2
    Node = {a, b, c, d}
    NoNode = NoNode
    Key = {k1, k2}
    Value = {v1, v2, v3}
    Absent = Absent
    Placement <- MCPlacement4
    KeyHash <- MCKeyHash2
    Client = {client}
    InitialNodes = {b, c, d}
    Temporary = {}
    Http = FALSE
    Awaited = "writes"
    Punctual = TRUE
    Budget <- BudgetOverlap
INVARIANTS
    OnlyPutValues
    AckedStaysReadable
CHECK_DEADLOCK FALSE
