SPECIFICATION Spec
CONSTANTS
    a = a
    b = b
    c = c
    d = d
    k1 = k1
    k2 = k2
    Node = {a, b, c}
    NoNode = NoNode
    Key = {k1}
    Value = {v1, v2}
    Absent = Absent
    Placement <- MCPlacement3
    KeyHash <- MCKeyHash1
    Client = {client}
    InitialNodes = {b, c}
    Temporary = {}
    Http = FALSE
    Awaited = "none"
    Punctual = TRUE
    Budget <- BudgetOverwrite
INVARIANTS
    AckedIsDurable
CHECK_DEADLOCK FALSE
