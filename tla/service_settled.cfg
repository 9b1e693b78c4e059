SPECIFICATION Spec
CONSTANTS
    a = a
    b = b
    c = c
    d = d
    k1 = k1
    k2 = k2
    Node = {a, b, c, d}
    NoNode = NoNode
    Key = {k1, k2}
    Value = {v1, v2}
    Absent = Absent
    Placement <- MCPlacement4
    KeyHash <- MCKeyHash2
    Client = {client}
    InitialNodes = {b, c, d}
    Temporary = {}
    Http = FALSE
    Awaited = "all"
    Punctual = TRUE
    Budget <- BudgetSettled
INVARIANTS
    TypeOK
    GetsLatestAck
    OwnersHoldAcked
    JoinsKeepTwoCopies
CHECK_DEADLOCK FALSE
