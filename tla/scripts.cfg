SPECIFICATION ScriptSpec
CONSTANTS
    a = a
    b = b
    c = c
    k1 = k1
    k2 = k2
    k3 = k3
    v1 = v1
    v2 = v2
    v3 = v3
    v4 = v4
    Node = {a, b, c}
    NoNode = NoNode
    Key = {k1, k2, k3}
    Value = {v1, v2, v3, v4}
    Absent = Absent
    Placement <- MCPlacement
    KeyHash <- MCKeyHash
    Client = {client}
    main = client
    Data <- MCData
    NewData = v4
    InitialNodes = {a, b, c}
    Temporary = {}
    Http = FALSE
    Awaited = "none"
    Punctual = TRUE
    Budget <- BudgetScripts
INVARIANTS
    ScriptTypeOK
    ReportedOwnersHoldKeys
    FailoverWriteKept
    RecoveredServesOldData
    RemovalRepairsKeys
PROPERTIES
    ScriptEnds
CHECK_DEADLOCK FALSE
