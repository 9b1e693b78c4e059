SPECIFICATION FairSpec
CONSTANTS
    never = never
    Key = {k1, k2, k3}
    Value = {v1}
    Absent = Absent
    Never = never
    Ttl <- MCTtl
    Thread = {caller, background}
    MaxItems = 2
    MaxTime = 2
    MaxPuts = 3
INVARIANTS
    TypeOK
    WithinLimit
    RecentlyUsedKept
    HeapCoversEntries
PROPERTIES
    ImplementsForgetfulMap
    ExpiredIsReclaimed
