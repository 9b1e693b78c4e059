SPECIFICATION FairSpec
CONSTANTS
    a = a
    b = b
    Node = {a, b}
    Members <- MCMembers
    HeartbeatTimeout = 6
    RequestTimeout = 4
    SleepTime = 2
    Latency = 1
    MaxAge = 8
INVARIANTS
    TypeOK
    SteadyAgesBounded
    PresumedDeadOnlyIfSlowed
PROPERTIES
    FailuresDetected
    RunningNodesServe
