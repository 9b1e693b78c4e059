SPECIFICATION Spec
CONSTANTS
    Node = {a, b, c}
    NoNode = NoNode
    Hash <- MCHash
    Replicas = 2
    MaxOverlap = 2
SYMMETRY Symmetry
INVARIANTS
    TypeOK
    CopyAnswersARing
    OnlyJoinsTearACopyAtRest
PROPERTY ImplementsHashRing
