SPECIFICATION Spec
CONSTANTS
    Node = {a, b, c, d}
    NoNode = NoNode
    Hash <- MCHash
    Replicas = 2
SYMMETRY Symmetry
INVARIANTS
    TypeOK
    RingMatchesMembers
    LookupsMeetReference
PROPERTIES
    OnlyAffectedKeysMove
    OwnersChangeByOne
