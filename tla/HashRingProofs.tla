---------------------------- MODULE HashRingProofs ----------------------------
(***************************************************************************)
(* For every number of nodes and of virtual nodes per node, and for every  *)
(* hash without collisions: after any joins and leaves, _ring is the ring  *)
(* of the current members.  A position is put in by add_node of the node   *)
(* that placed it there, and only remove_node of that node takes it out;   *)
(* that the positions of distinct nodes are distinct is what makes the     *)
(* invariant inductive.  The list is the sorted list of the keys of the    *)
(* dict, so the binary search and the index walk answer what the           *)
(* definitions over the whole ring say, and one change moves only the keys *)
(* that RingProofs says it may.                                            *)
(***************************************************************************)
EXTENDS HashRing, RingProofs

\* The members and their hashes.
MembersOK == placement \in [Node -> SUBSET Hash] /\ nodes \in SUBSET Node

\* The dict is the ring of the members.
DictMatchesMembers == ring = RingOf(placement, nodes)

\* The list is what the last change has sorted.
ListMatchesRing == sorted_keys = Sorted(DOMAIN ring)

\* The inductive invariant.
RingInv == MembersOK /\ Placed(placement) /\ DictMatchesMembers /\ ListMatchesRing

\* The empty ring satisfies the inductive invariant.
LEMMA RingInvInit == Init => RingInv
<1> SUFFICES ASSUME Init PROVE RingInv
  OBVIOUS
<1>1. placement \in [Node -> SUBSET Hash] /\ Disjoint(placement) /\ nodes = {}
  BY DEF Init, kSubset
<1>2. ASSUME NEW n \in Node PROVE placement[n] # {}
  <2>1. Cardinality(placement[n]) = Replicas
    BY DEF Init, kSubset
  <2> QED
    BY <2>1, FS_EmptySet, ReplicasAssumption
<1>3. Placed(placement)
  <2>1. placement \in [Node -> SUBSET Nat]
    BY <1>1, HashAssumption
  <2> QED
    BY <1>1, <1>2, <2>1 DEF Placed
<1>4. ring = RingOf(placement, nodes)
  <2>1. Positions(placement, nodes) = {}
    BY <1>1 DEF Positions
  <2> QED
    BY <2>1 DEF Init, RingOf
<1>5. sorted_keys = Sorted(DOMAIN ring)
  <2>1. DOMAIN ring = {} /\ sorted_keys = <<>>
    BY DEF Init
  <2>2. Sorted({}) = <<>>
    BY FS_EmptySet DEF Sorted
  <2> QED
    BY <2>1, <2>2
<1> QED
  BY <1>1, <1>3, <1>4, <1>5 DEF RingInv, MembersOK, DictMatchesMembers, ListMatchesRing

\* add_node: the new node's positions are nobody else's.
LEMMA RingInvAdd ==
    ASSUME RingInv, NEW n \in Node, AddNode(n)
    PROVE  RingInv'
<1> DEFINE M == nodes \cup {n}
<1>1. /\ placement' = placement /\ nodes' = M /\ M \in SUBSET Node
      /\ nodes \in SUBSET Node /\ Placed(placement) /\ ring = RingOf(placement, nodes)
  BY DEF RingInv, MembersOK, DictMatchesMembers, AddNode
<1>2. DOMAIN ring' = Positions(placement, M)
  <2>1. DOMAIN ring = Positions(placement, nodes)
    BY <1>1, RingOfPositions
  <2>2. DOMAIN ring' = DOMAIN ring \cup placement[n]
    BY DEF AddNode
  <2> QED
    BY <2>1, <2>2 DEF Positions
<1>3. ASSUME NEW p \in Positions(placement, M)
      PROVE  ring'[p] = RingOf(placement, M)[p]
  <2>1. \A m \in M : \A q \in placement[m] : RingOf(placement, M)[q] = m
    <3> HIDE DEF M
    <3> QED
      BY <1>1, RingOfPositions
  <2>2. \A m \in nodes : \A q \in placement[m] : ring[q] = m
    BY <1>1, RingOfPositions
  <2>3. ring'[p] = IF p \in placement[n] THEN n ELSE ring[p]
    BY <1>2 DEF AddNode
  <2>4. PICK m \in M : p \in placement[m]
    BY DEF Positions
  <2>5. CASE p \in placement[n]
    BY <2>1, <2>3, <2>5
  <2>6. CASE p \notin placement[n]
    BY <2>1, <2>2, <2>3, <2>4, <2>6
  <2> QED
    BY <2>5, <2>6
<1>4. ring' = RingOf(placement, M)
  BY <1>2, <1>3 DEF AddNode, RingOf
<1>5. ListMatchesRing'
  BY DEF AddNode, ListMatchesRing
<1> QED
  BY <1>1, <1>4, <1>5 DEF RingInv, MembersOK, DictMatchesMembers

\* remove_node: what is left are the other members' positions.
LEMMA RingInvRemove ==
    ASSUME RingInv, NEW n \in Node, RemoveNode(n)
    PROVE  RingInv'
<1> DEFINE M == nodes \ {n}
<1>1. /\ placement' = placement /\ nodes' = M /\ M \in SUBSET Node
      /\ nodes \in SUBSET Node /\ Placed(placement) /\ ring = RingOf(placement, nodes)
  BY DEF RingInv, MembersOK, DictMatchesMembers, RemoveNode
<1>2. Others(ring, n) = Positions(placement, M)
  BY <1>1, OthersArePositions
<1>3. ring' = [p \in Positions(placement, M) |-> ring[p]]
  BY <1>2 DEF RemoveNode, Restrict
<1>4. ASSUME NEW p \in Positions(placement, M)
      PROVE  ring[p] = RingOf(placement, M)[p]
  <2>1. PICK m \in M : p \in placement[m]
    BY DEF Positions
  <2>2. \A q \in placement[m] : ring[q] = m
    BY <1>1, <2>1, RingOfPositions
  <2>3. \A q \in placement[m] : RingOf(placement, M)[q] = m
    <3> HIDE DEF M
    <3> QED
      BY <1>1, <2>1, RingOfPositions
  <2> QED
    BY <2>1, <2>2, <2>3
<1>5. ring' = RingOf(placement, M)
  BY <1>3, <1>4 DEF RingOf
<1>6. ListMatchesRing'
  BY DEF RemoveNode, ListMatchesRing
<1> QED
  BY <1>1, <1>5, <1>6 DEF RingInv, MembersOK, DictMatchesMembers

\* Every join and leave keeps it.
LEMMA RingInvNext == RingInv /\ [Next]_vars => RingInv'
<1> SUFFICES ASSUME RingInv, [Next]_vars PROVE RingInv'
  OBVIOUS
<1>1. ASSUME NEW n \in Node, AddNode(n) PROVE RingInv'
  BY <1>1, RingInvAdd
<1>2. ASSUME NEW n \in Node, RemoveNode(n) PROVE RingInv'
  BY <1>2, RingInvRemove
<1>3. CASE UNCHANGED vars
  BY <1>3 DEF RingInv, MembersOK, Placed, Disjoint, DictMatchesMembers, ListMatchesRing, vars
<1> QED
  BY <1>1, <1>2, <1>3 DEF Next

\* So it holds throughout.
LEMMA RingInvAlways == Spec => []RingInv
BY RingInvInit, RingInvNext, PTL DEF Spec

\* What follows for the dict and the list.
LEMMA RingState ==
    ASSUME RingInv
    PROVE  /\ Sortable(DOMAIN ring) /\ sorted_keys = Sorted(DOMAIN ring)
           /\ Len(sorted_keys) = Cardinality(DOMAIN ring)
           /\ Cardinality(DOMAIN ring) \in Nat
           /\ DOMAIN ring = {} <=> Cardinality(DOMAIN ring) = 0
<1>1. DOMAIN ring \in SUBSET Hash
  <2>1. DOMAIN ring = Positions(placement, nodes)
    BY RingOfPositions DEF RingInv, MembersOK, DictMatchesMembers
  <2> QED
    BY <2>1 DEF RingInv, MembersOK, Positions
<1>2. Sortable(DOMAIN ring)
  BY <1>1, HashAssumption, FS_Subset DEF Sortable
<1> QED
  BY <1>2, SortedLength, FS_EmptySet DEF RingInv, ListMatchesRing, Sortable

\* The list and the dict have the same keys.
LEMMA ListHasRing ==
    ASSUME RingInv
    PROVE  {sorted_keys[i] : i \in DOMAIN sorted_keys} = DOMAIN ring
<1> DEFINE S == DOMAIN ring
<1>1. Sortable(S) /\ sorted_keys = Sorted(S)
  BY RingState
<1>2. DOMAIN Sorted(S) = 1 .. Cardinality(S)
  BY <1>1, SortedLength
<1>3. \A i \in 1 .. Cardinality(S) : Sorted(S)[i] \in S
  BY <1>1, SortedElement
<1>4. \A x \in S : \E i \in 1 .. Cardinality(S) : Sorted(S)[i] = x
  BY <1>1, SortedAtRank
<1> HIDE DEF S
<1> QED
  BY <1>1, <1>2, <1>3, <1>4 DEF S

\* A sequence over a set is one over a larger set.
LEMMA SeqOfMore ==
    ASSUME NEW S, NEW T, S \subseteq T, NEW s \in Seq(S)
    PROVE  s \in Seq(T)
<1>1. Len(s) \in Nat /\ s \in [1 .. Len(s) -> T]
  OBVIOUS
<1> QED
  BY <1>1

\* The dict maps hashes to members, and the list is strictly increasing.
LEMMA RingTypes == RingInv => TypeOK
<1> SUFFICES ASSUME RingInv PROVE TypeOK
  OBVIOUS
<1> DEFINE S == DOMAIN ring
<1>1. placement \in [Node -> SUBSET Hash] /\ nodes \in SUBSET Node
  BY DEF RingInv, MembersOK
<1>2. /\ S = Positions(placement, nodes)
      /\ \A p \in S : ring[p] \in nodes
      /\ ring = [p \in S |-> ring[p]]
  <2>1. ring = RingOf(placement, nodes) /\ Placed(placement)
    BY DEF RingInv, DictMatchesMembers
  <2>2. ring = [p \in S |-> ring[p]]
    BY <2>1 DEF RingOf
  <2> QED
    BY <1>1, <2>1, <2>2, RingOfPositions
<1>3. S \subseteq Hash /\ ring \in [S -> nodes]
  BY <1>1, <1>2 DEF Positions
<1>4. Sortable(S) /\ sorted_keys = Sorted(S)
  BY RingState
<1>5. DOMAIN sorted_keys = 1 .. Cardinality(S) /\ sorted_keys \in Seq(S)
  BY <1>4, SortedLength
<1>6. sorted_keys \in Seq(Hash)
  BY <1>3, <1>5, SeqOfMore
<1>7. ASSUME NEW i \in DOMAIN sorted_keys, NEW j \in DOMAIN sorted_keys, i < j
      PROVE  sorted_keys[i] < sorted_keys[j]
  <2>1. i \in 1 .. Cardinality(S) /\ j \in 1 .. Cardinality(S)
    BY <1>5
  <2>2. sorted_keys[i] \in Nat /\ sorted_keys[j] \in Nat
    BY <1>3, <1>4, <2>1, SortedElement, HashAssumption
  <2>3. ~(sorted_keys[j] <= sorted_keys[i])
    <3>1. sorted_keys[j] <= sorted_keys[i] <=> j <= i
      BY <1>4, <2>1, SortedIncreases
    <3> QED
      BY <1>7, <2>1, <3>1
  <2> QED
    BY <2>2, <2>3
<1> QED
  BY <1>1, <1>3, <1>6, <1>7 DEF TypeOK

\* After any joins and leaves each entry of the dict names a member, and the list
\* is strictly increasing (add_node, remove_node).
THEOREM RingTypeCorrect == Spec => []TypeOK
BY RingTypes, RingInvAlways, PTL

\* After any joins and leaves, _ring holds exactly the virtual nodes of the
\* members, and _sorted_keys exactly its keys (add_node, remove_node).
THEOREM RingAlwaysMatchesMembers == Spec => []RingMatchesMembers
<1>1. RingInv => RingMatchesMembers
  BY ListHasRing DEF RingInv, DictMatchesMembers, RingMatchesMembers
<1> QED
  BY <1>1, RingInvAlways, PTL

-----------------------------------------------------------------------------
(***************************************************************************)
(* The lookups                                                             *)
(***************************************************************************)

\* The binary search finds the first virtual node clockwise.
LEMMA GetNodeFindsFirst ==
    ASSUME RingInv, NEW h \in Nat
    PROVE  GetNode(h) = NodeAt(ring, h)
<1>1. CASE DOMAIN ring = {}
  BY <1>1 DEF GetNode, NodeAt
<1>2. CASE DOMAIN ring # {}
  <2> DEFINE S == DOMAIN ring
  <2>1. /\ Sortable(S) /\ sorted_keys = Sorted(S) /\ 0 \in 0 .. Cardinality(S) - 1
        /\ Len(sorted_keys) = Cardinality(S) /\ Cardinality(S) \in Nat
    BY <1>2, RingState
  <2>2. Walked(sorted_keys, h, 0) \in S
    BY <1>2, <2>1, WalkedPlace
  <2>3. Walked(sorted_keys, h, 0) = FirstAfter(S, h)
    BY <2>1, <2>2, FirstOnWalk
  <2>4. Walked(sorted_keys, h, 0) = sorted_keys[StartIndex(sorted_keys, h) + 1]
    <3>1. StartIndex(sorted_keys, h) \in 0 .. Cardinality(S) - 1
      BY <1>2, <2>1, StartIndexIsFirstLater
    <3>2. (StartIndex(sorted_keys, h) + 0) % Len(sorted_keys) = StartIndex(sorted_keys, h)
      BY <2>1, <3>1
    <3> QED
      BY <3>2 DEF Walked
  <2> QED
    BY <1>2, <2>3, <2>4 DEF GetNode, NodeAt
<1> QED
  BY <1>1, <1>2

\* The index walk finds the first virtual node clockwise of another node.
LEMMA SuccessorFindsFirst ==
    ASSUME RingInv, NEW h \in Nat, NEW x
    PROVE  GetSuccessorForKey(h, x) = SuccessorAt(ring, h, x)
<1> DEFINE S == DOMAIN ring
<1> DEFINE O == Others(ring, x)
<1> DEFINE accepted == {o \in 0 .. Len(sorted_keys) - 1 : Candidate(h, o) # x}
<1>1. /\ Sortable(S) /\ sorted_keys = Sorted(S)
      /\ Len(sorted_keys) = Cardinality(S) /\ Cardinality(S) \in Nat
      /\ S = {} <=> Cardinality(S) = 0
  BY RingState
<1>2. O \in SUBSET S
  BY DEF Others
<1>3. ASSUME NEW o \in 0 .. Cardinality(S) - 1
      PROVE  o \in accepted <=> Walked(sorted_keys, h, o) \in O
  <2>1. S # {}
    <3> HIDE DEF O, accepted, S
    <3> QED
      BY <1>1
  <2>2. Walked(sorted_keys, h, o) \in S
    BY <1>1, <2>1, WalkedPlace
  <2> QED
    BY <1>1, <2>2 DEF Candidate, Others
<1>4. CASE accepted = {}
  <2>1. \A o \in 0 .. Cardinality(S) - 1 : Walked(Sorted(S), h, o) \notin O
    BY <1>1, <1>3, <1>4
  <2>2. O = {}
    BY <1>1, <1>2, <2>1, NoneOnWalk
  <2> QED
    BY <1>4, <2>2 DEF GetSuccessorForKey, SuccessorAt
<1>5. CASE accepted # {}
  <2> DEFINE o == Min(accepted)
  <2>1. o \in accepted /\ \A y \in accepted : o <= y
    <3>1. accepted \in SUBSET Nat
      BY <1>1
    <3> QED
      BY <1>5, <3>1, MinIsLeast
  <2>2. o \in 0 .. Cardinality(S) - 1
    BY <1>1, <2>1
  <2>3. Walked(sorted_keys, h, o) \in O
    BY <1>3, <2>1, <2>2
  <2>4. ASSUME NEW before \in 0 .. o - 1 PROVE Walked(sorted_keys, h, before) \notin O
    <3>1. before \in 0 .. Cardinality(S) - 1 /\ ~(o <= before)
      BY <1>1, <2>2
    <3>2. before \notin accepted
      BY <2>1, <3>1
    <3> QED
      BY <1>3, <3>1, <3>2
  <2>5. Walked(sorted_keys, h, o) = FirstAfter(O, h)
    BY <1>1, <1>2, <2>2, <2>3, <2>4, FirstOnWalk
  <2> QED
    BY <1>5, <2>3, <2>5 DEF GetSuccessorForKey, SuccessorAt, Candidate
<1> QED
  BY <1>4, <1>5

\* After any joins and leaves, for every number of virtual nodes: get_node and
\* get_successor_for_key answer the first node clockwise, and the first other one.
THEOREM LookupsAlwaysMeetReference == Spec => []LookupsMeetReference
<1>1. RingInv => LookupsMeetReference
  BY GetNodeFindsFirst, SuccessorFindsFirst, HashAssumption DEF LookupsMeetReference
<1> QED
  BY <1>1, RingInvAlways, PTL

-----------------------------------------------------------------------------
(***************************************************************************)
(* What a change of the membership moves                                   *)
(***************************************************************************)

\* The lookups are those of the ring of the members.
LookupsOfMembers ==
    \A h \in Nat :
        /\ GetNode(h) = NodeAt(RingOf(placement, nodes), h)
        /\ Owners(h) = OwnersAt(RingOf(placement, nodes), h)

\* They are, by the invariant.
LEMMA LookupsFollowMembers == RingInv => LookupsOfMembers
<1> SUFFICES ASSUME RingInv, NEW h \in Nat
             PROVE  /\ GetNode(h) = NodeAt(RingOf(placement, nodes), h)
                    /\ Owners(h) = OwnersAt(RingOf(placement, nodes), h)
  BY DEF LookupsOfMembers
<1>1. ring = RingOf(placement, nodes)
  BY DEF RingInv, DictMatchesMembers
<1>2. GetNode(h) = NodeAt(ring, h)
  BY GetNodeFindsFirst
<1>3. GetSuccessorForKey(h, GetNode(h)) = SuccessorAt(ring, h, GetNode(h))
  BY SuccessorFindsFirst
<1> QED
  BY <1>1, <1>2, <1>3 DEF Owners, OwnersAt, ReplicaAt

\* A step adds a member, removes one, or leaves the members as they are.
LEMMA MembersChangeByOne ==
    ASSUME RingInv, [Next]_vars
    PROVE  /\ placement' = placement /\ nodes \in SUBSET Node /\ nodes' \in SUBSET Node
           /\ \/ nodes' = nodes
              \/ \E n \in Node : n \notin nodes /\ nodes' = nodes \cup {n}
              \/ \E n \in Node : n \in nodes /\ nodes' = nodes \ {n}
<1>1. nodes \in SUBSET Node
  BY DEF RingInv, MembersOK
<1>2. ASSUME NEW n \in Node, AddNode(n)
      PROVE  placement' = placement /\ nodes' = nodes \cup {n}
  BY <1>2 DEF AddNode
<1>3. ASSUME NEW n \in Node, RemoveNode(n)
      PROVE  placement' = placement /\ nodes' = nodes \ {n}
  BY <1>3 DEF RemoveNode
<1>4. CASE UNCHANGED vars
  BY <1>1, <1>4 DEF vars
<1>5. ASSUME NEW n \in Node, AddNode(n) \/ RemoveNode(n)
      PROVE  /\ placement' = placement /\ nodes' \in SUBSET Node
             /\ \/ nodes' = nodes
                \/ n \notin nodes /\ nodes' = nodes \cup {n}
                \/ n \in nodes /\ nodes' = nodes \ {n}
  <2>1. CASE AddNode(n)
    <3>1. placement' = placement /\ nodes' = nodes \cup {n}
      BY <1>2, <2>1
    <3> QED
      BY <1>1, <3>1
  <2>2. CASE RemoveNode(n)
    <3>1. placement' = placement /\ nodes' = nodes \ {n}
      BY <1>3, <2>2
    <3> QED
      BY <1>1, <3>1
  <2> QED
    BY <1>5, <2>1, <2>2
<1> QED
  BY <1>1, <1>4, <1>5 DEF Next

\* What the properties say of one step, for one position.
MovesOnlyAffected(h) ==
    GetNode(h)' # GetNode(h) =>
        \/ GetNode(h)' \in nodes' \ nodes
        \/ GetNode(h) \in (nodes \ nodes') \cup {NoNode}

ChangesOneOwner(h) ==
    /\ Owners(h)' \subseteq Owners(h) \cup (nodes' \ nodes) \/ ~(nodes \subseteq nodes')
    /\ Owners(h) \cap nodes' \subseteq Owners(h)' \/ ~(nodes' \subseteq nodes)
    /\ Owners(h) \cap nodes' # {} => Owners(h)' \cap Owners(h) # {}

\* A change of one member moves only what it must.
LEMMA StepMovesLittle ==
    ASSUME RingInv, LookupsOfMembers, LookupsOfMembers', [Next]_vars, NEW h \in Nat
    PROVE  MovesOnlyAffected(h) /\ ChangesOneOwner(h)
<1> DEFINE At(M)  == NodeAt(RingOf(placement, M), h)
           Own(M) == OwnersAt(RingOf(placement, M), h)
<1>1. /\ nodes \in SUBSET Node /\ nodes' \in SUBSET Node
      /\ GetNode(h) = At(nodes) /\ GetNode(h)' = At(nodes')
      /\ Owners(h) = Own(nodes) /\ Owners(h)' = Own(nodes')
  BY MembersChangeByOne DEF LookupsOfMembers
<1>2. Placed(placement)
  BY DEF RingInv
<1>3. Own(nodes) \in SUBSET nodes /\ Own(nodes') \in SUBSET nodes'
  BY <1>1, <1>2, OwnersAreMembers
<1>4. /\ nodes # {} => At(nodes) \in nodes
      /\ nodes' # {} => At(nodes') \in nodes'
  BY <1>1, <1>2, NodeAtIsMember
<1>5. CASE nodes' = nodes
  BY <1>1, <1>5 DEF MovesOnlyAffected, ChangesOneOwner
<1>6. ASSUME NEW n \in Node, n \notin nodes, nodes' = nodes \cup {n}
      PROVE  MovesOnlyAffected(h) /\ ChangesOneOwner(h)
  <2>1. At(nodes') # n => At(nodes') = At(nodes)
    BY <1>1, <1>2, <1>4, <1>6, NodeAtOfFewer
  <2>2. Own(nodes') \subseteq Own(nodes) \cup {n}
    BY <1>1, <1>2, <1>6, OwnersAfterJoin
  <2>3. nodes # {} => Own(nodes) \cap Own(nodes') # {}
    BY <1>1, <1>2, <1>6, SomeOwnerRemains
  <2> HIDE DEF At, Own
  <2>4. MovesOnlyAffected(h)
    BY <1>1, <1>4, <1>6, <2>1 DEF MovesOnlyAffected
  <2>5. ChangesOneOwner(h)
    BY <1>1, <1>3, <1>6, <2>2, <2>3 DEF ChangesOneOwner
  <2> QED
    BY <2>4, <2>5
<1>7. ASSUME NEW n \in Node, n \in nodes, nodes' = nodes \ {n}
      PROVE  MovesOnlyAffected(h) /\ ChangesOneOwner(h)
  <2>1. At(nodes) # n => At(nodes') = At(nodes)
    BY <1>1, <1>2, <1>4, <1>7, NodeAtOfFewer
  <2>2. \A x \in Own(nodes) : x # n => x \in Own(nodes')
    BY <1>1, <1>2, <1>7, OwnerStays
  <2> HIDE DEF At, Own
  <2>3. MovesOnlyAffected(h)
    BY <1>1, <1>4, <1>7, <2>1 DEF MovesOnlyAffected
  <2>4. ChangesOneOwner(h)
    BY <1>1, <1>3, <1>7, <2>2 DEF ChangesOneOwner
  <2> QED
    BY <2>3, <2>4
<1> QED
  BY <1>5, <1>6, <1>7, MembersChangeByOne

\* A join moves keys only to the node that joins, a leave only the keys of the
\* node that leaves, for every number of nodes and of virtual nodes.
THEOREM OnlyAffectedKeysEverMove == Spec => OnlyAffectedKeysMove
<1>1. RingInv /\ LookupsOfMembers /\ LookupsOfMembers' /\ [Next]_vars
         => [\A h \in Hash : MovesOnlyAffected(h)]_vars
  BY StepMovesLittle, HashAssumption
<1>2. RingInv /\ LookupsOfMembers /\ LookupsOfMembers' /\ [Next]_vars
         => [\A h \in Hash :
               GetNode(h)' # GetNode(h) =>
                  \/ GetNode(h)' \in nodes' \ nodes
                  \/ GetNode(h) \in (nodes \ nodes') \cup {NoNode}]_vars
  BY <1>1 DEF MovesOnlyAffected
<1> QED
  BY <1>2, RingInvAlways, LookupsFollowMembers, PTL DEF Spec, OnlyAffectedKeysMove

\* One change of the membership replaces at most one of a key's two owners, for
\* every number of nodes and of virtual nodes.
THEOREM OwnersAlwaysChangeByOne == Spec => OwnersChangeByOne
<1>1. RingInv /\ LookupsOfMembers /\ LookupsOfMembers' /\ [Next]_vars
         => [\A h \in Hash : ChangesOneOwner(h)]_vars
  BY StepMovesLittle, HashAssumption
<1>2. RingInv /\ LookupsOfMembers /\ LookupsOfMembers' /\ [Next]_vars
         => [\A h \in Hash :
               /\ Owners(h)' \subseteq Owners(h) \cup (nodes' \ nodes) \/ ~(nodes \subseteq nodes')
               /\ Owners(h) \cap nodes' \subseteq Owners(h)' \/ ~(nodes' \subseteq nodes)
               /\ Owners(h) \cap nodes' # {} => Owners(h)' \cap Owners(h) # {}]_vars
  BY <1>1 DEF ChangesOneOwner
<1> QED
  BY <1>2, RingInvAlways, LookupsFollowMembers, PTL DEF Spec, OwnersChangeByOne

=============================================================================
