------------------------------ MODULE RingProofs ------------------------------
(***************************************************************************)
(* Facts about the lookups of module Ring, for every placement: a lookup   *)
(* answers a member, it keeps its answer when other members go, and so one *)
(* membership change replaces at most one of a key's two owners.  Then the *)
(* searches of the code in the sorted list.                                *)
(***************************************************************************)
EXTENDS Ring, TLAPS, WellFoundedInduction, FiniteSetTheorems

\* Every node has virtual nodes, and no two nodes share a position.
Placed(placement) ==
    /\ placement \in [Node -> SUBSET Nat]
    /\ \A n \in Node : placement[n] # {}
    /\ Disjoint(placement)

-----------------------------------------------------------------------------
(***************************************************************************)
(* Positions                                                               *)
(***************************************************************************)

\* A nonempty set of positions has a smallest one, which Min denotes.
LEMMA MinIsLeast ==
    ASSUME NEW S \in SUBSET Nat, S # {}
    PROVE  Min(S) \in S /\ \A y \in S : Min(S) <= y
<1>1. PICK x \in S : \A y \in S : ~(<<y, x>> \in OpToRel(<, Nat))
  BY NatLessThanWellFounded, WFMin
<1>2. \A y \in S : x <= y
  <2>1. SUFFICES ASSUME NEW y \in S PROVE x <= y
    OBVIOUS
  <2>2. x \in Nat /\ y \in Nat
    OBVIOUS
  <2>3. ~(y < x)
    BY <1>1, <2>2 DEF OpToRel
  <2> QED
    BY <2>2, <2>3
<1> QED
  BY <1>2 DEF Min

\* The first position after h is a position.
LEMMA FirstAfterIsPosition ==
    ASSUME NEW S \in SUBSET Nat, S # {}, NEW h \in Nat
    PROVE  FirstAfter(S, h) \in S
<1>1. CASE Later(S, h) # {}
  <2>1. Later(S, h) \in SUBSET Nat
    BY DEF Later
  <2> QED
    BY <1>1, <2>1, MinIsLeast DEF FirstAfter, Later
<1>2. CASE Later(S, h) = {}
  BY <1>2, MinIsLeast DEF FirstAfter
<1> QED
  BY <1>1, <1>2

\* The least element of a set is the least of every subset it belongs to.
LEMMA MinOfSubset ==
    ASSUME NEW S \in SUBSET Nat, NEW T \in SUBSET S, Min(S) \in T
    PROVE  Min(T) = Min(S)
<1>1. Min(S) \in S /\ \A y \in S : Min(S) <= y
  BY MinIsLeast
<1>2. Min(T) \in T /\ \A y \in T : Min(T) <= y
  BY MinIsLeast
<1>3. Min(S) <= Min(T) /\ Min(T) <= Min(S) /\ Min(S) \in Nat /\ Min(T) \in Nat
  BY <1>1, <1>2
<1> QED
  BY <1>3

\* A position that comes first comes first among fewer positions too.
LEMMA FirstAfterOfSubset ==
    ASSUME NEW S \in SUBSET Nat, NEW T \in SUBSET S, NEW h \in Nat,
           FirstAfter(S, h) \in T
    PROVE  FirstAfter(T, h) = FirstAfter(S, h)
<1>1. Later(S, h) \in SUBSET Nat /\ Later(T, h) \in SUBSET Later(S, h)
  BY DEF Later
<1>2. CASE Later(S, h) # {}
  <2>1. Min(Later(S, h)) \in Later(S, h)
    BY <1>1, <1>2, MinIsLeast
  <2>2. Min(Later(S, h)) \in Later(T, h)
    BY <1>2, <2>1 DEF FirstAfter, Later
  <2> QED
    BY <1>1, <1>2, <2>2, MinOfSubset DEF FirstAfter
<1>3. CASE Later(S, h) = {}
  <2>1. Later(T, h) = {}
    BY <1>1, <1>3
  <2> QED
    BY <1>3, <2>1, MinOfSubset DEF FirstAfter
<1> QED
  BY <1>2, <1>3

-----------------------------------------------------------------------------
(***************************************************************************)
(* The ring of a set of members                                            *)
(***************************************************************************)

\* The ring maps exactly the members' positions, each to the node it is of.
LEMMA RingOfPositions ==
    ASSUME NEW placement, Placed(placement), NEW M \in SUBSET Node
    PROVE  /\ DOMAIN RingOf(placement, M) = Positions(placement, M)
           /\ Positions(placement, M) \in SUBSET Nat
           /\ \A n \in M : \A p \in placement[n] : RingOf(placement, M)[p] = n
           /\ \A p \in Positions(placement, M) :
                 RingOf(placement, M)[p] \in M /\ p \in placement[RingOf(placement, M)[p]]
<1>1. DOMAIN RingOf(placement, M) = Positions(placement, M)
  BY DEF RingOf
<1>2. Positions(placement, M) \in SUBSET Nat
  BY DEF Positions, Placed
<1>3. ASSUME NEW p \in Positions(placement, M)
      PROVE  RingOf(placement, M)[p] \in M /\ p \in placement[RingOf(placement, M)[p]]
  <2>1. \E n \in M : p \in placement[n]
    BY DEF Positions
  <2>2. RingOf(placement, M)[p] = CHOOSE n \in M : p \in placement[n]
    BY DEF RingOf
  <2> QED
    BY <2>1, <2>2
<1>4. ASSUME NEW n \in M, NEW p \in placement[n]
      PROVE  RingOf(placement, M)[p] = n
  <2>1. p \in Positions(placement, M)
    BY DEF Positions
  <2>2. RingOf(placement, M)[p] \in M /\ p \in placement[RingOf(placement, M)[p]]
    BY <1>3, <2>1
  <2>3. DOMAIN placement = Node
    BY DEF Placed
  <2> QED
    BY <2>2, <2>3 DEF Placed, Disjoint
<1> QED
  BY <1>1, <1>2, <1>3, <1>4

\* The positions of fewer members are fewer positions.
LEMMA PositionsOfFewer ==
    ASSUME NEW placement, Placed(placement), NEW M \in SUBSET Node, NEW T \in SUBSET M
    PROVE  /\ Positions(placement, T) \in SUBSET Positions(placement, M)
           /\ M # {} => Positions(placement, M) # {}
<1>1. Positions(placement, T) \in SUBSET Positions(placement, M)
  BY DEF Positions
<1>2. ASSUME M # {} PROVE Positions(placement, M) # {}
  <2>1. PICK n \in M : TRUE
    BY <1>2
  <2>2. PICK p \in placement[n] : TRUE
    BY <2>1 DEF Placed
  <2> QED
    BY <2>1, <2>2 DEF Positions
<1> QED
  BY <1>1, <1>2

\* A ring with members finds one of them; an empty ring finds none.
LEMMA NodeAtIsMember ==
    ASSUME NEW placement, Placed(placement), NEW M \in SUBSET Node, NEW h \in Nat
    PROVE  /\ M # {} => NodeAt(RingOf(placement, M), h) \in M
           /\ M = {} => NodeAt(RingOf(placement, M), h) = NoNode
<1>1. CASE M # {}
  <2>1. Positions(placement, M) # {} /\ Positions(placement, M) \in SUBSET Nat
    BY <1>1, PositionsOfFewer, RingOfPositions
  <2>2. FirstAfter(Positions(placement, M), h) \in Positions(placement, M)
    BY <2>1, FirstAfterIsPosition
  <2> QED
    BY <1>1, <2>1, <2>2, RingOfPositions DEF NodeAt
<1>2. CASE M = {}
  <2>1. DOMAIN RingOf(placement, M) = {}
    BY <1>2 DEF RingOf, Positions
  <2> QED
    BY <1>2, <2>1 DEF NodeAt
<1> QED
  BY <1>1, <1>2

\* A key's primary stays its primary when other members leave.
LEMMA NodeAtOfFewer ==
    ASSUME NEW placement, Placed(placement), NEW M \in SUBSET Node, NEW T \in SUBSET M,
           NEW h \in Nat, NodeAt(RingOf(placement, M), h) \in T
    PROVE  NodeAt(RingOf(placement, T), h) = NodeAt(RingOf(placement, M), h)
<1> DEFINE PM == Positions(placement, M)
           PT == Positions(placement, T)
           p  == FirstAfter(PM, h)
<1>1. T \in SUBSET Node /\ M # {} /\ T # {}
  OBVIOUS
<1>2. PM # {} /\ PM \in SUBSET Nat /\ PT \in SUBSET PM /\ PT # {}
  BY <1>1, PositionsOfFewer, RingOfPositions
<1>3. p \in PM
  BY <1>2, FirstAfterIsPosition
<1>4. NodeAt(RingOf(placement, M), h) = RingOf(placement, M)[p]
  BY <1>2, RingOfPositions DEF NodeAt
<1>5. p \in placement[RingOf(placement, M)[p]] /\ RingOf(placement, M)[p] \in T
  BY <1>3, <1>4, RingOfPositions
<1>6. p \in PT /\ RingOf(placement, T)[p] = RingOf(placement, M)[p]
  <2>1. \A n \in T : \A q \in placement[n] : RingOf(placement, T)[q] = n
    BY <1>1, RingOfPositions
  <2>2. p \in PT
    BY <1>5 DEF Positions
  <2> QED
    BY <1>5, <2>1, <2>2
<1>7. FirstAfter(PT, h) = p
  BY <1>2, <1>6, FirstAfterOfSubset
<1>8. NodeAt(RingOf(placement, T), h) = RingOf(placement, T)[p]
  BY <1>1, <1>2, <1>7, RingOfPositions DEF NodeAt
<1> QED
  BY <1>4, <1>6, <1>8

\* What is left of the ring without a node's positions.
LEMMA OthersArePositions ==
    ASSUME NEW placement, Placed(placement), NEW M \in SUBSET Node, NEW x \in Node
    PROVE  Others(RingOf(placement, M), x) = Positions(placement, M \ {x})
<1> DEFINE T == M \ {x}
<1>1. ASSUME NEW p \in Others(RingOf(placement, M), x)
      PROVE  p \in Positions(placement, T)
  <2>1. p \in Positions(placement, M) /\ RingOf(placement, M)[p] # x
    BY RingOfPositions DEF Others
  <2>2. RingOf(placement, M)[p] \in T /\ p \in placement[RingOf(placement, M)[p]]
    BY <2>1, RingOfPositions
  <2> QED
    BY <2>2 DEF Positions
<1>2. ASSUME NEW p \in Positions(placement, T)
      PROVE  p \in Others(RingOf(placement, M), x)
  <2>1. PICK n \in T : p \in placement[n]
    BY <1>2 DEF Positions
  <2>2. \A m \in M : \A q \in placement[m] : RingOf(placement, M)[q] = m
    BY RingOfPositions
  <2>3. RingOf(placement, M)[p] = n
    BY <2>1, <2>2
  <2>4. p \in DOMAIN RingOf(placement, M)
    BY <2>1 DEF RingOf, Positions
  <2> QED
    BY <2>1, <2>3, <2>4 DEF Others
<1> QED
  BY <1>1, <1>2

\* The replica of a key is what its primary would be without the primary.
LEMMA SuccessorIsNodeWithout ==
    ASSUME NEW placement, Placed(placement), NEW M \in SUBSET Node, NEW x \in Node,
           NEW h \in Nat
    PROVE  SuccessorAt(RingOf(placement, M), h, x) = NodeAt(RingOf(placement, M \ {x}), h)
<1> DEFINE T == M \ {x}
<1>1. T \in SUBSET M /\ T \in SUBSET Node
  OBVIOUS
<1>2. Others(RingOf(placement, M), x) = Positions(placement, T)
  BY OthersArePositions
<1>3. DOMAIN RingOf(placement, T) = Positions(placement, T)
  BY <1>1, RingOfPositions
<1>4. CASE Positions(placement, T) = {}
  BY <1>2, <1>3, <1>4 DEF SuccessorAt, NodeAt
<1>5. CASE Positions(placement, T) # {}
  <2>1. FirstAfter(Positions(placement, T), h) \in Positions(placement, T)
    BY <1>1, <1>5, RingOfPositions, FirstAfterIsPosition
  <2>2. PICK n \in T : FirstAfter(Positions(placement, T), h) \in placement[n]
    BY <2>1 DEF Positions
  <2>3. /\ RingOf(placement, M)[FirstAfter(Positions(placement, T), h)] = n
        /\ RingOf(placement, T)[FirstAfter(Positions(placement, T), h)] = n
    BY <1>1, <2>2, RingOfPositions
  <2> QED
    BY <1>2, <1>3, <1>5, <2>3 DEF SuccessorAt, NodeAt
<1> QED
  BY <1>4, <1>5

-----------------------------------------------------------------------------
(***************************************************************************)
(* The owners of a key                                                     *)
(***************************************************************************)

\* The owners are the primary and what the primary would be without it.
LEMMA OwnersAsNodes ==
    ASSUME NEW placement, Placed(placement), NEW M \in SUBSET Node, M # {}, NEW h \in Nat
    PROVE  LET first  == NodeAt(RingOf(placement, M), h)
               second == NodeAt(RingOf(placement, M \ {first}), h)
           IN  /\ first \in M
               /\ second \in (M \ {first}) \cup {NoNode}
               /\ second = NoNode <=> M = {first}
               /\ OwnersAt(RingOf(placement, M), h) = {first, second} \ {NoNode}
<1> DEFINE first  == NodeAt(RingOf(placement, M), h)
           second == NodeAt(RingOf(placement, M \ {first}), h)
<1>1. first \in M /\ first \in Node
  BY NodeAtIsMember
<1>2. M \ {first} \in SUBSET Node
  OBVIOUS
<1>3. /\ M \ {first} # {} => second \in M \ {first}
      /\ M \ {first} = {} => second = NoNode
  BY <1>2, NodeAtIsMember
<1>4. SuccessorAt(RingOf(placement, M), h, first) = second
  BY <1>1, SuccessorIsNodeWithout
<1>5. OwnersAt(RingOf(placement, M), h) = {first, second} \ {NoNode}
  BY <1>4 DEF OwnersAt, ReplicaAt
<1> HIDE DEF first, second
<1>6. second = NoNode <=> M = {first}
  BY <1>1, <1>3, NoNodeAssumption
<1>7. second \in (M \ {first}) \cup {NoNode}
  BY <1>3
<1> QED
  BY <1>1, <1>5, <1>6, <1>7 DEF first, second

\* Only members are owners.
LEMMA OwnersAreMembers ==
    ASSUME NEW placement, Placed(placement), NEW M \in SUBSET Node, NEW h \in Nat
    PROVE  OwnersAt(RingOf(placement, M), h) \in SUBSET M
<1>1. CASE M # {}
  <2> DEFINE first  == NodeAt(RingOf(placement, M), h)
             second == NodeAt(RingOf(placement, M \ {first}), h)
  <2>1. /\ first \in M
        /\ second \in (M \ {first}) \cup {NoNode}
        /\ OwnersAt(RingOf(placement, M), h) = {first, second} \ {NoNode}
    BY <1>1, OwnersAsNodes
  <2> QED
    BY <2>1
<1>2. CASE M = {}
  <2>1. DOMAIN RingOf(placement, M) = {}
    BY <1>2 DEF RingOf, Positions
  <2>2. OwnersAt(RingOf(placement, M), h) = {}
    BY <2>1 DEF OwnersAt, ReplicaAt, SuccessorAt, NodeAt, Others
  <2> QED
    BY <2>2
<1> QED
  BY <1>1, <1>2

\* An owner that stays when another node leaves is an owner still.
LEMMA OwnerStays ==
    ASSUME NEW placement, Placed(placement), NEW M \in SUBSET Node, NEW n \in M, NEW h \in Nat,
           NEW x \in OwnersAt(RingOf(placement, M), h), x # n
    PROVE  x \in OwnersAt(RingOf(placement, M \ {n}), h)
<1> DEFINE N(S) == NodeAt(RingOf(placement, S), h)
           T == M \ {n}
<1>1. /\ N(M) \in M
      /\ OwnersAt(RingOf(placement, M), h) = {N(M), N(M \ {N(M)})} \ {NoNode}
      /\ N(M \ {N(M)}) \in (M \ {N(M)}) \cup {NoNode}
  BY OwnersAsNodes
<1>2. x \in T /\ T \in SUBSET M /\ T \in SUBSET Node /\ T # {} /\ x # NoNode
  BY <1>1, NoNodeAssumption
<1>3. OwnersAt(RingOf(placement, T), h) = {N(T), N(T \ {N(T)})} \ {NoNode}
  <2>1. T \in SUBSET Node /\ T # {}
    BY <1>2
  <2> HIDE DEF T
  <2> QED
    BY <2>1, OwnersAsNodes
<1>4. CASE x = N(M)
  <2>1. N(T) = x
    BY <1>2, <1>4, NodeAtOfFewer
  <2> QED
    BY <1>2, <1>3, <2>1
<1>5. CASE x = N(M \ {N(M)}) /\ n = N(M)
  BY <1>2, <1>3, <1>5
<1>6. CASE x = N(M \ {N(M)}) /\ n # N(M)
  <2>1. N(M) \in T
    BY <1>1, <1>6
  <2>2. N(T) = N(M)
    BY <1>2, <2>1, NodeAtOfFewer
  <2>3. x \in T \ {N(M)} /\ T \ {N(M)} \in SUBSET (M \ {N(M)}) /\ M \ {N(M)} \in SUBSET Node
    BY <1>1, <1>2, <1>6
  <2>4. N(T \ {N(M)}) = x
    <3> DEFINE big == M \ {N(M)}
               few == T \ {N(M)}
    <3>1. N(big) \in few /\ few \in SUBSET big /\ big \in SUBSET Node
      BY <1>6, <2>3
    <3> HIDE DEF big, few
    <3>2. N(few) = N(big)
      BY <3>1, NodeAtOfFewer
    <3> QED
      BY <1>6, <3>2 DEF big, few
  <2> QED
    BY <1>2, <1>3, <2>2, <2>4
<1> QED
  BY <1>1, <1>4, <1>5, <1>6

\* A key no owner of which leaves keeps its owners.
LEMMA OwnersWithoutOther ==
    ASSUME NEW placement, Placed(placement), NEW M \in SUBSET Node, NEW n \in M, NEW h \in Nat,
           n \notin OwnersAt(RingOf(placement, M), h)
    PROVE  OwnersAt(RingOf(placement, M \ {n}), h) = OwnersAt(RingOf(placement, M), h)
<1> DEFINE N(S) == NodeAt(RingOf(placement, S), h)
           T == M \ {n}
<1>1. /\ N(M) \in M
      /\ OwnersAt(RingOf(placement, M), h) = {N(M), N(M \ {N(M)})} \ {NoNode}
      /\ N(M \ {N(M)}) \in (M \ {N(M)}) \cup {NoNode}
      /\ N(M \ {N(M)}) = NoNode <=> M = {N(M)}
  BY OwnersAsNodes
<1>2. N(M) # n /\ N(M \ {N(M)}) # NoNode /\ N(M \ {N(M)}) # n
  BY <1>1, NoNodeAssumption
<1>3. N(M) \in T /\ T \in SUBSET M /\ T \in SUBSET Node /\ T # {}
  BY <1>1, <1>2
<1>4. N(T) = N(M)
  BY <1>3, NodeAtOfFewer
<1>5. N(T \ {N(M)}) = N(M \ {N(M)})
  <2> DEFINE big == M \ {N(M)}
             few == T \ {N(M)}
  <2>1. N(big) \in few /\ few \in SUBSET big /\ big \in SUBSET Node
    BY <1>1, <1>2
  <2> HIDE DEF big, few
  <2>2. N(few) = N(big)
    BY <2>1, NodeAtOfFewer
  <2> QED
    BY <2>2 DEF big, few
<1>6. OwnersAt(RingOf(placement, T), h) = {N(T), N(T \ {N(T)})} \ {NoNode}
  <2>1. T \in SUBSET Node /\ T # {}
    BY <1>3
  <2> HIDE DEF T
  <2> QED
    BY <2>1, OwnersAsNodes
<1> QED
  BY <1>1, <1>4, <1>5, <1>6

\* A join makes no other node an owner than the node that joins.
THEOREM OwnersAfterJoin ==
    ASSUME NEW placement, Placed(placement), NEW M \in SUBSET Node, NEW n \in Node \ M,
           NEW h \in Nat
    PROVE  OwnersAt(RingOf(placement, M \cup {n}), h)
              \subseteq OwnersAt(RingOf(placement, M), h) \cup {n}
<1>1. M \cup {n} \in SUBSET Node /\ n \in M \cup {n} /\ (M \cup {n}) \ {n} = M
  OBVIOUS
<1>2. ASSUME NEW x \in OwnersAt(RingOf(placement, M \cup {n}), h), x # n
      PROVE  x \in OwnersAt(RingOf(placement, M), h)
  <2> DEFINE all == M \cup {n}
  <2>1. all \in SUBSET Node /\ n \in all /\ all \ {n} = M
    BY <1>1
  <2>2. x \in OwnersAt(RingOf(placement, all), h)
    BY <1>2
  <2> HIDE DEF all
  <2>3. x \in OwnersAt(RingOf(placement, all \ {n}), h)
    BY <1>2, <2>1, <2>2, OwnerStays
  <2> QED
    BY <2>1, <2>3
<1> QED
  BY <1>2

\* Whichever node joins a ring with members or leaves one that keeps a member,
\* some old owner of a key is an owner still: there is always a copy to make
\* the new ones from, on a node the change leaves alone.
THEOREM SomeOwnerRemains ==
    ASSUME NEW placement, Placed(placement), NEW M \in SUBSET Node, NEW T \in SUBSET Node,
           M # {}, T # {}, NEW n \in Node, NEW h \in Nat,
           (n \notin M /\ T = M \cup {n}) \/ (n \in M /\ T = M \ {n})
    PROVE  OwnersAt(RingOf(placement, M), h) \cap OwnersAt(RingOf(placement, T), h) # {}
<1> DEFINE N(S) == NodeAt(RingOf(placement, S), h)
<1>1. /\ N(M) \in M
      /\ OwnersAt(RingOf(placement, M), h) = {N(M), N(M \ {N(M)})} \ {NoNode}
      /\ N(M \ {N(M)}) \in (M \ {N(M)}) \cup {NoNode}
      /\ N(M \ {N(M)}) = NoNode <=> M = {N(M)}
  BY OwnersAsNodes
<1>2. /\ N(T) \in T
      /\ OwnersAt(RingOf(placement, T), h) = {N(T), N(T \ {N(T)})} \ {NoNode}
  BY OwnersAsNodes
<1>3. CASE n \notin M /\ T = M \cup {n}
  <2>1. M \in SUBSET T /\ N(M) # NoNode
    BY <1>1, <1>3, NoNodeAssumption
  <2>2. N(T) # n => N(T) = N(M)
    BY <1>2, <1>3, <2>1, NodeAtOfFewer
  <2>3. N(T) = n => N(T \ {N(T)}) = N(M)
    <3>1. T \ {n} = M
      BY <1>3
    <3> QED
      BY <3>1
  <2>4. N(M) \in OwnersAt(RingOf(placement, T), h)
    BY <1>2, <2>1, <2>2, <2>3
  <2> QED
    BY <1>1, <2>1, <2>4
<1>4. CASE n \in M /\ T = M \ {n}
  <2>1. \E x \in OwnersAt(RingOf(placement, M), h) : x # n
    BY <1>1, <1>4, NoNodeAssumption
  <2>2. PICK x \in OwnersAt(RingOf(placement, M), h) : x # n
    BY <2>1
  <2>3. x \in OwnersAt(RingOf(placement, T), h)
    BY <1>4, <2>2, OwnerStays
  <2> QED
    BY <2>2, <2>3
<1> QED
  BY <1>3, <1>4

-----------------------------------------------------------------------------
(***************************************************************************)
(* The binary search and the index walk of ConsistentHashRing answer what  *)
(* the definitions over the whole ring say, for every finite set of        *)
(* positions.  The element at index i of the sorted list is the one with i *)
(* smaller ones (its rank); that there is one for every i follows by       *)
(* counting, because no two elements have the same rank.                   *)
(***************************************************************************)

\* What the code sorts: the positions of a ring.
Sortable(S) == S \in SUBSET Nat /\ IsFiniteSet(S)

Below(S, x) == {y \in S : y < x}
Rank(S, x)  == Cardinality(Below(S, x))

-----------------------------------------------------------------------------
(***************************************************************************)
(* Ranks                                                                   *)
(***************************************************************************)

\* A rank is smaller than the number of elements.
LEMMA RankRange ==
    ASSUME NEW S, Sortable(S), NEW x \in S
    PROVE  Rank(S, x) \in 0 .. Cardinality(S) - 1
<1>1. Below(S, x) \in SUBSET (S \ {x})
  BY DEF Below, Sortable
<1>2. IsFiniteSet(S \ {x}) /\ Cardinality(S \ {x}) = Cardinality(S) - 1
  BY FS_RemoveElement DEF Sortable
<1>3. IsFiniteSet(Below(S, x)) /\ Cardinality(Below(S, x)) <= Cardinality(S) - 1
  BY <1>1, <1>2, FS_Subset
<1>4. Cardinality(Below(S, x)) \in Nat /\ Cardinality(S) \in Nat
  BY <1>3, FS_CardinalityType DEF Sortable
<1> QED
  BY <1>3, <1>4 DEF Rank

\* Smaller elements have smaller ranks.
LEMMA RankIncreases ==
    ASSUME NEW S, Sortable(S), NEW x \in S, NEW y \in S, x < y
    PROVE  Rank(S, x) < Rank(S, y)
<1>1. Below(S, y) \in SUBSET S /\ Below(S, x) \in SUBSET (Below(S, y) \ {x}) /\ x \in Below(S, y)
  <2>1. x \in Nat /\ y \in Nat
    BY DEF Sortable
  <2>2. ASSUME NEW z \in Below(S, x) PROVE z \in S /\ z < y /\ z # x
    <3>1. z \in S /\ z < x /\ z \in Nat
      BY DEF Below, Sortable
    <3> QED
      BY <2>1, <3>1
  <2> QED
    BY <2>2 DEF Below
<1>2. IsFiniteSet(Below(S, y))
  BY <1>1, FS_Subset DEF Sortable
<1>3. IsFiniteSet(Below(S, y) \ {x}) /\ Cardinality(Below(S, y) \ {x}) = Cardinality(Below(S, y)) - 1
  BY <1>1, <1>2, FS_RemoveElement
<1>4. IsFiniteSet(Below(S, x)) /\ Cardinality(Below(S, x)) <= Cardinality(Below(S, y)) - 1
  BY <1>1, <1>3, FS_Subset
<1>5. Cardinality(Below(S, x)) \in Nat /\ Cardinality(Below(S, y)) \in Nat
  BY <1>2, <1>4, FS_CardinalityType
<1> QED
  BY <1>4, <1>5 DEF Rank

\* There is one element of every rank.
LEMMA RankTaken ==
    ASSUME NEW S, Sortable(S), NEW i \in 0 .. Cardinality(S) - 1
    PROVE  \E x \in S : Rank(S, x) = i
<1> DEFINE n == Cardinality(S)
<1> DEFINE T == 0 .. n - 1
<1> DEFINE f == [x \in S |-> Rank(S, x)]
<1>1. n \in Nat
  BY FS_CardinalityType DEF Sortable
<1>2. IsFiniteSet(T) /\ Cardinality(T) = n
  BY <1>1, FS_Interval
<1>3. f \in [S -> T]
  BY RankRange
<1>4. ASSUME NEW x \in S, NEW y \in S, f[x] = f[y] PROVE x = y
  <2>1. x \in Nat /\ y \in Nat /\ Rank(S, x) = Rank(S, y)
    BY <1>4 DEF Sortable
  <2>2. Rank(S, x) \in Int
    BY RankRange
  <2>3. ~(x < y) /\ ~(y < x)
    BY <2>1, <2>2, RankIncreases
  <2> QED
    BY <2>1, <2>3
<1>5. f \in Injection(S, T)
  BY <1>3, <1>4 DEF Injection, IsInjective
<1>6. f \in Surjection(S, T)
  BY <1>2, <1>5, FS_Injection
<1>7. PICK x \in S : f[x] = i
  BY <1>6 DEF Surjection
<1> QED
  BY <1>7

-----------------------------------------------------------------------------
(***************************************************************************)
(* The sorted list                                                         *)
(***************************************************************************)

\* The element at index i has i - 1 smaller ones.
LEMMA SortedElement ==
    ASSUME NEW S, Sortable(S), NEW i \in 1 .. Cardinality(S)
    PROVE  Sorted(S)[i] \in S /\ Rank(S, Sorted(S)[i]) = i - 1
<1>1. i - 1 \in 0 .. Cardinality(S) - 1
  BY FS_CardinalityType DEF Sortable
<1>2. \E x \in S : Cardinality({y \in S : y < x}) = i - 1
  BY <1>1, RankTaken DEF Rank, Below
<1> QED
  BY <1>2 DEF Sorted, Rank, Below

\* The list is as long as the set is large.
LEMMA SortedLength ==
    ASSUME NEW S, Sortable(S)
    PROVE  /\ DOMAIN Sorted(S) = 1 .. Cardinality(S)
           /\ Len(Sorted(S)) = Cardinality(S) /\ Cardinality(S) \in Nat
           /\ Sorted(S) \in Seq(S)
<1>1. Cardinality(S) \in Nat
  BY FS_CardinalityType DEF Sortable
<1>2. DOMAIN Sorted(S) = 1 .. Cardinality(S)
  BY DEF Sorted
<1>3. Sorted(S) \in [1 .. Cardinality(S) -> S]
  <2>1. \A i \in 1 .. Cardinality(S) : Sorted(S)[i] \in S
    BY SortedElement
  <2> QED
    BY <1>2, <2>1 DEF Sorted
<1>4. Sorted(S) \in Seq(S)
  BY <1>1, <1>3
<1> QED
  BY <1>1, <1>2, <1>4

\* The element with i smaller ones is at index i + 1.
LEMMA SortedAtRank ==
    ASSUME NEW S, Sortable(S), NEW x \in S
    PROVE  Rank(S, x) + 1 \in 1 .. Cardinality(S) /\ Sorted(S)[Rank(S, x) + 1] = x
<1> DEFINE i == Rank(S, x) + 1
<1>1. i \in 1 .. Cardinality(S) /\ Rank(S, x) \in Nat
  BY RankRange, SortedLength
<1>2. Sorted(S)[i] \in S /\ Rank(S, Sorted(S)[i]) = i - 1
  BY <1>1, SortedElement
<1>3. ~(Sorted(S)[i] < x) /\ ~(x < Sorted(S)[i])
  BY <1>1, <1>2, RankIncreases
<1>4. Sorted(S)[i] \in Nat /\ x \in Nat
  BY <1>2 DEF Sortable
<1> QED
  BY <1>1, <1>3, <1>4

\* The list is sorted.
LEMMA SortedIncreases ==
    ASSUME NEW S, Sortable(S), NEW i \in 1 .. Cardinality(S), NEW j \in 1 .. Cardinality(S)
    PROVE  Sorted(S)[i] <= Sorted(S)[j] <=> i <= j
<1>1. /\ Sorted(S)[i] \in S /\ Rank(S, Sorted(S)[i]) = i - 1
      /\ Sorted(S)[j] \in S /\ Rank(S, Sorted(S)[j]) = j - 1
  BY SortedElement
<1>2. Sorted(S)[i] \in Nat /\ Sorted(S)[j] \in Nat
  BY <1>1 DEF Sortable
<1>3. CASE Sorted(S)[i] < Sorted(S)[j]
  <2>1. i - 1 < j - 1
    BY <1>1, <1>3, RankIncreases
  <2> QED
    BY <1>2, <1>3, <2>1
<1>4. CASE Sorted(S)[j] < Sorted(S)[i]
  <2>1. j - 1 < i - 1
    BY <1>1, <1>4, RankIncreases
  <2> QED
    BY <1>2, <1>4, <2>1
<1>5. CASE Sorted(S)[i] = Sorted(S)[j]
  <2>1. i - 1 = j - 1
    BY <1>1, <1>5
  <2> QED
    BY <1>2, <1>5, <2>1
<1> QED
  BY <1>2, <1>3, <1>4, <1>5

-----------------------------------------------------------------------------
(***************************************************************************)
(* The binary search                                                       *)
(***************************************************************************)

NotLater(S, h) == {y \in S : y <= h}

\* It counts the elements that are not later, in the list as in the set.
LEMMA BisectCounts ==
    ASSUME NEW S, Sortable(S), NEW h \in Nat
    PROVE  BisectRight(Sorted(S), h) = Cardinality(NotLater(S, h))
<1> DEFINE I == {i \in 1 .. Cardinality(S) : Sorted(S)[i] <= h}
<1> DEFINE T == NotLater(S, h)
<1> DEFINE g == [i \in I |-> Sorted(S)[i]]
<1>1. g \in [I -> T]
  BY SortedElement DEF NotLater
<1>2. ASSUME NEW i \in I, NEW j \in I, g[i] = g[j] PROVE i = j
  <2>1. i - 1 = j - 1
    BY <1>2, SortedElement
  <2> QED
    BY <2>1
<1>3. ASSUME NEW x \in T PROVE \E i \in I : g[i] = x
  <2>1. x \in S /\ x <= h
    BY DEF NotLater
  <2>2. Rank(S, x) + 1 \in I /\ g[Rank(S, x) + 1] = x
    BY <2>1, SortedAtRank
  <2> QED
    BY <2>2
<1>4. g \in Bijection(I, T)
  BY <1>1, <1>2, <1>3 DEF Bijection, Injection, Surjection, IsInjective
<1>5. ExistsBijection(I, T)
  BY <1>4 DEF ExistsBijection
<1>6. IsFiniteSet(I)
  <2>1. IsFiniteSet(1 .. Cardinality(S)) /\ I \in SUBSET (1 .. Cardinality(S))
    BY SortedLength, FS_Interval
  <2> QED
    BY <2>1, FS_Subset
<1>7. Cardinality(T) = Cardinality(I)
  BY <1>5, <1>6, FS_Bijection
<1>8. DOMAIN Sorted(S) = 1 .. Cardinality(S)
  BY SortedLength
<1> QED
  BY <1>7, <1>8 DEF BisectRight

\* The walk starts at the first later element, and at the first one if no
\* element is later.
LEMMA StartIndexIsFirstLater ==
    ASSUME NEW S, Sortable(S), S # {}, NEW h \in Nat
    PROVE  /\ StartIndex(Sorted(S), h) \in 0 .. Cardinality(S) - 1
           /\ Later(S, h) = {} => StartIndex(Sorted(S), h) = 0
           /\ Later(S, h) # {} => \A i \in 1 .. Cardinality(S) :
                 Sorted(S)[i] > h <=> i > StartIndex(Sorted(S), h)
<1> DEFINE n == Cardinality(S)
<1> DEFINE k == BisectRight(Sorted(S), h)
<1>1. n \in Nat /\ n # 0 /\ Len(Sorted(S)) = n
  BY SortedLength, FS_EmptySet DEF Sortable
<1>2. k = Cardinality(NotLater(S, h))
  BY BisectCounts
<1>3. CASE Later(S, h) = {}
  <2>1. NotLater(S, h) = S
    <3>1. ASSUME NEW y \in S PROVE y <= h
      <4>1. y \in Nat /\ ~(y > h)
        BY <1>3 DEF Later, Sortable
      <4> QED
        BY <4>1
    <3> QED
      BY <3>1 DEF NotLater
  <2>2. StartIndex(Sorted(S), h) = 0
    BY <1>1, <1>2, <2>1 DEF StartIndex
  <2> QED
    BY <1>1, <1>3, <2>2
<1>4. CASE Later(S, h) # {}
  <2> DEFINE first == Min(Later(S, h))
  <2>1. /\ first \in S /\ first \in Nat /\ first > h
        /\ \A y \in Later(S, h) : first <= y
    BY <1>4, MinIsLeast DEF Later, Sortable
  <2>2. ASSUME NEW y \in S PROVE y > h <=> first <= y
    BY <2>1 DEF Later, Sortable
  <2>3. Below(S, first) = NotLater(S, h)
    <3>1. \A y \in S : y < first <=> y <= h
      BY <2>1, <2>2 DEF Sortable
    <3> QED
      BY <3>1 DEF Below, NotLater
  <2>4. k = Rank(S, first)
    BY <1>2, <2>3 DEF Rank
  <2>5. k + 1 \in 1 .. n /\ Sorted(S)[k + 1] = first /\ k \in 0 .. n - 1
    BY <2>1, <2>4, SortedAtRank, RankRange
  <2>6. StartIndex(Sorted(S), h) = k
    BY <1>1, <2>5 DEF StartIndex
  <2>7. ASSUME NEW i \in 1 .. n PROVE Sorted(S)[i] > h <=> i > k
    <3>1. Sorted(S)[i] \in S
      BY SortedElement
    <3>2. Sorted(S)[i] > h <=> first <= Sorted(S)[i]
      BY <2>2, <3>1
    <3>3. Sorted(S)[k + 1] <= Sorted(S)[i] <=> k + 1 <= i
      BY <2>5, SortedIncreases
    <3> QED
      BY <1>1, <2>5, <3>2, <3>3
  <2> QED
    BY <1>4, <2>5, <2>6, <2>7
<1> QED
  BY <1>3, <1>4

-----------------------------------------------------------------------------
(***************************************************************************)
(* The index walk                                                          *)
(***************************************************************************)

\* The place in the list that the walk reads at an offset.
Place(start, o, n) == IF start + o < n THEN start + o + 1 ELSE start + o - n + 1

\* The remainder wraps around once.
LEMMA Wrap ==
    ASSUME NEW n \in Nat, NEW start \in 0 .. n - 1, NEW o \in 0 .. n - 1
    PROVE  ((start + o) % n) + 1 = Place(start, o, n) /\ Place(start, o, n) \in 1 .. n
<1>1. CASE start + o < n
  <2>1. (start + o) % n = start + o
    BY <1>1
  <2> QED
    BY <1>1, <2>1 DEF Place
<1>2. CASE ~(start + o < n)
  <2>1. start + o \in Nat /\ n <= start + o /\ start + o < 2 * n /\ n # 0
    BY <1>2
  <2>2. (start + o) % n = start + o - n
    BY <2>1
  <2> QED
    BY <1>2, <2>1, <2>2 DEF Place
<1> QED
  BY <1>1, <1>2

\* What the walk reads is the element at that place.
LEMMA WalkedPlace ==
    ASSUME NEW S, Sortable(S), S # {}, NEW h \in Nat, NEW o \in 0 .. Cardinality(S) - 1
    PROVE  /\ Place(StartIndex(Sorted(S), h), o, Cardinality(S)) \in 1 .. Cardinality(S)
           /\ Walked(Sorted(S), h, o) =
                 Sorted(S)[Place(StartIndex(Sorted(S), h), o, Cardinality(S))]
           /\ Walked(Sorted(S), h, o) \in S
<1>1. Cardinality(S) \in Nat /\ Len(Sorted(S)) = Cardinality(S)
  BY SortedLength
<1>2. StartIndex(Sorted(S), h) \in 0 .. Cardinality(S) - 1
  BY StartIndexIsFirstLater
<1>3. /\ ((StartIndex(Sorted(S), h) + o) % Cardinality(S)) + 1 =
            Place(StartIndex(Sorted(S), h), o, Cardinality(S))
      /\ Place(StartIndex(Sorted(S), h), o, Cardinality(S)) \in 1 .. Cardinality(S)
  BY <1>1, <1>2, Wrap
<1> QED
  BY <1>1, <1>3, SortedElement DEF Walked

\* The walk reads every element.
LEMMA WalkReaches ==
    ASSUME NEW S, Sortable(S), S # {}, NEW h \in Nat, NEW j \in 1 .. Cardinality(S)
    PROVE  LET start == StartIndex(Sorted(S), h)
               o == IF j > start THEN j - 1 - start ELSE j - 1 - start + Cardinality(S)
           IN  o \in 0 .. Cardinality(S) - 1 /\ Walked(Sorted(S), h, o) = Sorted(S)[j]
<1> DEFINE n == Cardinality(S)
<1> DEFINE start == StartIndex(Sorted(S), h)
<1> DEFINE o == IF j > start THEN j - 1 - start ELSE j - 1 - start + n
<1>1. n \in Nat /\ start \in 0 .. n - 1 /\ j \in 1 .. n
  BY SortedLength, StartIndexIsFirstLater
<1>2. o \in 0 .. n - 1 /\ Place(start, o, n) = j
  <2> HIDE DEF start, n
  <2> QED
    BY <1>1 DEF Place
<1> HIDE DEF o
<1>3. Walked(Sorted(S), h, o) = Sorted(S)[j]
  BY <1>2, WalkedPlace
<1> QED
  BY <1>2, <1>3 DEF o

\* The first element of O on the walk is the first one of O clockwise.
LEMMA FirstOnWalk ==
    ASSUME NEW S, Sortable(S), NEW h \in Nat, NEW O \in SUBSET S,
           NEW o \in 0 .. Cardinality(S) - 1, Walked(Sorted(S), h, o) \in O,
           \A before \in 0 .. o - 1 : Walked(Sorted(S), h, before) \notin O
    PROVE  Walked(Sorted(S), h, o) = FirstAfter(O, h)
<1> DEFINE n == Cardinality(S)
<1> DEFINE s == Sorted(S)
<1> DEFINE start == StartIndex(s, h)
<1> DEFINE i == Place(start, o, n)
<1> DEFINE p == Walked(s, h, o)
<1> DEFINE q == FirstAfter(O, h)
<1> DEFINE j == Rank(S, q) + 1
<1> DEFINE b == IF j > start THEN j - 1 - start ELSE j - 1 - start + n
<1>1. S # {} /\ O # {} /\ S \in SUBSET Nat /\ O \in SUBSET Nat
  BY DEF Sortable
<1>2. q \in O /\ p \in O
  BY <1>1, FirstAfterIsPosition
<1>3. j \in 1 .. n /\ s[j] = q
  BY <1>2, SortedAtRank
<1>4. n \in Nat /\ start \in 0 .. n - 1 /\ o \in 0 .. n - 1 /\ i \in 1 .. n /\ p = s[i]
  BY <1>1, SortedLength, StartIndexIsFirstLater, WalkedPlace
<1>5. b \in 0 .. n - 1 /\ Walked(s, h, b) = q
  <2>1. Walked(s, h, b) = s[j] /\ b \in 0 .. n - 1
    BY <1>1, <1>3, WalkReaches
  <2> QED
    BY <1>3, <2>1
<1>6. o <= b
  <2> HIDE DEF b, q
  <2> QED
    BY <1>2, <1>4, <1>5
<1>7. p \in Nat /\ q \in Nat /\ (i <= j => p <= q)
  <2>1. s[i] <= s[j] <=> i <= j
    BY <1>3, <1>4, SortedIncreases
  <2> QED
    BY <1>1, <1>2, <1>3, <1>4, <2>1
<1>8. i <= j /\ q <= p
  <2>1. CASE Later(S, h) = {}
    <3>1. start = 0 /\ Later(O, h) = {}
      BY <1>1, <2>1, StartIndexIsFirstLater DEF Later
    <3>2. i = o + 1 /\ j = b + 1
      <4> HIDE DEF start, n, j
      <4> QED
        BY <1>3, <1>4, <3>1 DEF Place
    <3>3. q = Min(O)
      BY <3>1 DEF FirstAfter
    <3>4. q <= p
      <4> HIDE DEF p, q
      <4> QED
        BY <1>1, <1>2, <3>3, MinIsLeast
    <3> HIDE DEF i, j, b, q, p
    <3> QED
      BY <1>3, <1>4, <1>5, <1>6, <3>2, <3>4
  <2>2. CASE Later(S, h) # {}
    <3>1. /\ p > h <=> i > start
          /\ q > h <=> j > start
      BY <1>1, <1>3, <1>4, <2>2, StartIndexIsFirstLater
    <3>2. CASE Later(O, h) # {}
      <4>1. q = Min(Later(O, h)) /\ Later(O, h) \in SUBSET Nat
        BY <1>1, <3>2 DEF FirstAfter, Later
      <4>2. q > h /\ \A y \in Later(O, h) : q <= y
        BY <3>2, <4>1, MinIsLeast DEF Later
      <4>3. j > start /\ b = j - 1 - start
        BY <3>1, <4>2
      <4>4. start + o < n /\ i = start + o + 1 /\ i <= j
        <5> HIDE DEF start, n, j, b
        <5> QED
          BY <1>3, <1>4, <1>6, <4>3 DEF Place
      <4>5. p > h
        <5> HIDE DEF start, n, i, p
        <5> QED
          BY <1>4, <3>1, <4>4
      <4>6. p \in Later(O, h)
        BY <4>5 DEF Later
      <4> QED
        BY <4>2, <4>4, <4>6
    <3>3. CASE Later(O, h) = {}
      <4>1. q = Min(O) /\ ~(p > h) /\ ~(q > h)
        BY <1>1, <1>2, <3>3 DEF FirstAfter, Later
      <4>2. q <= p
        <5> HIDE DEF p, q
        <5> QED
          BY <1>1, <1>2, <4>1, MinIsLeast
      <4>3. ~(i > start) /\ ~(j > start)
        BY <3>1, <4>1
      <4>4. i <= j
        <5>1. b = j - 1 - start + n
          BY <4>3
        <5> HIDE DEF start, n, j, b
        <5> QED
          BY <1>3, <1>4, <1>6, <4>3, <5>1 DEF Place
      <4> QED
        BY <4>2, <4>4
    <3> QED
      BY <3>2, <3>3
  <2> QED
    BY <2>1, <2>2
<1> HIDE DEF p, q, i, j
<1>9. p = q
  BY <1>7, <1>8
<1> QED
  BY <1>9 DEF p, q

\* A walk without an element of O has seen that O is empty.
LEMMA NoneOnWalk ==
    ASSUME NEW S, Sortable(S), NEW h \in Nat, NEW O \in SUBSET S,
           \A o \in 0 .. Cardinality(S) - 1 : Walked(Sorted(S), h, o) \notin O
    PROVE  O = {}
<1> SUFFICES ASSUME NEW q \in O PROVE FALSE
  OBVIOUS
<1>1. q \in S /\ S # {}
  OBVIOUS
<1>2. Rank(S, q) + 1 \in 1 .. Cardinality(S) /\ Sorted(S)[Rank(S, q) + 1] = q
  BY <1>1, SortedAtRank
<1>3. \E o \in 0 .. Cardinality(S) - 1 : Walked(Sorted(S), h, o) = q
  BY <1>1, <1>2, WalkReaches
<1> QED
  BY <1>3

=============================================================================
