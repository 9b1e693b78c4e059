--------------------------------- MODULE Ring ---------------------------------
(***************************************************************************)
(* What the lookups of ConsistentHashRing answer, as a function of the     *)
(* ring alone.  A ring maps positions (the SHA-256 values of the virtual   *)
(* nodes, read as big integers) to the node that placed a virtual node     *)
(* there, as the dict _ring does.  The cluster modules route with these    *)
(* definitions; the binary search and the index walk of the source, on the *)
(* sorted list, are at the end, for HashRing and RingThreads.              *)
(***************************************************************************)
EXTENDS Integers, FiniteSets, FiniteSetsExt, Sequences

CONSTANTS
    Node,    \* node identifiers
    NoNode   \* Python's None where a node is expected

ASSUME NoNodeAssumption == NoNode \notin Node

(***************************************************************************)
(* The ring that holds the virtual nodes of the members M, when placement  *)
(* gives each node the positions its virtual nodes hash to.  It depends    *)
(* on M only, not on the order of joins and leaves, because no two nodes   *)
(* share a position.                                                       *)
(***************************************************************************)
Disjoint(placement) ==
    \A m, n \in DOMAIN placement : m # n => placement[m] \cap placement[n] = {}

Positions(placement, M) == UNION {placement[n] : n \in M}

RingOf(placement, M) ==
    [p \in Positions(placement, M) |-> CHOOSE n \in M : p \in placement[n]]

(***************************************************************************)
(* The first position of S clockwise from h.  A virtual node exactly at h  *)
(* counts as passed (the source searches with bisect_right), and the       *)
(* search wraps around past the largest position.                          *)
(***************************************************************************)
Later(S, h) == {p \in S : p > h}

FirstAfter(S, h) == Min(IF Later(S, h) # {} THEN Later(S, h) ELSE S)

\* The node that owns hash h, NoNode on an empty ring.
NodeAt(ring, h) ==
    IF DOMAIN ring = {} THEN NoNode ELSE ring[FirstAfter(DOMAIN ring, h)]

\* The first node clockwise from h other than exclude, NoNode if there is none.
Others(ring, exclude) == {p \in DOMAIN ring : ring[p] # exclude}

SuccessorAt(ring, h, exclude) ==
    IF Others(ring, exclude) = {} THEN NoNode
    ELSE ring[FirstAfter(Others(ring, exclude), h)]

(***************************************************************************)
(* The nodes that are meant to hold a key hashing to h: its primary and,   *)
(* if the ring has a second node, its replica.                             *)
(***************************************************************************)
ReplicaAt(ring, h) == SuccessorAt(ring, h, NodeAt(ring, h))

OwnersAt(ring, h) == {NodeAt(ring, h), ReplicaAt(ring, h)} \ {NoNode}

-----------------------------------------------------------------------------
(***************************************************************************)
(* The sorted list of the positions, and the searches in it.               *)
(***************************************************************************)

\* sorted(S)
Sorted(S) ==
    [i \in 1 .. Cardinality(S) |-> CHOOSE x \in S : Cardinality({y \in S : y < x}) = i - 1]

\* Mutant of BisectRight: bisect_left.
BisectLeft(keys, x) == Cardinality({i \in DOMAIN keys : keys[i] < x})

\* bisect.bisect_right: how many elements of the sorted list are <= x.
BisectRight(keys, x) == Cardinality({i \in DOMAIN keys : keys[i] <= x})

\* Mutant of StartIndex: keys are spread by the remainder of their hash.
StartByRemainder(keys, h) == h % Len(keys)

\* The zero-based index of the first virtual node after position h.
StartIndex(keys, h) ==
    LET index == BisectRight(keys, h)
    IN  IF index = Len(keys) THEN 0 ELSE index

\* The key that the index walk reads at this offset.
Walked(keys, h, offset) == keys[((StartIndex(keys, h) + offset) % Len(keys)) + 1]

=============================================================================
