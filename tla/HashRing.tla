------------------------------- MODULE HashRing -------------------------------
(***************************************************************************)
(* distributed_cache/cluster/consistent_hash.py: ConsistentHashRing, with  *)
(* its three fields and the binary search and index walk of its lookups.   *)
(*                                                                         *)
(* The hash is a frozen variable: Init picks, for each node, any set of    *)
(* positions as the hashes of its virtual nodes, so that one run covers    *)
(* every ring layout of the chosen size.  Distinct nodes have distinct     *)
(* positions (SHA-256 of distinct strings).                                *)
(***************************************************************************)
EXTENDS Ring

CONSTANTS
    Hash,      \* the range of _hash_to_int: 0 .. 2^256 - 1
    Replicas   \* virtual nodes per node

ASSUME HashAssumption == Hash \subseteq Nat /\ IsFiniteSet(Hash)
ASSUME ReplicasAssumption == Replicas \in Nat \ {0}

VARIABLES
    placement,    \* node -> the hashes of "<node_id>:0" .. "<node_id>:<replicas-1>"
    nodes,        \* the key set of _nodes
    ring,         \* _ring
    sorted_keys   \* _sorted_keys

vars == <<placement, nodes, ring, sorted_keys>>

Init ==
    /\ placement \in [Node -> kSubset(Replicas, Hash)]
    /\ Disjoint(placement)
    /\ nodes = {}
    /\ ring = [p \in {} |-> NoNode]
    /\ sorted_keys = <<>>

\* Mutant of AddNode: the new keys are put at the end of the list.
AddNodeUnsorted(n) ==
    /\ nodes' = nodes \cup {n}
    /\ ring' = [p \in DOMAIN ring \cup placement[n] |->
                    IF p \in placement[n] THEN n ELSE ring[p]]
    /\ sorted_keys' = IF n \in nodes THEN sorted_keys ELSE sorted_keys \o Sorted(placement[n])
    /\ UNCHANGED placement

\* add_node has no guard of its own: adding a member again rewrites its entries.
AddNode(n) ==
    /\ nodes' = nodes \cup {n}
    /\ ring' = [p \in DOMAIN ring \cup placement[n] |->
                    IF p \in placement[n] THEN n ELSE ring[p]]
    /\ sorted_keys' = Sorted(DOMAIN ring')
    /\ UNCHANGED placement

\* Mutant of RemoveNode: the list is not made anew.
RemoveNodeUnlisted(n) ==
    /\ nodes' = nodes \ {n}
    /\ ring' = Restrict(ring, Others(ring, n))
    /\ UNCHANGED <<placement, sorted_keys>>

\* Removing a node that is not a member leaves the ring as it is.
RemoveNode(n) ==
    /\ nodes' = nodes \ {n}
    /\ ring' = Restrict(ring, Others(ring, n))
    /\ sorted_keys' = Sorted(DOMAIN ring')
    /\ UNCHANGED placement

Next == \E n \in Node : AddNode(n) \/ RemoveNode(n)

Spec == Init /\ [][Next]_vars

-----------------------------------------------------------------------------
(***************************************************************************)
(* The lookups, as the source computes them.                               *)
(***************************************************************************)

GetNode(h) ==
    IF DOMAIN ring = {} THEN NoNode ELSE ring[sorted_keys[StartIndex(sorted_keys, h) + 1]]

\* The candidate the loop of get_successor_for_key looks at for this offset.
Candidate(h, offset) == ring[Walked(sorted_keys, h, offset)]

GetSuccessorForKey(h, exclude) ==
    LET accepted == {o \in 0 .. Len(sorted_keys) - 1 : Candidate(h, o) # exclude}
    IN  IF accepted = {} THEN NoNode ELSE Candidate(h, Min(accepted))

Owners(h) == {GetNode(h), GetSuccessorForKey(h, GetNode(h))} \ {NoNode}

-----------------------------------------------------------------------------
(***************************************************************************)
(* Properties                                                              *)
(***************************************************************************)

\* Type invariant.  Every entry of the dict names a member, and the list is
\* strictly increasing, which the binary search of the lookups takes for granted.
TypeOK ==
    /\ placement \in [Node -> SUBSET Hash]
    /\ nodes \in SUBSET Node
    /\ DOMAIN ring \subseteq Hash /\ ring \in [DOMAIN ring -> nodes]
    /\ sorted_keys \in Seq(Hash)
    /\ \A i, j \in DOMAIN sorted_keys : i < j => sorted_keys[i] < sorted_keys[j]

\* After any sequence of joins and leaves the dict is the ring of the current
\* members, and the list has the keys of the dict: no virtual node of a removed
\* node survives, no virtual node of a member was lost, and the order of the
\* changes left no trace.  The service relies on this when it compares a copy of
\* an old ring with the current one.
RingMatchesMembers ==
    /\ ring = RingOf(placement, nodes)
    /\ {sorted_keys[i] : i \in DOMAIN sorted_keys} = DOMAIN ring

\* The binary search with wrap-around and the modular index walk answer what
\* the definitions over the whole ring say, for every position and for every
\* excluded node, also when a key hashes exactly onto a virtual node or past
\* the last one.
LookupsMeetReference ==
    \A h \in Hash :
        /\ GetNode(h) = NodeAt(ring, h)
        /\ \A x \in Node \cup {NoNode} :
              GetSuccessorForKey(h, x) = SuccessorAt(ring, h, x)

\* A join moves a key's primary only to the node that joins, a leave moves only
\* the keys whose primary leaves: the promise of consistent hashing.
OnlyAffectedKeysMove ==
    [][\A h \in Hash :
         GetNode(h)' # GetNode(h) =>
            \/ GetNode(h)' \in nodes' \ nodes
            \/ GetNode(h) \in (nodes \ nodes') \cup {NoNode}]_vars

\* One membership change replaces at most one node of a key's owner pair: a
\* join adds no other owner than the node that joins, and a leave keeps every
\* owner that stays.  The rebalance depends on it: some old owner, which has
\* the data, is an owner still.
OwnersChangeByOne ==
    [][\A h \in Hash :
         /\ Owners(h)' \subseteq Owners(h) \cup (nodes' \ nodes) \/ ~(nodes \subseteq nodes')
         /\ Owners(h) \cap nodes' \subseteq Owners(h)' \/ ~(nodes' \subseteq nodes)
         /\ Owners(h) \cap nodes' # {} => Owners(h)' \cap Owners(h) # {}]_vars

=============================================================================
