------------------------------- MODULE Rebalance -------------------------------
(***************************************************************************)
(* What a background rebalance decides between its last snapshot and its   *)
(* first transport call: the common middle part of _rebalance_after_add    *)
(* and _rebalance_after_remove in distributed_cache/cluster/service.py.    *)
(*                                                                         *)
(* A ring is named by its members (module Ring).  A snapshot set "snaps"   *)
(* is a function from the nodes that answered to their entries.  The first *)
(* snapshot that holds a key, in the order of the dict _nodes, is          *)
(* abstracted to any snapshot that holds it.                               *)
(***************************************************************************)
EXTENDS Ring

CONSTANTS
    Key,
    Value,       \* values with their time to live, as clients put them
    Absent,      \* no entry
    Placement,   \* node -> the hashes of its virtual nodes
    KeyHash      \* key -> its hash

ASSUME AbsentAssumption == Absent \notin Value

ASSUME PlacementAssumption ==
    /\ Placement \in [Node -> SUBSET Nat]
    /\ \A n \in Node : Placement[n] # {}
    /\ Disjoint(Placement)

ASSUME KeyHashAssumption == KeyHash \in [Key -> Nat]

Entries == [Key -> Value \cup {Absent}]
Empty   == [k \in Key |-> Absent]

-----------------------------------------------------------------------------
\* The lookups of a ring whose members are M.

Primary(M, k) == NodeAt(RingOf(Placement, M), KeyHash[k])
Replica(M, k) == ReplicaAt(RingOf(Placement, M), KeyHash[k])
Owners(M, k)  == OwnersAt(RingOf(Placement, M), KeyHash[k])

-----------------------------------------------------------------------------
\* The snapshots that hold the key (the function key_locations).
Holders(snaps, k) == {n \in DOMAIN snaps : snaps[n][k] # Absent}

\* Mutant of Affected: only a new primary counts as a change.
AffectedPrimaries(prev, current, snaps) ==
    {k \in Key : /\ Holders(snaps, k) # {}
                 /\ NoNode \notin {Primary(prev, k), Primary(current, k)}
                 /\ Primary(prev, k) # Primary(current, k)}

\* The keys the loop does not skip.  A key is skipped when one of the rings is
\* empty and when the change leaves its set of owners alone.
Affected(prev, current, snaps) ==
    {k \in Key : /\ Holders(snaps, k) # {}
                 /\ NoNode \notin {Primary(prev, k), Primary(current, k)}
                 /\ Owners(prev, k) # Owners(current, k)}

\* A lookup of the key raises on a copy with this dict and this list: the list
\* leads to a node that the dict lacks, or it is empty and the dict is not.
Raises(dict, list, k) ==
    dict # {} /\ (list = {} \/ \E n \in list \ dict : n \in Owners(list, k))

\* The keys at which the loop would raise.
Raising(prev, dict, list, snaps) ==
    {k \in Key : /\ Holders(snaps, k) # {}
                 /\ Primary(prev, k) # NoNode
                 /\ Raises(dict, list, k)}

\* The keys to move that it can look up.  An empty dict answers None.
Movable(prev, dict, list, snaps) ==
    {k \in Affected(prev, list, snaps) : dict # {} /\ ~Raises(dict, list, k)}

\* _source_node_id_for_key: the primary of the old ring if it is alive, else
\* the replica, alive or not, else the primary.
SourceNode(prev, k, alive) ==
    IF Primary(prev, k) \in alive \/ Replica(prev, k) = NoNode
    THEN Primary(prev, k)
    ELSE Replica(prev, k)

\* The snapshots the key may be copied from.  After a join the source node is
\* tried first; after a leave the new primary, then the old replica; failing
\* these, any holder.
Sources(why, prev, current, snaps, alive, k) ==
    LET first  == IF why = "add" THEN SourceNode(prev, k, alive)
                                 ELSE Primary(current, k)
        second == IF why = "add" THEN first ELSE Replica(prev, k)
        holders == Holders(snaps, k)
    IN  CASE first \in holders                          -> {first}
          [] first \notin holders /\ second \in holders -> {second}
          [] OTHER                                      -> holders

\* Mutant of Moves: every copy carries the value of one and the same key.
MovesOfOneValue(current, snaps, members, source, keys) ==
    UNION {{[node |-> n, key |-> k, value |-> snaps[source[l]][l]] :
                n \in (Owners(current, k) \cap members) \ Holders(snaps, k)} :
           k \in keys, l \in keys}

\* The copies to make: to each new owner whose snapshot lacks the key.
Moves(current, snaps, members, source, keys) ==
    UNION {{[node |-> n, key |-> k, value |-> snaps[source[k]][k]] :
                n \in (Owners(current, k) \cap members) \ Holders(snaps, k)} :
           k \in keys}

\* Mutant of Drops: the new replica is forgotten among the owners.
DropsSparingPrimary(current, snaps, members, keys) ==
    UNION {{[node |-> n, key |-> k] :
                n \in (Holders(snaps, k) \cap members) \ {Primary(current, k)}} :
           k \in keys}

\* The copies to drop: of each other node whose snapshot has the key.
Drops(current, snaps, members, keys) ==
    UNION {{[node |-> n, key |-> k] :
                n \in (Holders(snaps, k) \cap members) \ Owners(current, k)} :
           k \in keys}

=============================================================================
