------------------------------ MODULE RingThreads ------------------------------
(***************************************************************************)
(* ConsistentHashRing between two threads.  The caller's thread adds and   *)
(* removes nodes: it writes the dict entry by entry, and the sorted list   *)
(* at the end.  The background thread clones the ring for a rebalance      *)
(* (service.py, copy_ring) meanwhile: it copies dict and list one after    *)
(* the other, without a lock.  Each single copy, dict store and assignment *)
(* is one step (CPython runs it under its global lock).  The node table is *)
(* copied last; nothing reads it of a copy, so it is left out.             *)
(***************************************************************************)
EXTENDS Ring

CONSTANTS
    Hash, Replicas,   \* as in HashRing
    MaxOverlap        \* bound of the model: changes that begin during one clone

ASSUME ThreadsAssumption == Hash \subseteq Nat /\ IsFiniteSet(Hash) /\ Replicas \in Nat \ {0} /\ MaxOverlap \in Nat

VARIABLES
    placement, nodes, ring, sorted_keys,   \* as in HashRing
    change,   \* the change of the membership under way: its kind, its node,
              \* and the positions it has still to write
    copy      \* the clone: the last step done, what was copied, and two ghosts:
              \* "atRest": no change was under way when the dict was copied,
              \* "joined": a node was added since; and how many changes began

vars == <<placement, nodes, ring, sorted_keys, change, copy>>

NoEntries == [p \in {} |-> NoNode]
NoChange  == [kind |-> "none", node |-> NoNode, todo |-> {}]
NoCopy    == [step |-> "none", ring |-> NoEntries, keys |-> <<>>,
              atRest |-> TRUE, joined |-> FALSE, begun |-> 0]

\* The members whose virtual nodes are all in a list of keys.
Listed(keys) == {n \in Node : \A p \in placement[n] : \E i \in DOMAIN keys : keys[i] = p}

\* What the list says the ring is.
ListedRing(keys) == RingOf(placement, Listed(keys))

\* The ring as the readers of the list see it.
Atomic == INSTANCE HashRing WITH nodes <- Listed(sorted_keys), ring <- ListedRing(sorted_keys)

Init ==
    /\ placement \in [Node -> kSubset(Replicas, Hash)]
    /\ Disjoint(placement)
    /\ nodes = {}
    /\ ring = NoEntries
    /\ sorted_keys = <<>>
    /\ change = NoChange
    /\ copy = NoCopy

-----------------------------------------------------------------------------
(***************************************************************************)
(* The caller's thread: add_node and remove_node of the service, which     *)
(* refuse a member and a stranger, and of the ring.                        *)
(***************************************************************************)

\* A change begins; a clone that is under way notes it.
Overlap(join) ==
    IF copy.step = "none" THEN UNCHANGED copy
    ELSE /\ copy.begun < MaxOverlap
         /\ copy' = [copy EXCEPT !.begun = @ + 1, !.joined = @ \/ join]

\* Mutant of BeginAdd: a member is added again.
BeginAddAgain(n) ==
    /\ change = NoChange
    /\ nodes' = nodes \cup {n}
    /\ change' = [kind |-> "add", node |-> n, todo |-> placement[n]]
    /\ Overlap(TRUE)
    /\ UNCHANGED <<placement, ring, sorted_keys>>

BeginAdd(n) ==
    /\ change = NoChange /\ n \notin nodes
    /\ nodes' = nodes \cup {n}
    /\ change' = [kind |-> "add", node |-> n, todo |-> placement[n]]
    /\ Overlap(TRUE)
    /\ UNCHANGED <<placement, ring, sorted_keys>>

BeginRemove(n) ==
    /\ change = NoChange /\ n \in nodes
    /\ nodes' = nodes \ {n}
    /\ change' = [kind |-> "remove", node |-> n, todo |-> DOMAIN ring \ Others(ring, n)]
    /\ Overlap(FALSE)
    /\ UNCHANGED <<placement, ring, sorted_keys>>

\* Mutant of PutEntry: each virtual node is put into the list with its entry.
PutEntryListed ==
    /\ change.kind = "add"
    /\ \E p \in change.todo :
        /\ ring' = [q \in DOMAIN ring \cup {p} |-> IF q = p THEN change.node ELSE ring[q]]
        /\ sorted_keys' = Sorted(DOMAIN ring')
        /\ change' = [change EXCEPT !.todo = @ \ {p}]
    /\ UNCHANGED <<placement, nodes, copy>>

PutEntry ==
    /\ change.kind = "add"
    /\ \E p \in change.todo :
        /\ ring' = [q \in DOMAIN ring \cup {p} |-> IF q = p THEN change.node ELSE ring[q]]
        /\ change' = [change EXCEPT !.todo = @ \ {p}]
    /\ UNCHANGED <<placement, nodes, sorted_keys, copy>>

PopEntry ==
    /\ change.kind = "remove"
    /\ \E p \in change.todo :
        /\ ring' = [q \in DOMAIN ring \ {p} |-> ring[q]]
        /\ change' = [change EXCEPT !.todo = @ \ {p}]
    /\ UNCHANGED <<placement, nodes, sorted_keys, copy>>

\* Mutant of SortKeys: the list keeps the keys of a node that left.
SortKeysAfterJoins ==
    /\ change.kind # "none" /\ change.todo = {}
    /\ sorted_keys' = IF change.kind = "add" THEN Sorted(DOMAIN ring) ELSE sorted_keys
    /\ change' = NoChange
    /\ UNCHANGED <<placement, nodes, ring, copy>>

\* self._sorted_keys = sorted(self._ring)
SortKeys ==
    /\ change.kind # "none" /\ change.todo = {}
    /\ sorted_keys' = Sorted(DOMAIN ring)
    /\ change' = NoChange
    /\ UNCHANGED <<placement, nodes, ring, copy>>

Caller == (\E n \in Node : BeginAdd(n) \/ BeginRemove(n)) \/ PutEntry \/ PopEntry \/ SortKeys

-----------------------------------------------------------------------------
(***************************************************************************)
(* The background thread: clone.                                           *)
(***************************************************************************)

CopyRing ==
    /\ copy.step = "none"
    /\ copy' = [NoCopy EXCEPT !.step = "ring", !.ring = ring, !.atRest = change = NoChange]
    /\ UNCHANGED <<placement, nodes, ring, sorted_keys, change>>

CopyKeys ==
    /\ copy.step = "ring"
    /\ copy' = [copy EXCEPT !.step = "keys", !.keys = sorted_keys]
    /\ UNCHANGED <<placement, nodes, ring, sorted_keys, change>>

\* The rebalance is over; the next one clones again.
DropCopy ==
    /\ copy.step = "keys"
    /\ copy' = NoCopy
    /\ UNCHANGED <<placement, nodes, ring, sorted_keys, change>>

Background == CopyRing \/ CopyKeys \/ DropCopy

Next == Caller \/ Background

Spec == Init /\ [][Next]_vars

-----------------------------------------------------------------------------
(***************************************************************************)
(* The lookups of a rebalance on its copy                                  *)
(***************************************************************************)

Raised == "IndexError or KeyError"

ASSUME RaisedAssumption == Raised \notin Node \cup {NoNode}

\* self._ring[self._sorted_keys[(index + offset) % len(self._sorted_keys)]] raises.
RaisesAt(h, offset) == Walked(copy.keys, h, offset) \notin DOMAIN copy.ring

CandidateAt(h, offset) == copy.ring[Walked(copy.keys, h, offset)]

\* get_node: None on an empty dict, IndexError on an empty list.
Primary(h) ==
    CASE copy.ring = NoEntries                         -> NoNode
      [] copy.ring # NoEntries /\ copy.keys = <<>>     -> Raised
      [] copy.ring # NoEntries /\ copy.keys # <<>>     ->
            IF RaisesAt(h, 0) THEN Raised ELSE CandidateAt(h, 0)

\* get_successor_for_key: the walk ends at the first offset that raises or has
\* another node; on an empty list it never begins.
Successor(h, exclude) ==
    LET stops == {o \in 0 .. Len(copy.keys) - 1 :
                     RaisesAt(h, o) \/ CandidateAt(h, o) # exclude}
    IN  CASE copy.ring = NoEntries \/ stops = {} -> NoNode
          [] copy.ring # NoEntries /\ stops # {} ->
                IF RaisesAt(h, Min(stops)) THEN Raised ELSE CandidateAt(h, Min(stops))

-----------------------------------------------------------------------------
(***************************************************************************)
(* Properties                                                              *)
(***************************************************************************)

\* Type invariant.  A join writes entries that are not there, a leave takes out
\* entries that are: the dict differs from the members by the rest of the change only.
TypeOK ==
    /\ nodes \in SUBSET Node
    /\ \A p \in DOMAIN ring : p \in placement[ring[p]]
    /\ change.kind \in {"none", "add", "remove"}
    /\ change.kind = "none" => change = NoChange /\ ring = RingOf(placement, nodes)
    /\ change.kind = "add" =>
          change.node \in nodes /\ DOMAIN ring = Positions(placement, nodes) \ change.todo
    /\ change.kind = "remove" =>
          change.node \notin nodes /\ DOMAIN ring = Positions(placement, nodes) \cup change.todo
    /\ copy.step \in {"none", "ring", "keys"}

\* A torn copy never mixes two rings: each lookup of a rebalance on it raises,
\* finds the dict empty, or answers what the ring answers whose list was copied, one
\* that the cluster had before or after the change under way.  (A rebalance that
\* took a torn answer for true would copy keys to nodes that are no owners.)
CopyAnswersARing ==
    LET listed == ListedRing(copy.keys)
    IN  copy.step = "keys" /\ copy.ring # NoEntries =>
            \A h \in Hash :
                /\ Primary(h) \in {Raised, NodeAt(listed, h)}
                /\ \A x \in Node : Successor(h, x) \in {Raised, SuccessorAt(listed, h, x)}

\* A copy whose dict was taken between two changes raises only if a node was
\* added before its list was taken, or if the last node had left by then: other
\* leaves cannot break the rebalance.
OnlyJoinsTearACopyAtRest ==
    copy.step = "keys" /\ copy.atRest /\ ~copy.joined /\ copy.keys # <<>> =>
        \A h \in Hash :
            /\ Primary(h) # Raised
            /\ \A x \in Node : Successor(h, x) # Raised

\* To readers of the sorted list a change of the membership is atomic: it is
\* HashRing's, at the moment the list is replaced.
ImplementsHashRing == Atomic!Spec

=============================================================================
