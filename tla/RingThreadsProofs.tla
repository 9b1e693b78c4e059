--------------------------- MODULE RingThreadsProofs ---------------------------
(***************************************************************************)
(* For every number of nodes and of virtual nodes, and any number of       *)
(* changes during one clone: what a torn copy answers, which changes can   *)
(* tear one, and that to readers of the list a change is HashRing's.  The  *)
(* invariant says what the list is of: of the members before the change    *)
(* under way, whose positions the dict has already left behind in part.    *)
(***************************************************************************)
EXTENDS RingThreads, RingProofs

Dicts   == UNION {[D -> Node] : D \in SUBSET Hash}
Changes == [kind : {"none", "add", "remove"}, node : Node \cup {NoNode}, todo : SUBSET Hash]
Copies  == [step : {"none", "ring", "keys"}, ring : Dicts, keys : Seq(Hash),
            atRest : BOOLEAN, joined : BOOLEAN, begun : Nat]

\* Every virtual node in a dict is of the node it maps to.
EntriesOK(dict) == \A p \in DOMAIN dict : p \in placement[dict[p]]

\* The members before the change under way.
Before ==
    CASE change.kind = "none"   -> nodes
      [] change.kind = "add"    -> nodes \ {change.node}
      [] change.kind = "remove" -> nodes \cup {change.node}

PlacementOK == placement \in [Node -> SUBSET Hash] /\ Placed(placement)

DictOK == ring \in Dicts /\ EntriesOK(ring)

ChangeOK ==
    /\ change \in Changes
    /\ change.kind # "none" => change.node \in Node /\ change.todo \in SUBSET placement[change.node]

ListOK == Before \in SUBSET Node /\ sorted_keys = Sorted(Positions(placement, Before))

CopyOK ==
    /\ copy \in Copies
    /\ EntriesOK(copy.ring)
    /\ copy.step = "keys" => \E L \in SUBSET Node : copy.keys = Sorted(Positions(placement, L))

\* Without a join, the list has no key that a dict copied between two changes lacks.
AtRestOK ==
    copy.atRest /\ ~copy.joined =>
        /\ copy.step = "ring" =>
              change.kind # "add" /\ Positions(placement, Before) \subseteq DOMAIN copy.ring
        /\ copy.step = "keys" =>
              \A i \in DOMAIN copy.keys : copy.keys[i] \in DOMAIN copy.ring

\* The inductive invariant.
IInv == TypeOK /\ PlacementOK /\ DictOK /\ ChangeOK /\ ListOK /\ CopyOK /\ AtRestOK

-----------------------------------------------------------------------------
(***************************************************************************)
(* Lists and dicts                                                         *)
(***************************************************************************)

\* The positions of members can be sorted.
LEMMA PositionsSortable ==
    ASSUME PlacementOK, NEW L \in SUBSET Node
    PROVE  Sortable(Positions(placement, L)) /\ Positions(placement, L) \in SUBSET Hash
<1>1. Positions(placement, L) \in SUBSET Hash
  BY DEF Positions, PlacementOK
<1> QED
  BY <1>1, ThreadsAssumption, FS_Subset DEF Sortable

\* The list of the members L lists the members L.
LEMMA ListedOfSorted ==
    ASSUME PlacementOK, NEW L \in SUBSET Node
    PROVE  Listed(Sorted(Positions(placement, L))) = L
<1> DEFINE S == Positions(placement, L)
<1> DEFINE s == Sorted(S)
<1>1. Sortable(S)
  BY PositionsSortable
<1>2. ASSUME NEW n \in L PROVE n \in Listed(s)
  <2>1. ASSUME NEW p \in placement[n] PROVE \E i \in DOMAIN s : s[i] = p
    <3>1. p \in S
      BY DEF Positions
    <3>2. Rank(S, p) + 1 \in 1 .. Cardinality(S) /\ s[Rank(S, p) + 1] = p
      BY <1>1, <3>1, SortedAtRank
    <3>3. DOMAIN s = 1 .. Cardinality(S)
      BY <1>1, SortedLength
    <3> QED
      BY <3>2, <3>3
  <2> QED
    BY <2>1 DEF Listed
<1>3. ASSUME NEW n \in Listed(s) PROVE n \in L
  <2>1. n \in Node
    BY DEF Listed
  <2>2. PICK p \in placement[n] : TRUE
    BY <2>1 DEF PlacementOK, Placed
  <2>3. PICK i \in DOMAIN s : s[i] = p
    BY <2>2 DEF Listed
  <2>4. DOMAIN s = 1 .. Cardinality(S)
    BY <1>1, SortedLength
  <2>5. p \in S
    BY <1>1, <2>3, <2>4, SortedElement
  <2>6. PICK m \in L : p \in placement[m]
    BY <2>5 DEF Positions
  <2> QED
    BY <2>1, <2>2, <2>6 DEF PlacementOK, Placed, Disjoint
<1> QED
  BY <1>2, <1>3

\* A dict with the positions of the members M is the ring of M.
LEMMA DictIsRing ==
    ASSUME PlacementOK, NEW dict \in Dicts, EntriesOK(dict), NEW M \in SUBSET Node,
           DOMAIN dict = Positions(placement, M)
    PROVE  dict = RingOf(placement, M)
<1>1. PICK D \in SUBSET Hash : dict \in [D -> Node]
  BY DEF Dicts
<1>2. D = Positions(placement, M)
  BY <1>1
<1>3. ASSUME NEW p \in D PROVE dict[p] = RingOf(placement, M)[p]
  <2>1. dict[p] \in Node /\ p \in placement[dict[p]]
    BY <1>1 DEF EntriesOK
  <2>2. RingOf(placement, M)[p] \in M /\ p \in placement[RingOf(placement, M)[p]]
    BY <1>2, RingOfPositions DEF PlacementOK
  <2> QED
    BY <2>1, <2>2 DEF PlacementOK, Placed, Disjoint
<1>4. RingOf(placement, M) = [p \in D |-> RingOf(placement, M)[p]]
  BY <1>2 DEF RingOf
<1> QED
  BY <1>1, <1>3, <1>4

\* The ring of members is such a dict.
LEMMA RingIsDict ==
    ASSUME PlacementOK, NEW M \in SUBSET Node
    PROVE  RingOf(placement, M) \in Dicts /\ EntriesOK(RingOf(placement, M))
<1>1. DOMAIN RingOf(placement, M) = Positions(placement, M)
      /\ \A p \in Positions(placement, M) :
            RingOf(placement, M)[p] \in M /\ p \in placement[RingOf(placement, M)[p]]
  BY RingOfPositions DEF PlacementOK
<1>2. Positions(placement, M) \in SUBSET Hash
  BY PositionsSortable
<1>3. RingOf(placement, M) \in [Positions(placement, M) -> Node]
  BY <1>1 DEF RingOf
<1> QED
  BY <1>1, <1>2, <1>3 DEF Dicts, EntriesOK

\* The empty dict.
LEMMA NoEntriesIsDict == NoEntries \in Dicts /\ EntriesOK(NoEntries) /\ DOMAIN NoEntries = {}
<1>1. NoEntries \in [{} -> Node]
  BY DEF NoEntries
<1>2. {} \in SUBSET Hash
  OBVIOUS
<1> QED
  BY <1>1, <1>2 DEF Dicts, EntriesOK

\* A dict with one more entry, and with one fewer.
LEMMA DictWith ==
    ASSUME NEW dict \in Dicts, EntriesOK(dict), NEW n \in Node, NEW p \in placement[n] \cap Hash
    PROVE  LET after == [q \in DOMAIN dict \cup {p} |-> IF q = p THEN n ELSE dict[q]]
           IN  after \in Dicts /\ EntriesOK(after) /\ DOMAIN after = DOMAIN dict \cup {p}
<1> DEFINE after == [q \in DOMAIN dict \cup {p} |-> IF q = p THEN n ELSE dict[q]]
<1>1. PICK D \in SUBSET Hash : dict \in [D -> Node]
  BY DEF Dicts
<1>2. after \in [D \cup {p} -> Node] /\ D \cup {p} \in SUBSET Hash
  BY <1>1
<1>3. EntriesOK(after)
  BY DEF EntriesOK
<1> QED
  BY <1>1, <1>2, <1>3 DEF Dicts

\* A dict without one of its entries is a dict of virtual nodes as well.
LEMMA DictWithout ==
    ASSUME NEW dict \in Dicts, EntriesOK(dict), NEW p
    PROVE  LET after == [q \in DOMAIN dict \ {p} |-> dict[q]]
           IN  after \in Dicts /\ EntriesOK(after) /\ DOMAIN after = DOMAIN dict \ {p}
<1> DEFINE after == [q \in DOMAIN dict \ {p} |-> dict[q]]
<1>1. PICK D \in SUBSET Hash : dict \in [D -> Node]
  BY DEF Dicts
<1>2. after \in [D \ {p} -> Node] /\ D \ {p} \in SUBSET Hash
  BY <1>1
<1>3. EntriesOK(after)
  BY DEF EntriesOK
<1> QED
  BY <1>1, <1>2, <1>3 DEF Dicts

-----------------------------------------------------------------------------
(***************************************************************************)
(* The invariant is inductive                                              *)
(***************************************************************************)

\* The empty ring satisfies it.
LEMMA IInvInit == Init => IInv
<1> SUFFICES ASSUME Init PROVE IInv
  OBVIOUS
<1>1. PlacementOK
  <2>1. placement \in [Node -> SUBSET Hash] /\ Disjoint(placement)
    BY DEF Init, kSubset
  <2>2. ASSUME NEW n \in Node PROVE placement[n] # {}
    <3>1. Cardinality(placement[n]) = Replicas
      BY DEF Init, kSubset
    <3> QED
      BY <3>1, FS_EmptySet, ThreadsAssumption
  <2>3. placement \in [Node -> SUBSET Nat]
    BY <2>1, ThreadsAssumption
  <2> QED
    BY <2>1, <2>2, <2>3 DEF PlacementOK, Placed
<1>2. Positions(placement, {}) = {}
  BY DEF Positions
<1>3. DictOK /\ ring = RingOf(placement, nodes)
  <2>1. RingOf(placement, {}) = NoEntries
    BY <1>2 DEF RingOf, NoEntries
  <2> QED
    BY <2>1, NoEntriesIsDict DEF Init, DictOK
<1>4. ChangeOK /\ change.kind = "none"
  BY DEF Init, ChangeOK, Changes, NoChange
<1>5. ListOK
  <2>1. Sorted({}) = <<>>
    BY FS_EmptySet DEF Sorted
  <2> QED
    BY <1>2, <1>4, <2>1 DEF ListOK, Before, Init
<1>6. CopyOK /\ copy.step = "none"
  <2>1. copy = NoCopy
    BY DEF Init
  <2>2. NoCopy.step = "none" /\ NoCopy.ring = NoEntries /\ NoCopy \in Copies
    BY NoEntriesIsDict DEF NoCopy, Copies
  <2> QED
    BY <2>1, <2>2, NoEntriesIsDict DEF CopyOK
<1>7. TypeOK
  <2>1. nodes = {} /\ change = NoChange
    BY DEF Init
  <2>2. \A p \in DOMAIN ring : p \in placement[ring[p]]
    BY <1>3 DEF DictOK, EntriesOK
  <2> QED
    BY <1>3, <1>4, <1>6, <2>1, <2>2 DEF TypeOK
<1> QED
  BY <1>1, <1>3, <1>4, <1>5, <1>6, <1>7 DEF IInv, AtRestOK

\* A change that begins leaves the copy as it is, but for the ghosts.
LEMMA OverlapKeepsCopy ==
    ASSUME CopyOK, NEW join \in BOOLEAN, Overlap(join), UNCHANGED placement
    PROVE  /\ CopyOK'
           /\ copy'.step = copy.step /\ copy'.ring = copy.ring /\ copy'.keys = copy.keys
           /\ copy'.atRest = copy.atRest
           /\ copy.step # "none" => copy'.joined = (copy.joined \/ join)
<1>1. copy \in Copies
  BY DEF CopyOK
<1>2. CASE copy.step = "none"
  BY <1>2 DEF Overlap, CopyOK, EntriesOK
<1>3. CASE copy.step # "none"
  <2>1. copy' = [copy EXCEPT !.begun = copy.begun + 1, !.joined = copy.joined \/ join]
    BY <1>3 DEF Overlap
  <2>2. PICK b \in BOOLEAN : b = (copy.joined \/ join)
    BY Zenon
  <2>3. /\ copy' \in Copies
        /\ copy'.step = copy.step /\ copy'.ring = copy.ring /\ copy'.keys = copy.keys
        /\ copy'.atRest = copy.atRest /\ copy'.joined = b
    <3>1. copy' = [copy EXCEPT !.begun = copy.begun + 1, !.joined = b]
      BY <2>1, <2>2, Zenon
    <3> DEFINE counted == [copy EXCEPT !.begun = copy.begun + 1]
    <3>2. counted \in Copies
      BY <1>1 DEF Copies
    <3>3. copy' = [counted EXCEPT !.joined = b]
      BY <1>1, <3>1 DEF Copies
    <3>4. copy' \in Copies
      <4> HIDE DEF counted
      <4> QED
        BY <3>2, <3>3 DEF Copies
    <3>5. copy'.step = copy.step /\ copy'.ring = copy.ring /\ copy'.keys = copy.keys
      BY <1>1, <3>1 DEF Copies
    <3>6. copy'.atRest = copy.atRest
      BY <1>1, <3>1 DEF Copies
    <3>7. copy'.joined = b
      BY <1>1, <3>1 DEF Copies
    <3> QED
      BY <3>4, <3>5, <3>6, <3>7
  <2> QED
    BY <2>2, <2>3 DEF CopyOK, EntriesOK
<1> QED
  BY <1>2, <1>3

\* A join begins.
LEMMA IInvBeginAdd ==
    ASSUME IInv, NEW n \in Node, BeginAdd(n)
    PROVE  IInv'
<1>1. /\ change = NoChange /\ n \notin nodes /\ nodes' = nodes \cup {n} /\ nodes \in SUBSET Node
      /\ change' = [kind |-> "add", node |-> n, todo |-> placement[n]]
      /\ UNCHANGED <<placement, ring, sorted_keys>> /\ Overlap(TRUE)
      /\ PlacementOK /\ DictOK /\ ring = RingOf(placement, nodes)
  BY DEF BeginAdd, IInv, TypeOK, NoChange
<1>2. CopyOK' /\ copy'.step = copy.step /\ copy'.ring = copy.ring /\ copy'.keys = copy.keys
      /\ (copy.step # "none" => copy'.joined = (copy.joined \/ TRUE))
  BY <1>1, OverlapKeepsCopy DEF IInv
<1>3. PlacementOK' /\ DictOK'
  BY <1>1 DEF PlacementOK, Placed, Disjoint, DictOK, EntriesOK
<1>4. ChangeOK'
  <2>1. placement[n] \in SUBSET Hash
    BY <1>1 DEF PlacementOK
  <2> QED
    BY <1>1, <2>1 DEF ChangeOK, Changes
<1>5. ListOK'
  <2>1. Before = nodes /\ Before' = nodes' \ {n}
    BY <1>1 DEF Before, NoChange
  <2>2. Before' = Before
    BY <1>1, <2>1
  <2> QED
    BY <1>1, <2>2 DEF IInv, ListOK
<1>6. DOMAIN ring = Positions(placement, nodes \cup {n}) \ placement[n]
  <2>1. DOMAIN ring = Positions(placement, nodes)
    BY <1>1, RingOfPositions DEF PlacementOK
  <2>2. Positions(placement, nodes) \cap placement[n] = {}
    BY <1>1 DEF Positions, PlacementOK, Placed, Disjoint
  <2>3. Positions(placement, nodes \cup {n}) = Positions(placement, nodes) \cup placement[n]
    BY DEF Positions
  <2> QED
    BY <2>1, <2>2, <2>3
<1>7. TypeOK'
  BY <1>1, <1>2, <1>3, <1>6 DEF TypeOK, DictOK, EntriesOK, IInv
<1>8. AtRestOK'
  <2>1. copy.step # "none" => copy'.joined
    BY <1>2
  <2> QED
    BY <1>2, <2>1 DEF AtRestOK
<1> QED
  BY <1>2, <1>3, <1>4, <1>5, <1>7, <1>8 DEF IInv

\* A leave begins.
LEMMA IInvBeginRemove ==
    ASSUME IInv, NEW n \in Node, BeginRemove(n)
    PROVE  IInv'
<1> DEFINE T == DOMAIN ring \ Others(ring, n)
<1>1. /\ change = NoChange /\ n \in nodes /\ nodes' = nodes \ {n} /\ nodes \in SUBSET Node
      /\ change' = [kind |-> "remove", node |-> n, todo |-> T]
      /\ UNCHANGED <<placement, ring, sorted_keys>> /\ Overlap(FALSE)
      /\ PlacementOK /\ DictOK /\ ring = RingOf(placement, nodes)
  BY DEF BeginRemove, IInv, TypeOK, NoChange
<1>2. CopyOK' /\ copy'.step = copy.step /\ copy'.ring = copy.ring /\ copy'.keys = copy.keys
      /\ copy'.atRest = copy.atRest
      /\ (copy.step # "none" => copy'.joined = (copy.joined \/ FALSE))
  BY <1>1, OverlapKeepsCopy DEF IInv
<1>3. PlacementOK' /\ DictOK'
  BY <1>1 DEF PlacementOK, Placed, Disjoint, DictOK, EntriesOK
<1>4. T \in SUBSET placement[n]
  BY <1>1 DEF DictOK, EntriesOK, Others
<1>5. ChangeOK'
  <2>1. T \in SUBSET Hash
    BY <1>1, <1>4 DEF PlacementOK
  <2> QED
    BY <1>1, <1>4, <2>1 DEF ChangeOK, Changes
<1>6. Before' = Before /\ ListOK'
  <2>1. Before = nodes /\ Before' = nodes' \cup {n}
    BY <1>1 DEF Before, NoChange
  <2>2. Before' = Before
    BY <1>1, <2>1
  <2> QED
    BY <1>1, <2>2 DEF IInv, ListOK
<1>7. DOMAIN ring = Positions(placement, nodes \ {n}) \cup T
  <2>1. Others(ring, n) = Positions(placement, nodes \ {n})
    BY <1>1, OthersArePositions DEF PlacementOK
  <2> QED
    BY <2>1 DEF Others
<1>8. TypeOK'
  BY <1>1, <1>2, <1>3, <1>7 DEF TypeOK, DictOK, EntriesOK, IInv
<1>9. AtRestOK'
  BY <1>1, <1>2, <1>6 DEF AtRestOK, IInv
<1> QED
  BY <1>2, <1>3, <1>5, <1>6, <1>8, <1>9 DEF IInv

\* An entry of the node that joins.
LEMMA IInvPutEntry ==
    ASSUME IInv, PutEntry
    PROVE  IInv'
<1>1. PICK p \in change.todo :
         /\ ring' = [q \in DOMAIN ring \cup {p} |-> IF q = p THEN change.node ELSE ring[q]]
         /\ change' = [change EXCEPT !.todo = change.todo \ {p}]
  BY DEF PutEntry
<1>2. /\ change.kind = "add" /\ change \in Changes /\ change.node \in Node
      /\ change.todo \in SUBSET placement[change.node] /\ change.node \in nodes
      /\ DOMAIN ring = Positions(placement, nodes) \ change.todo
      /\ UNCHANGED <<placement, nodes, sorted_keys, copy>> /\ nodes \in SUBSET Node
      /\ PlacementOK /\ DictOK
  BY DEF PutEntry, IInv, TypeOK, ChangeOK
<1>3. /\ change' \in Changes /\ change'.kind = "add" /\ change'.node = change.node
      /\ change'.todo = change.todo \ {p}
  BY <1>1, <1>2 DEF Changes
<1>4. PlacementOK' /\ ChangeOK' /\ CopyOK'
  <2>1. PlacementOK'
    BY <1>2 DEF PlacementOK, Placed, Disjoint
  <2>2. ChangeOK'
    BY <1>2, <1>3 DEF ChangeOK
  <2>3. CopyOK'
    BY <1>2 DEF IInv, CopyOK, EntriesOK
  <2> QED
    BY <2>1, <2>2, <2>3
<1>5. p \in placement[change.node] /\ p \in Hash /\ p \in Positions(placement, nodes)
  BY <1>2 DEF PlacementOK, Positions
<1>6. DictOK' /\ DOMAIN ring' = DOMAIN ring \cup {p}
  <2>1. ring' \in Dicts /\ EntriesOK(ring') /\ DOMAIN ring' = DOMAIN ring \cup {p}
    BY <1>1, <1>2, <1>5, DictWith DEF DictOK
  <2> QED
    BY <1>2, <2>1 DEF DictOK, EntriesOK
<1>7. Before' = Before
  BY <1>2, <1>3 DEF Before
<1>8. ListOK'
  BY <1>2, <1>7 DEF IInv, ListOK
<1>9. TypeOK'
  <2>1. DOMAIN ring' = Positions(placement, nodes) \ change'.todo
    BY <1>2, <1>3, <1>5, <1>6
  <2> QED
    BY <1>2, <1>3, <1>6, <2>1 DEF TypeOK, DictOK, EntriesOK, IInv
<1>10. AtRestOK'
  BY <1>2, <1>3, <1>7 DEF AtRestOK, IInv
<1> QED
  BY <1>4, <1>6, <1>8, <1>9, <1>10 DEF IInv

\* An entry of the node that leaves.
LEMMA IInvPopEntry ==
    ASSUME IInv, PopEntry
    PROVE  IInv'
<1>1. PICK p \in change.todo :
         /\ ring' = [q \in DOMAIN ring \ {p} |-> ring[q]]
         /\ change' = [change EXCEPT !.todo = change.todo \ {p}]
  BY DEF PopEntry
<1>2. /\ change.kind = "remove" /\ change \in Changes /\ change.node \in Node
      /\ change.todo \in SUBSET placement[change.node] /\ change.node \notin nodes
      /\ DOMAIN ring = Positions(placement, nodes) \cup change.todo
      /\ UNCHANGED <<placement, nodes, sorted_keys, copy>> /\ nodes \in SUBSET Node
      /\ PlacementOK /\ DictOK
  BY DEF PopEntry, IInv, TypeOK, ChangeOK
<1>3. /\ change' \in Changes /\ change'.kind = "remove" /\ change'.node = change.node
      /\ change'.todo = change.todo \ {p}
  BY <1>1, <1>2 DEF Changes
<1>4. PlacementOK' /\ ChangeOK' /\ CopyOK'
  <2>1. PlacementOK'
    BY <1>2 DEF PlacementOK, Placed, Disjoint
  <2>2. ChangeOK'
    BY <1>2, <1>3 DEF ChangeOK
  <2>3. CopyOK'
    BY <1>2 DEF IInv, CopyOK, EntriesOK
  <2> QED
    BY <2>1, <2>2, <2>3
<1>5. p \notin Positions(placement, nodes)
  BY <1>2 DEF Positions, PlacementOK, Placed, Disjoint
<1>6. DictOK' /\ DOMAIN ring' = DOMAIN ring \ {p}
  <2>1. ring' \in Dicts /\ EntriesOK(ring') /\ DOMAIN ring' = DOMAIN ring \ {p}
    BY <1>1, <1>2, DictWithout DEF DictOK
  <2> QED
    BY <1>2, <2>1 DEF DictOK, EntriesOK
<1>7. Before' = Before
  BY <1>2, <1>3 DEF Before
<1>8. ListOK'
  BY <1>2, <1>7 DEF IInv, ListOK
<1>9. TypeOK'
  <2>1. DOMAIN ring' = Positions(placement, nodes) \cup change'.todo
    BY <1>2, <1>3, <1>5, <1>6
  <2> QED
    BY <1>2, <1>3, <1>6, <2>1 DEF TypeOK, DictOK, EntriesOK, IInv
<1>10. AtRestOK'
  BY <1>2, <1>3, <1>7 DEF AtRestOK, IInv
<1> QED
  BY <1>4, <1>6, <1>8, <1>9, <1>10 DEF IInv

\* The list catches up with the dict; the change is over.
LEMMA SortKeysListsRing ==
    ASSUME IInv, SortKeys
    PROVE  /\ sorted_keys' = Sorted(Positions(placement, nodes))
           /\ change' = NoChange /\ change'.kind = "none"
           /\ UNCHANGED <<placement, nodes, ring, copy>>
           /\ DOMAIN ring = Positions(placement, nodes) /\ nodes \in SUBSET Node
           /\ ring = RingOf(placement, nodes)
           /\ change.kind \in {"add", "remove"} /\ change.node \in Node
<1>1. /\ change.kind # "none" /\ change.todo = {} /\ sorted_keys' = Sorted(DOMAIN ring)
      /\ change' = NoChange /\ UNCHANGED <<placement, nodes, ring, copy>>
  BY DEF SortKeys
<1>2. change.kind \in {"add", "remove"} /\ nodes \in SUBSET Node /\ change.node \in Node
  BY <1>1 DEF IInv, TypeOK, ChangeOK
<1>3. DOMAIN ring = Positions(placement, nodes)
  BY <1>1, <1>2 DEF IInv, TypeOK
<1>4. ring = RingOf(placement, nodes)
  BY <1>2, <1>3, DictIsRing DEF IInv, DictOK
<1>5. change'.kind = "none"
  BY <1>1 DEF NoChange
<1> QED
  BY <1>1, <1>2, <1>3, <1>4, <1>5

\* The invariant after the last step of a change.
LEMMA IInvSortKeys ==
    ASSUME IInv, SortKeys
    PROVE  IInv'
<1>1. /\ sorted_keys' = Sorted(Positions(placement, nodes))
      /\ change' = NoChange /\ change'.kind = "none"
      /\ UNCHANGED <<placement, nodes, ring, copy>>
      /\ nodes \in SUBSET Node /\ ring = RingOf(placement, nodes)
      /\ change.kind \in {"add", "remove"}
  BY SortKeysListsRing
<1>2. PlacementOK' /\ DictOK' /\ CopyOK'
  <2>1. PlacementOK'
    BY <1>1 DEF IInv, PlacementOK, Placed, Disjoint
  <2>2. DictOK'
    BY <1>1 DEF IInv, DictOK, EntriesOK
  <2>3. CopyOK'
    BY <1>1 DEF IInv, CopyOK, EntriesOK
  <2> QED
    BY <2>1, <2>2, <2>3
<1>3. ChangeOK'
  BY <1>1 DEF ChangeOK, Changes, NoChange
<1>4. Before' = nodes
  BY <1>1 DEF Before
<1>5. ListOK'
  BY <1>1, <1>4 DEF ListOK
<1>6. TypeOK'
  BY <1>1, <1>2 DEF TypeOK, DictOK, EntriesOK, IInv
<1>7. AtRestOK'
  <2>1. change.kind = "remove" => Positions(placement, nodes) \in SUBSET Positions(placement, Before)
    BY DEF Before, Positions
  <2> QED
    BY <1>1, <1>4, <2>1 DEF AtRestOK, IInv
<1> QED
  BY <1>2, <1>3, <1>5, <1>6, <1>7 DEF IInv

\* What a step of the clone leaves alone.
LEMMA IInvClone ==
    ASSUME IInv, UNCHANGED <<placement, nodes, ring, sorted_keys, change>>, CopyOK', AtRestOK'
    PROVE  IInv'
<1>1. PlacementOK' /\ DictOK' /\ ChangeOK'
  <2>1. PlacementOK'
    BY DEF IInv, PlacementOK, Placed, Disjoint
  <2>2. DictOK'
    BY DEF IInv, DictOK, EntriesOK
  <2>3. ChangeOK'
    BY DEF IInv, ChangeOK
  <2> QED
    BY <2>1, <2>2, <2>3
<1>2. Before' = Before
  BY DEF Before
<1>3. ListOK'
  BY <1>2 DEF IInv, ListOK
<1>4. TypeOK'
  <2>1. copy'.step \in {"none", "ring", "keys"}
    BY DEF CopyOK, Copies
  <2> QED
    BY <2>1 DEF IInv, TypeOK
<1> QED
  BY <1>1, <1>3, <1>4 DEF IInv

\* The dict is copied.
LEMMA IInvCopyRing ==
    ASSUME IInv, CopyRing
    PROVE  IInv'
<1>1. /\ copy' = [NoCopy EXCEPT !.step = "ring", !.ring = ring, !.atRest = change = NoChange]
      /\ UNCHANGED <<placement, nodes, ring, sorted_keys, change>>
      /\ ring \in Dicts /\ EntriesOK(ring)
  BY DEF CopyRing, IInv, DictOK
<1>2. /\ copy' \in Copies /\ copy'.step = "ring" /\ copy'.ring = ring
      /\ copy'.atRest = (change = NoChange)
  <2>1. PICK b \in BOOLEAN : b = (change = NoChange)
    BY Zenon
  <2>2. /\ copy' \in Copies /\ copy'.step = "ring" /\ copy'.ring = ring
        /\ copy'.atRest = b
    <3>1. copy' = [NoCopy EXCEPT !.step = "ring", !.ring = ring, !.atRest = b]
      BY <1>1, <2>1, Zenon
    <3>2. NoCopy \in Copies
      BY NoEntriesIsDict DEF Copies, NoCopy
    <3>3. copy' \in Copies
      BY <1>1, <3>1, <3>2 DEF Copies
    <3>4. copy'.step = "ring" /\ copy'.ring = ring
      BY <3>1, <3>2 DEF Copies
    <3>5. copy'.atRest = b
      BY <3>1, <3>2 DEF Copies
    <3> QED
      BY <3>3, <3>4, <3>5
  <2> QED
    BY <2>1, <2>2
<1>3. CopyOK'
  BY <1>1, <1>2 DEF CopyOK, EntriesOK
<1>4. AtRestOK'
  <2>1. change = NoChange =>
           /\ change.kind = "none" /\ Before = nodes /\ DOMAIN ring = Positions(placement, nodes)
    <3>1. change = NoChange => change.kind = "none" /\ Before = nodes
      BY DEF NoChange, Before
    <3>2. change.kind = "none" => ring = RingOf(placement, nodes)
      BY DEF IInv, TypeOK
    <3> QED
      BY <3>1, <3>2 DEF RingOf
  <2>2. Before' = Before
    BY <1>1 DEF Before
  <2> QED
    BY <1>1, <1>2, <2>1, <2>2 DEF AtRestOK
<1> QED
  BY <1>1, <1>3, <1>4, IInvClone

\* The list is copied.
LEMMA IInvCopyKeys ==
    ASSUME IInv, CopyKeys
    PROVE  IInv'
<1>1. /\ copy.step = "ring" /\ copy \in Copies
      /\ copy' = [copy EXCEPT !.step = "keys", !.keys = sorted_keys]
      /\ UNCHANGED <<placement, nodes, ring, sorted_keys, change>>
      /\ PlacementOK /\ Before \in SUBSET Node
      /\ sorted_keys = Sorted(Positions(placement, Before))
  BY DEF CopyKeys, IInv, CopyOK, ListOK
<1>2. /\ Sortable(Positions(placement, Before))
      /\ Positions(placement, Before) \in SUBSET Hash
      /\ DOMAIN sorted_keys = 1 .. Cardinality(Positions(placement, Before))
      /\ sorted_keys \in Seq(Positions(placement, Before))
  BY <1>1, PositionsSortable, SortedLength
<1>3. sorted_keys \in Seq(Hash)
  BY <1>2
<1>4. /\ copy' \in Copies /\ copy'.step = "keys" /\ copy'.keys = sorted_keys
      /\ copy'.ring = copy.ring /\ copy'.atRest = copy.atRest /\ copy'.joined = copy.joined
  BY <1>1, <1>3 DEF Copies
<1>5. CopyOK'
  BY <1>1, <1>4 DEF CopyOK, EntriesOK, IInv
<1>6. AtRestOK'
  <2>1. \A i \in DOMAIN sorted_keys : sorted_keys[i] \in Positions(placement, Before)
    BY <1>1, <1>2, SortedElement
  <2> QED
    BY <1>1, <1>4, <2>1 DEF AtRestOK, IInv
<1> QED
  BY <1>1, <1>5, <1>6, IInvClone

\* The rebalance is over.
LEMMA IInvDropCopy ==
    ASSUME IInv, DropCopy
    PROVE  IInv'
<1>1. copy' = NoCopy /\ UNCHANGED <<placement, nodes, ring, sorted_keys, change>>
  BY DEF DropCopy
<1>2. NoCopy.step = "none" /\ NoCopy.ring = NoEntries /\ NoCopy \in Copies
  BY NoEntriesIsDict DEF NoCopy, Copies
<1>3. CopyOK'
  BY <1>1, <1>2, NoEntriesIsDict DEF CopyOK, EntriesOK
<1>4. AtRestOK'
  BY <1>1, <1>2 DEF AtRestOK
<1> QED
  BY <1>1, <1>3, <1>4, IInvClone

\* Every step of either thread keeps the invariant.
LEMMA IInvNext == IInv /\ [Next]_vars => IInv'
<1> SUFFICES ASSUME IInv, [Next]_vars PROVE IInv'
  OBVIOUS
<1>1. CASE Caller
  BY <1>1, IInvBeginAdd, IInvBeginRemove, IInvPutEntry, IInvPopEntry, IInvSortKeys DEF Caller
<1>2. CASE Background
  BY <1>2, IInvCopyRing, IInvCopyKeys, IInvDropCopy DEF Background
<1>3. CASE UNCHANGED vars
  <2>1. CopyOK'
    BY <1>3 DEF vars, IInv, CopyOK, EntriesOK
  <2>2. Before' = Before
    BY <1>3 DEF vars, Before
  <2>3. AtRestOK'
    BY <1>3, <2>2 DEF vars, IInv, AtRestOK
  <2> QED
    BY <1>3, <2>1, <2>3, IInvClone DEF vars
<1> QED
  BY <1>1, <1>2, <1>3 DEF Next

\* So it holds throughout.
LEMMA IInvAlways == Spec => []IInv
BY IInvInit, IInvNext, PTL DEF Spec

\* The dict differs from the members by the rest of the change under way only.
THEOREM TypeCorrect == Spec => []TypeOK
<1>1. IInv => TypeOK
  BY DEF IInv
<1> QED
  BY <1>1, IInvAlways, PTL

-----------------------------------------------------------------------------
(***************************************************************************)
(* What a copy answers                                                     *)
(***************************************************************************)

\* The list of a copy is the list of some members; where a lookup on the copy
\* does not raise it reads the node that the ring of these members has there.
LEMMA CopyReads ==
    ASSUME IInv, copy.step = "keys", NEW h \in Nat
    PROVE  \E L \in SUBSET Node :
              LET S == Positions(placement, L)
              IN  /\ L = Listed(copy.keys) /\ copy.keys = Sorted(S) /\ Sortable(S)
                  /\ Len(copy.keys) = Cardinality(S) /\ Cardinality(S) \in Nat
                  /\ S = {} <=> Cardinality(S) = 0
                  /\ DOMAIN RingOf(placement, L) = S
                  /\ \A o \in 0 .. Cardinality(S) - 1 :
                        /\ Walked(copy.keys, h, o) \in S
                        /\ ~RaisesAt(h, o) =>
                              /\ CandidateAt(h, o) \in Node
                              /\ CandidateAt(h, o) = RingOf(placement, L)[Walked(copy.keys, h, o)]
<1>1. PICK L \in SUBSET Node : copy.keys = Sorted(Positions(placement, L))
  BY DEF IInv, CopyOK
<1> DEFINE S == Positions(placement, L)
<1>2. PlacementOK /\ EntriesOK(copy.ring) /\ copy.ring \in Dicts
  BY DEF IInv, CopyOK, Copies
<1>3. L = Listed(copy.keys) /\ Sortable(S)
  BY <1>1, <1>2, ListedOfSorted, PositionsSortable
<1>4. Len(copy.keys) = Cardinality(S) /\ Cardinality(S) \in Nat /\ (S = {} <=> Cardinality(S) = 0)
  BY <1>1, <1>3, SortedLength, FS_EmptySet DEF Sortable
<1>5. /\ DOMAIN RingOf(placement, L) = S
      /\ \A p \in S : RingOf(placement, L)[p] \in L /\ p \in placement[RingOf(placement, L)[p]]
  BY <1>2, RingOfPositions DEF PlacementOK
<1>6. ASSUME NEW o \in 0 .. Cardinality(S) - 1
      PROVE  /\ Walked(copy.keys, h, o) \in S
             /\ ~RaisesAt(h, o) =>
                   /\ CandidateAt(h, o) \in Node
                   /\ CandidateAt(h, o) = RingOf(placement, L)[Walked(copy.keys, h, o)]
  <2> DEFINE p == Walked(copy.keys, h, o)
  <2>1. S # {}
    <3> HIDE DEF S
    <3> QED
      BY <1>4
  <2>2. p \in S
    BY <1>1, <1>3, <2>1, WalkedPlace
  <2>3. ASSUME ~RaisesAt(h, o)
        PROVE  CandidateAt(h, o) \in Node /\ CandidateAt(h, o) = RingOf(placement, L)[p]
    <3> HIDE DEF p, S
    <3>1. p \in DOMAIN copy.ring /\ CandidateAt(h, o) = copy.ring[p]
      BY <2>3 DEF RaisesAt, CandidateAt, p
    <3>2. copy.ring[p] \in Node /\ p \in placement[copy.ring[p]]
      BY <1>2, <3>1 DEF Dicts, EntriesOK
    <3>3. RingOf(placement, L)[p] \in Node /\ p \in placement[RingOf(placement, L)[p]]
      BY <1>5, <2>2
    <3> QED
      BY <1>2, <3>1, <3>2, <3>3 DEF PlacementOK, Placed, Disjoint
  <2> QED
    BY <2>2, <2>3
<1> QED
  BY <1>1, <1>3, <1>4, <1>5, <1>6

\* A list that is not empty has an element at offset 0.
LEMMA ListNotEmpty ==
    ASSUME NEW s \in Seq(Hash), s # <<>>
    PROVE  0 \in 0 .. Len(s) - 1
OBVIOUS

\* The binary search on a copy raises or finds the first node clockwise.
LEMMA CopyPrimary ==
    ASSUME IInv, copy.step = "keys", copy.ring # NoEntries, NEW h \in Nat
    PROVE  Primary(h) \in {Raised, NodeAt(ListedRing(copy.keys), h)}
<1>1. PICK L \in SUBSET Node :
         LET S == Positions(placement, L)
         IN  /\ L = Listed(copy.keys) /\ copy.keys = Sorted(S) /\ Sortable(S)
             /\ Len(copy.keys) = Cardinality(S) /\ Cardinality(S) \in Nat
             /\ S = {} <=> Cardinality(S) = 0
             /\ DOMAIN RingOf(placement, L) = S
             /\ \A o \in 0 .. Cardinality(S) - 1 :
                   /\ Walked(copy.keys, h, o) \in S
                   /\ ~RaisesAt(h, o) =>
                         /\ CandidateAt(h, o) \in Node
                         /\ CandidateAt(h, o) = RingOf(placement, L)[Walked(copy.keys, h, o)]
  BY CopyReads
<1> DEFINE S == Positions(placement, L)
<1>2. CASE copy.keys = <<>>
  BY <1>2 DEF Primary
<1>3. CASE copy.keys # <<>> /\ RaisesAt(h, 0)
  BY <1>3 DEF Primary
<1>4. CASE copy.keys # <<>> /\ ~RaisesAt(h, 0)
  <2>1. S # {} /\ 0 \in 0 .. Cardinality(S) - 1
    <3>1. copy.keys \in Seq(Hash)
      BY DEF IInv, CopyOK, Copies
    <3>2. 0 \in 0 .. Len(copy.keys) - 1
      BY <1>4, <3>1, ListNotEmpty
    <3> QED
      BY <1>1, <3>2
  <2>2. /\ Walked(copy.keys, h, 0) \in S
        /\ CandidateAt(h, 0) = RingOf(placement, L)[Walked(copy.keys, h, 0)]
    BY <1>1, <1>4, <2>1
  <2>3. Walked(copy.keys, h, 0) = FirstAfter(S, h)
    BY <1>1, <2>1, <2>2, FirstOnWalk
  <2>4. Primary(h) = CandidateAt(h, 0)
    BY <1>4 DEF Primary
  <2>5. NodeAt(ListedRing(copy.keys), h) = RingOf(placement, L)[FirstAfter(S, h)]
    BY <1>1, <2>1 DEF NodeAt, ListedRing
  <2> QED
    BY <2>2, <2>3, <2>4, <2>5
<1> QED
  BY <1>2, <1>3, <1>4

\* The index walk on a copy raises or finds the first other node clockwise.
LEMMA CopySuccessor ==
    ASSUME IInv, copy.step = "keys", copy.ring # NoEntries, NEW h \in Nat, NEW x \in Node
    PROVE  Successor(h, x) \in {Raised, SuccessorAt(ListedRing(copy.keys), h, x)}
<1>1. PICK L \in SUBSET Node :
         LET S == Positions(placement, L)
         IN  /\ L = Listed(copy.keys) /\ copy.keys = Sorted(S) /\ Sortable(S)
             /\ Len(copy.keys) = Cardinality(S) /\ Cardinality(S) \in Nat
             /\ S = {} <=> Cardinality(S) = 0
             /\ DOMAIN RingOf(placement, L) = S
             /\ \A o \in 0 .. Cardinality(S) - 1 :
                   /\ Walked(copy.keys, h, o) \in S
                   /\ ~RaisesAt(h, o) =>
                         /\ CandidateAt(h, o) \in Node
                         /\ CandidateAt(h, o) = RingOf(placement, L)[Walked(copy.keys, h, o)]
  BY CopyReads
<1> DEFINE S == Positions(placement, L)
           O == Others(RingOf(placement, L), x)
           stops == {o \in 0 .. Len(copy.keys) - 1 : RaisesAt(h, o) \/ CandidateAt(h, o) # x}
<1>2. O \in SUBSET S /\ ListedRing(copy.keys) = RingOf(placement, L)
  BY <1>1 DEF Others, ListedRing
<1>3. ASSUME NEW o \in 0 .. Cardinality(S) - 1
      PROVE  /\ o \notin stops => Walked(copy.keys, h, o) \notin O
             /\ o \in stops /\ ~RaisesAt(h, o) => Walked(copy.keys, h, o) \in O
  BY <1>1 DEF Others
<1>4. CASE stops = {}
  <2>1. \A o \in 0 .. Cardinality(S) - 1 : Walked(Sorted(S), h, o) \notin O
    BY <1>1, <1>3, <1>4
  <2>2. O = {}
    BY <1>1, <1>2, <2>1, NoneOnWalk
  <2>3. Successor(h, x) = NoNode
    BY <1>4 DEF Successor
  <2> QED
    BY <1>2, <2>2, <2>3 DEF SuccessorAt
<1>5. CASE stops # {} /\ RaisesAt(h, Min(stops))
  BY <1>5 DEF Successor
<1>6. CASE stops # {} /\ ~RaisesAt(h, Min(stops))
  <2> DEFINE o == Min(stops)
  <2>1. o \in stops /\ \A y \in stops : o <= y
    <3>1. stops \in SUBSET Nat
      BY <1>1
    <3> QED
      BY <1>6, <3>1, MinIsLeast
  <2>2. o \in 0 .. Cardinality(S) - 1
    BY <1>1, <2>1
  <2>3. Walked(copy.keys, h, o) \in O
    BY <1>3, <1>6, <2>1, <2>2
  <2>4. ASSUME NEW before \in 0 .. o - 1 PROVE Walked(copy.keys, h, before) \notin O
    <3>1. before \in 0 .. Cardinality(S) - 1 /\ ~(o <= before)
      <4>1. Cardinality(S) \in Nat
        BY <1>1
      <4> HIDE DEF o, S
      <4> QED
        BY <2>2, <4>1
    <3>2. before \notin stops
      BY <2>1, <3>1
    <3> QED
      BY <1>3, <3>1, <3>2
  <2>5. Walked(copy.keys, h, o) = FirstAfter(O, h)
    BY <1>1, <1>2, <2>2, <2>3, <2>4, FirstOnWalk
  <2>6. Successor(h, x) = CandidateAt(h, o)
    BY <1>6 DEF Successor
  <2>7. CandidateAt(h, o) = RingOf(placement, L)[Walked(copy.keys, h, o)]
    BY <1>1, <1>6, <2>2
  <2> QED
    BY <1>2, <2>3, <2>5, <2>6, <2>7 DEF SuccessorAt
<1> QED
  BY <1>4, <1>5, <1>6

\* A torn copy never mixes two rings: what it answers is the answer of the ring
\* whose list was copied, or the lookup raises.
THEOREM CopyAlwaysAnswersARing == Spec => []CopyAnswersARing
<1>1. IInv => CopyAnswersARing
  BY CopyPrimary, CopySuccessor, ThreadsAssumption DEF CopyAnswersARing
<1> QED
  BY <1>1, IInvAlways, PTL

\* A dict that has every key of the list answers all lookups.
LEMMA WholeCopyAnswers ==
    ASSUME IInv, copy.step = "keys", copy.atRest, ~copy.joined, copy.keys # <<>>, NEW h \in Nat
    PROVE  Primary(h) # Raised /\ \A x \in Node : Successor(h, x) # Raised
<1>1. PICK L \in SUBSET Node :
         LET S == Positions(placement, L)
         IN  /\ L = Listed(copy.keys) /\ copy.keys = Sorted(S) /\ Sortable(S)
             /\ Len(copy.keys) = Cardinality(S) /\ Cardinality(S) \in Nat
             /\ S = {} <=> Cardinality(S) = 0
             /\ DOMAIN RingOf(placement, L) = S
             /\ \A o \in 0 .. Cardinality(S) - 1 :
                   /\ Walked(copy.keys, h, o) \in S
                   /\ ~RaisesAt(h, o) =>
                         /\ CandidateAt(h, o) \in Node
                         /\ CandidateAt(h, o) = RingOf(placement, L)[Walked(copy.keys, h, o)]
  BY CopyReads
<1> DEFINE S == Positions(placement, L)
<1>2. S \subseteq DOMAIN copy.ring
  <2>1. \A i \in DOMAIN copy.keys : copy.keys[i] \in DOMAIN copy.ring
    BY DEF IInv, AtRestOK
  <2>2. ASSUME NEW p \in S PROVE p \in DOMAIN copy.ring
    <3>1. Rank(S, p) + 1 \in 1 .. Cardinality(S) /\ copy.keys[Rank(S, p) + 1] = p
      BY <1>1, SortedAtRank
    <3>2. DOMAIN copy.keys = 1 .. Cardinality(S)
      BY <1>1, SortedLength
    <3> QED
      BY <2>1, <3>1, <3>2
  <2> QED
    BY <2>2
<1>3. ASSUME NEW o \in 0 .. Len(copy.keys) - 1
      PROVE  ~RaisesAt(h, o) /\ CandidateAt(h, o) \in Node
  <2>1. Walked(copy.keys, h, o) \in S
    BY <1>1
  <2>2. ~RaisesAt(h, o)
    BY <1>2, <2>1 DEF RaisesAt
  <2> QED
    BY <1>1, <2>2
<1>4. NoNode # Raised /\ Raised \notin Node
  BY RaisedAssumption
<1>5. Primary(h) # Raised
  <2>1. 0 \in 0 .. Len(copy.keys) - 1
    <3>1. copy.keys \in Seq(Hash)
      BY DEF IInv, CopyOK, Copies
    <3> QED
      BY <3>1, ListNotEmpty
  <2>2. ~RaisesAt(h, 0) /\ CandidateAt(h, 0) \in Node
    BY <1>3, <2>1
  <2>3. CASE copy.ring = NoEntries
    BY <1>4, <2>3 DEF Primary
  <2>4. CASE copy.ring # NoEntries
    BY <1>4, <2>2, <2>4 DEF Primary
  <2> QED
    BY <2>3, <2>4
<1>6. ASSUME NEW x \in Node PROVE Successor(h, x) # Raised
  <2> DEFINE stops == {o \in 0 .. Len(copy.keys) - 1 : RaisesAt(h, o) \/ CandidateAt(h, o) # x}
  <2>1. CASE copy.ring = NoEntries \/ stops = {}
    BY <1>4, <2>1 DEF Successor
  <2>2. CASE copy.ring # NoEntries /\ stops # {}
    <3>1. Min(stops) \in stops
      <4>1. stops \in SUBSET Nat
        BY <1>1
      <4> QED
        BY <2>2, <4>1, MinIsLeast
    <3>2. ~RaisesAt(h, Min(stops)) /\ CandidateAt(h, Min(stops)) \in Node
      BY <1>3, <3>1
    <3>3. Successor(h, x) = CandidateAt(h, Min(stops))
      BY <2>2, <3>2 DEF Successor
    <3> QED
      BY <1>4, <3>2, <3>3
  <2> QED
    BY <2>1, <2>2
<1> QED
  BY <1>5, <1>6

\* Leaves cannot tear a copy whose dict was taken between two changes.
THEOREM OnlyJoinsEverTearACopyAtRest == Spec => []OnlyJoinsTearACopyAtRest
<1>1. IInv => OnlyJoinsTearACopyAtRest
  BY WholeCopyAnswers, ThreadsAssumption DEF OnlyJoinsTearACopyAtRest
<1> QED
  BY <1>1, IInvAlways, PTL

-----------------------------------------------------------------------------
(***************************************************************************)
(* Readers of the list see HashRing                                        *)
(***************************************************************************)

\* The ring with one more member, and with one fewer, as HashRing makes them.
LEMMA RingWith ==
    ASSUME PlacementOK, NEW L \in SUBSET Node, NEW n \in Node
    PROVE  RingOf(placement, L \cup {n}) =
              [p \in DOMAIN RingOf(placement, L) \cup placement[n] |->
                  IF p \in placement[n] THEN n ELSE RingOf(placement, L)[p]]
<1> DEFINE M == L \cup {n}
           after == [p \in DOMAIN RingOf(placement, L) \cup placement[n] |->
                        IF p \in placement[n] THEN n ELSE RingOf(placement, L)[p]]
<1>1. DOMAIN RingOf(placement, L) = Positions(placement, L)
      /\ \A p \in Positions(placement, L) :
            RingOf(placement, L)[p] \in L /\ p \in placement[RingOf(placement, L)[p]]
  BY RingOfPositions DEF PlacementOK
<1>2. Positions(placement, M) = Positions(placement, L) \cup placement[n]
  BY DEF Positions
<1>3. M \in SUBSET Node /\ Positions(placement, M) \in SUBSET Hash
  <2>1. M \in SUBSET Node
    OBVIOUS
  <2> HIDE DEF M
  <2> QED
    BY <2>1, PositionsSortable
<1>4. after \in [Positions(placement, M) -> Node] /\ EntriesOK(after)
  <2> HIDE DEF M
  <2> QED
    BY <1>1, <1>2 DEF EntriesOK
<1>5. after \in Dicts /\ DOMAIN after = Positions(placement, M)
  <2> HIDE DEF M, after
  <2> QED
    BY <1>3, <1>4 DEF Dicts
<1> HIDE DEF M, after
<1>6. after = RingOf(placement, M)
  BY <1>3, <1>4, <1>5, DictIsRing
<1> QED
  BY <1>6 DEF M, after

\* The ring without a member is the ring less the positions of that member.
LEMMA RingWithout ==
    ASSUME PlacementOK, NEW L \in SUBSET Node, NEW n \in Node
    PROVE  RingOf(placement, L \ {n}) =
              [p \in Others(RingOf(placement, L), n) |-> RingOf(placement, L)[p]]
<1> DEFINE M == L \ {n}
           after == [p \in Others(RingOf(placement, L), n) |-> RingOf(placement, L)[p]]
<1>1. DOMAIN RingOf(placement, L) = Positions(placement, L)
      /\ \A p \in Positions(placement, L) :
            RingOf(placement, L)[p] \in L /\ p \in placement[RingOf(placement, L)[p]]
  BY RingOfPositions DEF PlacementOK
<1>2. Others(RingOf(placement, L), n) = Positions(placement, M)
  BY OthersArePositions DEF PlacementOK
<1>3. M \in SUBSET Node /\ Positions(placement, M) \in SUBSET Hash
      /\ Positions(placement, M) \in SUBSET Positions(placement, L)
  <2>1. M \in SUBSET Node /\ M \in SUBSET L
    OBVIOUS
  <2> HIDE DEF M
  <2>2. Positions(placement, M) \in SUBSET Positions(placement, L)
    BY <2>1 DEF Positions
  <2> QED
    BY <2>1, <2>2, PositionsSortable
<1>4. after \in [Positions(placement, M) -> Node] /\ EntriesOK(after)
  <2> HIDE DEF M
  <2> QED
    BY <1>1, <1>2, <1>3 DEF EntriesOK
<1>5. after \in Dicts /\ DOMAIN after = Positions(placement, M)
  <2> HIDE DEF M, after
  <2> QED
    BY <1>3, <1>4 DEF Dicts
<1> HIDE DEF M, after
<1>6. after = RingOf(placement, M)
  BY <1>3, <1>4, <1>5, DictIsRing
<1> QED
  BY <1>6 DEF M, after

\* The list lists the members before the change under way.
LEMMA ListedBefore == IInv => Listed(sorted_keys) = Before
BY ListedOfSorted DEF IInv, ListOK

\* So it does after a step.
LEMMA ListedBeforeNext == IInv' => (Listed(sorted_keys) = Before)'
BY ListedBefore, PTL

\* HashRing counts as this module does.
LEMMA SameCardinality == \A S : Atomic!Cardinality(S) = Cardinality(S)
BY DEF Atomic!Cardinality, Cardinality

\* And sorts as it does.
LEMMA SameSorted == \A S : Atomic!Sorted(S) = Sorted(S)
BY DEF Sorted, Atomic!Sorted, Cardinality, Atomic!Cardinality

\* The empty list is HashRing's initial state.
LEMMA ReadersInit == Init => Atomic!Init
<1> SUFFICES ASSUME Init PROVE Atomic!Init
  OBVIOUS
<1>1. IInv
  BY IInvInit
<1>2. Listed(sorted_keys) = {}
  <2>1. Before = {}
    BY DEF Init, Before, NoChange
  <2> QED
    BY <1>1, <2>1, ListedBefore
<1>3. ListedRing(sorted_keys) = [p \in {} |-> NoNode]
  <2>1. Positions(placement, {}) = {}
    BY DEF Positions
  <2> QED
    BY <1>2, <2>1 DEF ListedRing, RingOf
<1> QED
  BY <1>2, <1>3, SameCardinality
  DEF Init, Atomic!Init, kSubset, Atomic!kSubset, Disjoint, Atomic!Disjoint

\* The end of a change is HashRing's change.
LEMMA ReadersSortKeys ==
    ASSUME IInv, IInv', SortKeys
    PROVE  Atomic!Next
<1> DEFINE n == change.node
<1>1. /\ sorted_keys' = Sorted(Positions(placement, nodes))
      /\ change'.kind = "none" /\ UNCHANGED <<placement, nodes>>
      /\ nodes \in SUBSET Node /\ n \in Node /\ change.kind \in {"add", "remove"}
  BY SortKeysListsRing
<1>2. PlacementOK /\ Before \in SUBSET Node
  BY DEF IInv, ListOK
<1>3. Listed(sorted_keys) = Before /\ Listed(sorted_keys)' = nodes
  <2>1. Listed(sorted_keys)' = Before'
    BY ListedBeforeNext
  <2>2. Before' = nodes
    BY <1>1 DEF Before
  <2> QED
    BY <2>1, <2>2, ListedBefore
<1>4. /\ ListedRing(sorted_keys) = RingOf(placement, Before)
      /\ ListedRing(sorted_keys)' = RingOf(placement, nodes)
      /\ DOMAIN RingOf(placement, nodes) = Positions(placement, nodes)
  <2>1. ListedRing(sorted_keys)' = RingOf(placement', Listed(sorted_keys)')
    BY DEF ListedRing
  <2>2. ListedRing(sorted_keys) = RingOf(placement, Before)
    BY <1>3 DEF ListedRing
  <2>3. DOMAIN RingOf(placement, nodes) = Positions(placement, nodes)
    BY DEF RingOf
  <2> QED
    BY <1>1, <1>3, <2>1, <2>2, <2>3
<1>5. sorted_keys' = Atomic!Sorted(DOMAIN ListedRing(sorted_keys)')
  BY <1>1, <1>4, SameSorted
<1>6. CASE change.kind = "add"
  <2>1. nodes = Before \cup {n}
    BY <1>6 DEF Before, IInv, TypeOK
  <2>2. RingOf(placement, nodes) =
           [p \in DOMAIN RingOf(placement, Before) \cup placement[n] |->
               IF p \in placement[n] THEN n ELSE RingOf(placement, Before)[p]]
    BY <1>1, <1>2, <2>1, RingWith
  <2>3. Atomic!AddNode(n)
    BY <1>1, <1>3, <1>4, <1>5, <2>1, <2>2 DEF Atomic!AddNode
  <2> QED
    BY <1>1, <2>3 DEF Atomic!Next
<1>7. CASE change.kind = "remove"
  <2>1. nodes = Before \ {n}
    BY <1>7 DEF Before, IInv, TypeOK
  <2>2. RingOf(placement, nodes) =
           [p \in Others(RingOf(placement, Before), n) |-> RingOf(placement, Before)[p]]
    BY <1>1, <1>2, <2>1, RingWithout
  <2>3. Atomic!RemoveNode(n)
    BY <1>1, <1>3, <1>4, <1>5, <2>1, <2>2
    DEF Atomic!RemoveNode, Atomic!Restrict, Atomic!Others, Others
  <2> QED
    BY <1>1, <2>3 DEF Atomic!Next
<1> QED
  BY <1>1, <1>6, <1>7

\* No other step changes what the readers see.
LEMMA ReadersStutter ==
    ASSUME UNCHANGED <<placement, sorted_keys>>
    PROVE  UNCHANGED Atomic!vars
BY DEF Atomic!vars, Listed, ListedRing, RingOf, Positions

\* Every step of the two threads is a change of HashRing or none, to a reader of the list.
THEOREM ReadersSeeHashRing == Spec => ImplementsHashRing
<1>1. IInv /\ IInv' /\ [Next]_vars => [Atomic!Next]_(Atomic!vars)
  <2> SUFFICES ASSUME IInv, IInv', [Next]_vars
               PROVE  [Atomic!Next]_(Atomic!vars)
    OBVIOUS
  <2>1. SortKeys \/ UNCHANGED <<placement, sorted_keys>>
    BY DEF Next, Caller, BeginAdd, BeginRemove, PutEntry, PopEntry, Background,
           CopyRing, CopyKeys, DropCopy, vars
  <2> QED
    BY <2>1, ReadersSortKeys, ReadersStutter
<1> QED
  BY <1>1, ReadersInit, IInvAlways, PTL DEF Spec, ImplementsHashRing, Atomic!Spec

=============================================================================
