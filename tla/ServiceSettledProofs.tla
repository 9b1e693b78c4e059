------------------------- MODULE ServiceSettledProofs -------------------------
(***************************************************************************)
(* The service for callers that wait: in process, with no call begun that  *)
(* writes, and no change of the membership, before the background work of  *)
(* the last one is done; gets wait for nothing.  For every number of       *)
(* nodes, keys, values and clients, every placement and any number of      *)
(* calls and changes.                                                      *)
(*                                                                         *)
(* First what one rebalance does, from the decision to the last call of    *)
(* its gather; then the stages that the service goes through between two   *)
(* moments at which nothing is under way.                                  *)
(***************************************************************************)
EXTENDS ClusterServiceProofs

-----------------------------------------------------------------------------
(***************************************************************************)
(* What a rebalance plans: if the old owners of a key, and no one else,    *)
(* answer their snapshots with its value, the planned copies and deletions *)
(* leave the value with the new owners and with no one else.               *)
(***************************************************************************)

\* The ring of the members current is that of prev after one join or one leave.
OneChange(prev, current) ==
    \E n \in Node :
        \/ n \notin prev /\ current = prev \cup {n}
        \/ n \in prev /\ current = prev \ {n}

\* Every old owner that is still a member has the value, and no other member.
Agreed(prev, current, snaps, k, v) ==
    /\ snaps \in [current -> Entries]
    /\ \A m \in current : snaps[m][k] = IF m \in Owners(prev, k) THEN v ELSE Absent

\* Each key to move is copied from one of the snapshots that the code may choose,
\* whatever the change and the nodes alive.
Chosen(prev, current, snaps, source) ==
    \E why, alive : \A k \in Affected(prev, current, snaps) :
        source[k] \in Sources(why, prev, current, snaps, alive, k)

\* The planned calls take the key with value v to its owners: every owner has it
\* or gets it, and keeps it; every other member lacks it or drops it, and is sent
\* none; and some owner has it throughout.
Delivers(prev, current, snaps, source, k, v) ==
    LET keys  == Affected(prev, current, snaps)
        moves == Moves(current, snaps, current, source, keys)
        drops == Drops(current, snaps, current, keys)
        copy(m) == [node |-> m, key |-> k, value |-> v]
        drop(m) == [node |-> m, key |-> k]
    IN  /\ \A m \in current :
              IF m \in Owners(current, k)
              THEN (snaps[m][k] = v \/ copy(m) \in moves) /\ drop(m) \notin drops
              ELSE snaps[m][k] = Absent \/ drop(m) \in drops
        /\ \A move \in moves :
              move.key = k => move.node \in Owners(current, k) /\ move.value = v
        /\ \E m \in Owners(current, k) :
              snaps[m][k] = v /\ drop(m) \notin drops
                /\ \A move \in moves : move.node = m => move.key # k

\* One of the owners that were asked has the key and owns it after the change.
LEMMA SomeHolderRemains ==
    ASSUME NEW prev \in SUBSET Node, NEW current \in SUBSET Node, prev # {}, current # {},
           OneChange(prev, current), NEW k \in Key, NEW v \in Value, NEW snaps,
           Agreed(prev, current, snaps, k, v)
    PROVE  \E m \in Owners(current, k) : m \in current /\ m \in Owners(prev, k) /\ snaps[m][k] = v
<1>1. Owners(prev, k) \cap Owners(current, k) # {}
  <2>1. PICK n \in Node : \/ n \notin prev /\ current = prev \cup {n}
                          \/ n \in prev /\ current = prev \ {n}
    BY DEF OneChange
  <2> QED
    BY <2>1, ServicePlaced, SomeOwnerRemains DEF Owners
<1>2. Owners(current, k) \subseteq current
  BY ServicePlaced, OwnersAreMembers DEF Owners
<1> QED
  BY <1>1, <1>2 DEF Agreed

\* Rebalancing one key after one change of the membership, from snapshots that
\* show the old owners in agreement, delivers the key to its new owners, and some
\* owner keeps it, so that it is never without a copy (_rebalance_after_add,
\* _rebalance_after_remove).
THEOREM PlanMovesKeyToItsOwners ==
    ASSUME NEW prev \in SUBSET Node, NEW current \in SUBSET Node, prev # {}, current # {},
           OneChange(prev, current), NEW k \in Key, NEW v \in Value, NEW snaps,
           Agreed(prev, current, snaps, k, v),
           NEW source, Chosen(prev, current, snaps, source)
    PROVE  Delivers(prev, current, snaps, source, k, v)
<1> DEFINE keys  == Affected(prev, current, snaps)
           moves == Moves(current, snaps, current, source, keys)
           drops == Drops(current, snaps, current, keys)
           copy(m) == [node |-> m, key |-> k, value |-> v]
           drop(m) == [node |-> m, key |-> k]
<1>1. v # Absent /\ DOMAIN snaps = current
  BY AbsentAssumption DEF Agreed
<1>2. PICK kept \in Owners(current, k) :
         kept \in current /\ kept \in Owners(prev, k) /\ snaps[kept][k] = v
  BY SomeHolderRemains
<1>3. Holders(snaps, k) = Owners(prev, k) \cap current
  BY <1>1 DEF Holders, Agreed
<1>4. k \in keys <=> Owners(prev, k) # Owners(current, k)
  <2>1. Primary(prev, k) # NoNode /\ Primary(current, k) # NoNode
    BY ServicePlaced, NodeAtIsMember, NoNodeAssumption DEF Primary
  <2>2. Holders(snaps, k) # {}
    BY <1>2, <1>3
  <2> QED
    BY <2>1, <2>2 DEF Affected
<1>5. k \in keys => snaps[source[k]][k] = v
  <2>1. k \in keys => source[k] \in Holders(snaps, k)
    BY SourcesAreHolders DEF Chosen
  <2> QED
    BY <1>3, <2>1 DEF Agreed
<1>6. \A move \in moves : \E l \in keys : \E m \in (Owners(current, l) \cap current) \ Holders(snaps, l) :
         move = [node |-> m, key |-> l, value |-> snaps[source[l]][l]]
  BY DEF Moves
<1>7. \A d \in drops : \E l \in keys : \E m \in (Holders(snaps, l) \cap current) \ Owners(current, l) :
         d = [node |-> m, key |-> l]
  BY DEF Drops
<1>8. \A move \in moves : move.key = k =>
         move.node \in Owners(current, k) \ Holders(snaps, k) /\ move.value = v
  BY <1>5, <1>6
<1>9. \A m : drop(m) \in drops => m \notin Owners(current, k)
  BY <1>7
<1>10. ASSUME NEW m \in current, m \in Owners(current, k)
       PROVE  snaps[m][k] = v \/ copy(m) \in moves
  <2>1. CASE m \in Owners(prev, k)
    BY <2>1 DEF Agreed
  <2>2. CASE m \notin Owners(prev, k)
    <3>1. k \in keys /\ m \in (Owners(current, k) \cap current) \ Holders(snaps, k)
      BY <1>3, <1>4, <1>10, <2>2
    <3>2. [node |-> m, key |-> k, value |-> snaps[source[k]][k]] \in moves
      BY <3>1 DEF Moves
    <3> QED
      BY <1>5, <3>1, <3>2
  <2> QED
    BY <2>1, <2>2
<1>11. ASSUME NEW m \in current, m \notin Owners(current, k)
       PROVE  snaps[m][k] = Absent \/ drop(m) \in drops
  <2>1. CASE m \notin Owners(prev, k)
    BY <2>1 DEF Agreed
  <2>2. CASE m \in Owners(prev, k)
    <3>1. k \in keys /\ m \in (Holders(snaps, k) \cap current) \ Owners(current, k)
      BY <1>3, <1>4, <1>11, <2>2
    <3> QED
      BY <3>1 DEF Drops
  <2> QED
    BY <2>1, <2>2
<1>12. \E m \in Owners(current, k) :
          snaps[m][k] = v /\ drop(m) \notin drops
            /\ \A move \in moves : move.node = m => move.key # k
  <2>1. kept \in Holders(snaps, k)
    BY <1>2, <1>3
  <2> QED
    BY <1>2, <1>8, <1>9, <2>1
<1> HIDE DEF keys, moves, drops
<1>13. \A m \in current :
          IF m \in Owners(current, k)
          THEN (snaps[m][k] = v \/ copy(m) \in moves) /\ drop(m) \notin drops
          ELSE snaps[m][k] = Absent \/ drop(m) \in drops
  BY <1>9, <1>10, <1>11
<1>14. \A move \in moves :
          move.key = k => move.node \in Owners(current, k) /\ move.value = v
  BY <1>8
<1> QED
  BY <1>12, <1>13, <1>14 DEF keys, moves, drops, Delivers

-----------------------------------------------------------------------------
(***************************************************************************)
(* One rebalance, alone on the background loop                             *)
(***************************************************************************)

Has(n, k)   == store[n][k] \in expected[k]
Lacks(n, k) == store[n][k] = Absent

\* Every answer left one value a key may have.
Certain == \A k \in Key : \E v \in Value \cup {Absent} : expected[k] = {v}

\* Among the members, the owners of the key in the ring of M have it and no one else.
Held(M, k) == \A n \in nodes : IF n \in Owners(M, k) THEN Has(n, k) ELSE Lacks(n, k)

\* The change that the job was submitted for is the last one.
ChangeOf(job) ==
    \/ job.kind = "add" /\ \E n \in Node \ job.prev : nodes = job.prev \cup {n}
    \/ job.kind = "remove" /\ \E n \in job.prev : nodes = job.prev \ {n}

\* Up to the decision nothing has moved, the copy of the ring is the ring, and the
\* snapshots are the stores.
Deciding(job) ==
    /\ job.step \in {"submitted", "dict", "list", "snapshots"}
    /\ job.prev # {}
    /\ ChangeOf(job)
    /\ \A k \in Key : Held(job.prev, k)
    /\ job.step # "submitted" => job.dict = nodes
    /\ job.step \in {"list", "snapshots"} => job.current = nodes
    /\ job.step # "snapshots" => DOMAIN job.snaps = {}
    /\ job.step = "snapshots" =>
          /\ job.todo \subseteq nodes
          /\ DOMAIN job.snaps = nodes \ job.todo
          /\ \A n \in DOMAIN job.snaps : job.snaps[n] = store[n]

ThreeMembers == \E x, y, z \in nodes : x # y /\ y # z /\ x # z

TwoHave(k) == \E x, y \in nodes : x # y /\ Has(x, k) /\ Has(y, k)

\* What an owner lacks is being copied to it, what another node has is being dropped.
InTransit(job, k) ==
    \A n \in nodes :
        IF n \in Owners(nodes, k)
        THEN Has(n, k) \/ (Lacks(n, k) /\ \E m \in job.moves : m.node = n /\ m.key = k)
        ELSE Lacks(n, k) \/ (Has(n, k) /\ \E d \in job.drops : d.node = n /\ d.key = k)

\* The calls of the gather only bring the key to its owners, one of which has it
\* all along; after a join two nodes do.
Gathering(job) ==
    /\ job.step = "gather"
    /\ \A m \in job.moves : m.node \in Owners(nodes, m.key) /\ m.value \in expected[m.key]
    /\ \A d \in job.drops : d.node \notin Owners(nodes, d.key)
    /\ \A k \in Key :
          /\ InTransit(job, k)
          /\ \E n \in Owners(nodes, k) : Has(n, k)
          /\ job.kind = "add" /\ ThreeMembers => TwoHave(k)

Moving(job) == job \in RebalanceJob /\ (Deciding(job) \/ Gathering(job))

-----------------------------------------------------------------------------
(***************************************************************************)
(* The stages of the service                                               *)
(***************************************************************************)

\* The discipline of the callers, and what happens to the nodes meanwhile: none
\* expires, evicts or forgets.
Waiting ==
    /\ ~Http
    /\ Punctual
    /\ Awaited = "all"
    /\ Temporary = {}
    /\ Budget["evict"] = 0

\* All processes run, all members are alive.
AllWell == up = Node /\ budget["evict"] = 0 /\ Alive = nodes

Writing(c) == ~Replied(c) /\ op[c].kind # "get"

\* At most one call is under way, and it goes where the ring says.
OneCall ==
    /\ \A b, c \in Client : Replied(b) \/ Replied(c) \/ b = c
    /\ \A c \in Client : ~Replied(c) =>
          /\ op[c].target = Primary(nodes, op[c].key)
          /\ op[c].replica = Replica(nodes, op[c].key)
          /\ op[c].kind = "delete" => op[c].value = Absent

\* The primary of the key has the new value, or no entry after a delete; the replica,
\* if there is one, may have the old one.
HalfWritten(k, v) ==
    /\ \A l \in Key \ {k} : Held(nodes, l)
    /\ store[Primary(nodes, k)][k] = v
    /\ \A n \in nodes \ Owners(nodes, k) : Lacks(n, k)

\* The background loop has nothing to do, and no write has got anywhere.
AtRest ==
    /\ work = <<>>
    /\ \A k \in Key : Held(nodes, k)
    /\ \A c \in Client : Writing(c) => op[c].step = "target"

\* A put or delete has reached the primary, not the replica.
MidCall ==
    /\ work = <<>>
    /\ \E c \in Client : /\ Writing(c)
                         /\ op[c].step \in {"applied", "replica"}
                         /\ HalfWritten(op[c].key, op[c].value)

\* A put is acknowledged, its replica write is still to be made.
Replicating ==
    /\ \A c \in Client : ~Writing(c)
    /\ \E k \in Key, v \in Value : /\ work = <<Replication(Replica(nodes, k), k, v)>>
                                   /\ Replica(nodes, k) \in nodes
                                   /\ expected[k] = {v}
                                   /\ HalfWritten(k, v)

\* A rebalance is all that the background loop has to do.
Reorganising ==
    /\ \A c \in Client : ~Writing(c)
    /\ \E job \in {work[i] : i \in DOMAIN work} : work = <<job>> /\ Moving(job)

\* A get that found nothing at the primary finds the key at the replica.
ReplicaHas ==
    \A c \in Client : At(c, "get", "replica") =>
        op[c].replica \in nodes /\ Has(op[c].replica, op[c].key)

Orderly ==
    /\ Certain
    /\ OneCall
    /\ ReplicaHas
    /\ AtRest \/ MidCall \/ Replicating \/ Reorganising

\* A node is leaving: it is out of the dict and not out of the list.
MidLeave ==
    /\ Certain
    /\ work = <<>>
    /\ \A c \in Client : Replied(c)
    /\ \E n \in listed : nodes = listed \ {n}
    /\ \A k \in Key : Held(listed, k)

SettledInv ==
    /\ AllWell
    /\ IF Leaving THEN MidLeave ELSE Orderly

-----------------------------------------------------------------------------
(***************************************************************************)
(* The ring of a cluster with members                                      *)
(***************************************************************************)

\* A key's primary is a member; its replica is another one, if there is one.
LEMMA Routes ==
    ASSUME NEW M \in SUBSET Node, M # {}, NEW k \in Key
    PROVE  /\ Primary(M, k) \in M
           /\ Replica(M, k) \in (M \ {Primary(M, k)}) \cup {NoNode}
           /\ Replica(M, k) = NoNode <=> M = {Primary(M, k)}
           /\ Owners(M, k) = {Primary(M, k), Replica(M, k)} \ {NoNode}
           /\ Primary(M, k) \in Owners(M, k)
           /\ Owners(M, k) \subseteq M
<1> DEFINE first  == NodeAt(RingOf(Placement, M), KeyHash[k])
           second == NodeAt(RingOf(Placement, M \ {first}), KeyHash[k])
<1>1. /\ first \in M
      /\ second \in (M \ {first}) \cup {NoNode}
      /\ second = NoNode <=> M = {first}
  BY ServicePlaced, OwnersAsNodes
<1>2. ReplicaAt(RingOf(Placement, M), KeyHash[k]) = second
  BY <1>1, ServicePlaced, SuccessorIsNodeWithout DEF ReplicaAt
<1>3. Primary(M, k) = first /\ Replica(M, k) = second
  BY <1>2 DEF Primary, Replica
<1>4. Owners(M, k) = {Primary(M, k), Replica(M, k)} \ {NoNode}
  BY DEF Owners, OwnersAt, Primary, Replica
<1> HIDE DEF first, second
<1> QED
  BY <1>1, <1>3, <1>4, NoNodeAssumption

\* With two members a key has two owners.
LEMMA TwoOwners ==
    ASSUME NEW M \in SUBSET Node, M # {}, \A p : M # {p}, NEW k \in Key
    PROVE  \E x, y \in Owners(M, k) : x # y
<1>1. M # {Primary(M, k)}
  OBVIOUS
<1>2. /\ Replica(M, k) \in (M \ {Primary(M, k)}) \cup {NoNode}
      /\ Replica(M, k) # NoNode
      /\ Owners(M, k) = {Primary(M, k), Replica(M, k)} \ {NoNode}
      /\ Primary(M, k) \in Owners(M, k)
  BY <1>1, Routes
<1> QED
  BY <1>2

\* The change of a job, as PlanMovesKeyToItsOwners needs it.
LEMMA ChangeIsOne ==
    ASSUME TypeOK, NEW job \in RebalanceJob, ChangeOf(job)
    PROVE  OneChange(job.prev, nodes) /\ job.prev \in SUBSET Node /\ nodes \in SUBSET Node
<1>1. job.prev \in SUBSET Node /\ nodes \in SUBSET Node
  BY DEF TypeOK, RebalanceJob
<1> QED
  BY <1>1 DEF ChangeOf, OneChange

\* Before the decision some owner in the new ring has the key.
LEMMA DecidingHas ==
    ASSUME TypeOK, Certain, nodes # {}, NEW job \in RebalanceJob, Deciding(job), NEW k \in Key
    PROVE  /\ \E n \in Owners(nodes, k) : Has(n, k)
           /\ \A n \in nodes : Has(n, k) \/ Lacks(n, k)
<1>1. PICK v \in Value \cup {Absent} : expected[k] = {v}
  BY DEF Certain
<1>2. OneChange(job.prev, nodes) /\ job.prev \in SUBSET Node /\ nodes \in SUBSET Node
  BY ChangeIsOne DEF Deciding
<1>3. Held(job.prev, k) /\ job.prev # {}
  BY DEF Deciding
<1>4. \A n \in nodes : Has(n, k) \/ Lacks(n, k)
  BY <1>3 DEF Held
<1>5. CASE v = Absent
  <2>1. Primary(nodes, k) \in Owners(nodes, k) /\ Primary(nodes, k) \in nodes
    BY <1>2, Routes
  <2> QED
    BY <1>1, <1>4, <1>5, <2>1 DEF Has, Lacks
<1>6. CASE v \in Value
  <2> DEFINE snaps == [n \in nodes |-> store[n]]
  <2>1. snaps \in [nodes -> Entries]
    BY DEF TypeOK
  <2>2. Agreed(job.prev, nodes, snaps, k, v)
    BY <1>1, <1>3, <2>1 DEF Agreed, Held, Has, Lacks
  <2>3. \E m \in Owners(nodes, k) : m \in nodes /\ snaps[m][k] = v
    BY <1>2, <1>3, <1>6, <2>2, SomeHolderRemains
  <2> QED
    BY <1>1, <1>4, <2>3 DEF Has
<1> QED
  BY <1>1, <1>4, <1>5, <1>6

\* Before the decision after a join to two members or more, two have the key.
LEMMA DecidingTwoHave ==
    ASSUME TypeOK, NEW job \in RebalanceJob, Deciding(job), NEW k \in Key,
           job.kind = "add", ThreeMembers
    PROVE  TwoHave(k)
<1>1. job.prev \in SUBSET Node /\ job.prev # {}
  BY DEF RebalanceJob, Deciding
<1>2. PICK n \in Node \ job.prev : nodes = job.prev \cup {n}
  BY DEF Deciding, ChangeOf
<1>3. \A p : job.prev # {p}
  BY <1>2 DEF ThreeMembers
<1>4. \E x, y \in Owners(job.prev, k) : x # y
  BY <1>1, <1>3, TwoOwners
<1>5. Owners(job.prev, k) \subseteq nodes
  BY <1>1, <1>2, Routes
<1>6. \A m \in Owners(job.prev, k) : m \in nodes /\ Has(m, k)
  BY <1>5 DEF Deciding, Held
<1> QED
  BY <1>4, <1>6 DEF TwoHave

\* A gather with no call left has brought every key to its owners.
LEMMA GatheredIsHeld ==
    ASSUME NEW job, Gathering(job), job.moves = {}, job.drops = {}
    PROVE  \A k \in Key : Held(nodes, k)
BY DEF Gathering, InTransit, Held

\* What the service reads of a moving job: no member has an old value, and one
\* owner has the key.
LEMMA MovingHas ==
    ASSUME TypeOK, Certain, nodes # {}, NEW job, Moving(job), NEW k \in Key
    PROVE  /\ \E n \in Owners(nodes, k) : Has(n, k)
           /\ \A n \in nodes : Has(n, k) \/ Lacks(n, k)
BY DecidingHas DEF Moving, Gathering, InTransit

-----------------------------------------------------------------------------
(***************************************************************************)
(* The steps of a rebalance that is alone                                  *)
(***************************************************************************)

\* The sequence with one coroutine.
LEMMA Alone ==
    ASSUME NEW job, work = <<job>>
    PROVE  /\ DOMAIN work = {1} /\ Len(work) = 1 /\ work[1] = job
           /\ RemoveAt(work, 1) = <<>>
           /\ \A next : [work EXCEPT ![1] = next] = <<next>>
<1>1. DOMAIN work = {1} /\ Len(work) = 1 /\ work[1] = job
  OBVIOUS
<1>2. SubSeq(<<job>>, 1, 0) = <<>> /\ SubSeq(<<job>>, 2, 1) = <<>>
  OBVIOUS
<1>3. RemoveAt(work, 1) = <<>>
  BY <1>1, <1>2 DEF RemoveAt
<1> QED
  BY <1>1, <1>3

\* It goes on, or ends.
LEMMA UpdateAlone ==
    ASSUME NEW job, work = <<job>>, NEW next, Update(1, next)
    PROVE  \/ next.moves = {} /\ next.drops = {} /\ work' = <<>>
           \/ work' = <<next>>
BY Alone DEF Update

\* What a step of the rebalance leaves: the loop with nothing to do and every key with
\* its owners, or the job a step further; no owner loses a key.
Advanced ==
    /\ \/ work' = <<>> /\ \A k \in Key : Held(nodes, k)'
       \/ \E next \in RebalanceJob : work' = <<next>> /\ Moving(next)'
    /\ \A k \in Key : \A n \in Owners(nodes, k) : Has(n, k) => Has(n, k)'

\* A step that stores nothing.
LEMMA AdvancedQuietly ==
    ASSUME UNCHANGED <<nodes, store, expected>>,
           \/ work' = <<>> /\ \A k \in Key : Held(nodes, k)
           \/ \E next \in RebalanceJob : work' = <<next>> /\ Moving(next)
    PROVE  Advanced
<1>1. \A k, n : Has(n, k) => Has(n, k)'
  BY DEF Has
<1>2. ASSUME NEW next, Moving(next) PROVE Moving(next)'
  BY <1>2 DEF Moving, Deciding, Gathering, ChangeOf, Held, InTransit, ThreeMembers, TwoHave,
     Has, Lacks
<1>3. ASSUME NEW k \in Key, Held(nodes, k) PROVE Held(nodes, k)'
  BY <1>3 DEF Held, Has, Lacks
<1> QED
  BY <1>1, <1>2, <1>3 DEF Advanced

\* The coroutine starts: it copies the dict and the list, and lists the nodes.
LEMMA StartAdvances ==
    ASSUME TypeOK, ~Leaving, NEW job, work = <<job>>, Moving(job),
           RebCopyDict(1) \/ RebCopyList(1) \/ RebListNodes(1)
    PROVE  Advanced
<1>1. UNCHANGED <<nodes, store, expected>> /\ listed = nodes /\ nodes \in SUBSET Node
  BY DEF RebCopyDict, RebCopyList, RebListNodes, membership, ghosts, Leaving, TypeOK
<1>2. job.step # "gather" => job \in RebalanceJob /\ Deciding(job)
  BY DEF Moving, Gathering
<1>3. PICK next :
         /\ work' = <<next>>
         /\ \/ job.step = "submitted" /\ next = [job EXCEPT !.step = "dict", !.dict = nodes]
            \/ job.step = "dict" /\ next = [job EXCEPT !.step = "list", !.current = nodes]
            \/ job.step = "list" /\ next = [job EXCEPT !.step = "snapshots", !.todo = nodes]
  BY <1>1, Alone DEF RebCopyDict, RebCopyList, RebListNodes, AtStep
<1>4. job \in RebalanceJob /\ Deciding(job)
  BY <1>2, <1>3
<1>5. next \in RebalanceJob
  BY <1>1, <1>3, <1>4 DEF RebalanceJob
<1>6. Deciding(next)
  BY <1>3, <1>4 DEF Deciding, ChangeOf, RebalanceJob
<1> QED
  BY <1>1, <1>3, <1>5, <1>6, AdvancedQuietly DEF Moving

\* A node is asked for its entries.
LEMMA SnapshotAdvances ==
    ASSUME TypeOK, NEW job, work = <<job>>, Moving(job), NEW n \in Node, RebSnapshot(1, n)
    PROVE  Advanced
<1> DEFINE snaps == Answered(job.snaps, n, store[n])
           next  == [job EXCEPT !.todo = job.todo \ {n}, !.snaps = snaps]
<1>1. job.step = "snapshots" /\ n \in job.todo /\ UNCHANGED <<nodes, store, expected>>
  BY Alone DEF RebSnapshot, AtStep, membership, ghosts
<1>2. work' = <<next>>
  BY Alone DEF RebSnapshot
<1>3. job \in RebalanceJob /\ Deciding(job)
  BY <1>1 DEF Moving, Gathering
<1>4. /\ job.todo \subseteq nodes
      /\ DOMAIN job.snaps = nodes \ job.todo
      /\ \A m \in DOMAIN job.snaps : job.snaps[m] = store[m]
  BY <1>1, <1>3 DEF Deciding
<1>5. snaps \in Snapshots
  BY <1>3, AnsweredType DEF RebalanceJob, TypeOK
<1>6. DOMAIN snaps = nodes \ (job.todo \ {n}) /\ \A m \in DOMAIN snaps : snaps[m] = store[m]
  BY <1>1, <1>4 DEF Answered
<1> HIDE DEF snaps
<1>7. next \in RebalanceJob
  BY <1>3, <1>5 DEF RebalanceJob
<1>8. Deciding(next)
  BY <1>1, <1>3, <1>4, <1>6 DEF Deciding, ChangeOf, RebalanceJob
<1> QED
  BY <1>1, <1>2, <1>7, <1>8, AdvancedQuietly DEF Moving, snaps

\* What is planned from snapshots that are the stores, for a key that has a value.
LEMMA PlannedForValue ==
    ASSUME TypeOK, NEW job \in RebalanceJob, Deciding(job), job.current = nodes, nodes # {},
           DOMAIN job.snaps = nodes, \A n \in nodes : job.snaps[n] = store[n],
           NEW k \in Key, NEW v \in Value, expected[k] = {v}, NEW source,
           \A l \in Affected(job.prev, nodes, job.snaps) :
              source[l] \in Sources(job.kind, job.prev, nodes, job.snaps, Alive, l)
    PROVE  LET keys  == Affected(job.prev, nodes, job.snaps)
               moves == Moves(nodes, job.snaps, nodes, source, keys)
               drops == Drops(nodes, job.snaps, nodes, keys)
           IN  /\ \A m \in moves : m.key = k => m.node \in Owners(nodes, k) /\ m.value = v
               /\ \A n \in nodes :
                     IF n \in Owners(nodes, k)
                     THEN Has(n, k) \/ (Lacks(n, k) /\ \E m \in moves : m.node = n /\ m.key = k)
                     ELSE Lacks(n, k) \/ (Has(n, k) /\ \E d \in drops : d.node = n /\ d.key = k)
<1> DEFINE keys  == Affected(job.prev, nodes, job.snaps)
           moves == Moves(nodes, job.snaps, nodes, source, keys)
           drops == Drops(nodes, job.snaps, nodes, keys)
           copy(m) == [node |-> m, key |-> k, value |-> v]
           drop(m) == [node |-> m, key |-> k]
<1>1. /\ OneChange(job.prev, nodes) /\ job.prev \in SUBSET Node /\ nodes \in SUBSET Node
      /\ job.prev # {} /\ Held(job.prev, k)
  BY ChangeIsOne DEF Deciding
<1>2. Agreed(job.prev, nodes, job.snaps, k, v)
  <2>1. job.snaps \in [nodes -> Entries]
    BY DEF RebalanceJob, Snapshots
  <2> QED
    BY <1>1, <2>1 DEF Agreed, Held, Has, Lacks
<1>3. /\ \A m \in nodes :
            IF m \in Owners(nodes, k)
            THEN (job.snaps[m][k] = v \/ copy(m) \in moves) /\ drop(m) \notin drops
            ELSE job.snaps[m][k] = Absent \/ drop(m) \in drops
      /\ \A move \in moves : move.key = k => move.node \in Owners(nodes, k) /\ move.value = v
  <2>1. Chosen(job.prev, nodes, job.snaps, source)
    BY DEF Chosen
  <2>2. Delivers(job.prev, nodes, job.snaps, source, k, v)
    BY <1>1, <1>2, <2>1, PlanMovesKeyToItsOwners
  <2> QED
    BY <2>2 DEF Delivers
<1> HIDE DEF keys, moves, drops
<1>4. \A n \in nodes : Has(n, k) \/ Lacks(n, k)
  BY <1>1 DEF Held
<1>5. ASSUME NEW n \in nodes
      PROVE  IF n \in Owners(nodes, k)
             THEN Has(n, k) \/ (Lacks(n, k) /\ \E m \in moves : m.node = n /\ m.key = k)
             ELSE Lacks(n, k) \/ (Has(n, k) /\ \E d \in drops : d.node = n /\ d.key = k)
  <2>1. copy(n).node = n /\ copy(n).key = k /\ drop(n).node = n /\ drop(n).key = k
    OBVIOUS
  <2> HIDE DEF copy, drop
  <2>2. job.snaps[n][k] = v => Has(n, k)
    BY DEF Has
  <2>3. job.snaps[n][k] = Absent => Lacks(n, k)
    BY DEF Lacks
  <2> QED
    BY <1>3, <1>4, <2>1, <2>2, <2>3
<1> QED
  BY <1>3, <1>5 DEF keys, moves, drops

\* The planned job: its calls bring every key to its owners.
LEMMA PlannedGathers ==
    ASSUME TypeOK, Certain, nodes # {}, NEW job \in RebalanceJob, Deciding(job),
           job.current = nodes,
           DOMAIN job.snaps = nodes, \A n \in nodes : job.snaps[n] = store[n], NEW source,
           \A l \in Affected(job.prev, nodes, job.snaps) :
              source[l] \in Sources(job.kind, job.prev, nodes, job.snaps, Alive, l),
           NEW planned \in RebalanceJob, planned.kind = job.kind, planned.step = "gather",
           planned.moves = Moves(nodes, job.snaps, nodes, source,
                                 Affected(job.prev, nodes, job.snaps)),
           planned.drops = Drops(nodes, job.snaps, nodes, Affected(job.prev, nodes, job.snaps))
    PROVE  Gathering(planned)
<1>1. ASSUME NEW k \in Key
      PROVE  /\ \A m \in planned.moves :
                   m.key = k => m.node \in Owners(nodes, k) /\ m.value \in expected[k]
             /\ InTransit(planned, k)
  <2>1. PICK v \in Value \cup {Absent} : expected[k] = {v}
    BY DEF Certain
  <2>2. CASE v \in Value
    BY <2>1, <2>2, PlannedForValue DEF InTransit
  <2>3. CASE v = Absent
    <3>1. \A n \in nodes : Has(n, k) <=> Lacks(n, k)
      BY <2>1, <2>3 DEF Has, Lacks
    <3>2. \A n \in nodes : Has(n, k) /\ Lacks(n, k)
      BY <3>1, DecidingHas
    <3>3. Holders(job.snaps, k) = {}
      BY <3>2 DEF Holders, Lacks
    <3>4. k \notin Affected(job.prev, nodes, job.snaps)
      BY <3>3 DEF Affected
    <3>5. \A m \in planned.moves : m.key # k
      BY <3>4 DEF Moves
    <3> QED
      BY <3>2, <3>5 DEF InTransit
  <2> QED
    BY <2>2, <2>3
<1>2. \A m \in planned.moves : m.key \in Key
  BY DEF RebalanceJob
<1>3. \A d \in planned.drops : d.node \notin Owners(nodes, d.key)
  BY DEF Drops
<1>4. \A k \in Key : \E n \in Owners(nodes, k) : Has(n, k)
  BY DecidingHas
<1>5. planned.kind = "add" /\ ThreeMembers => \A k \in Key : TwoHave(k)
  BY DecidingTwoHave
<1> QED
  BY <1>1, <1>2, <1>3, <1>4, <1>5 DEF Gathering

\* A copy that is the ring raises for no key, and every key to move can be looked up.
LEMMA NothingRaises ==
    ASSUME TypeOK, nodes # {}, NEW job, job.dict = nodes, job.current = nodes
    PROVE  RaisingOf(job) = {} /\ MovableOf(job) = Affected(job.prev, nodes, job.snaps)
<1>1. \A k : ~Raises(nodes, nodes, k)
  BY DEF Raises
<1> QED
  BY <1>1 DEF RaisingOf, MovableOf, Raising, Movable

\* The decision.  No entry has lapsed since the snapshots, and with one coroutine
\* on the loop there is none that the calls could queue up behind.
LEMMA PlanAdvances ==
    ASSUME ~Http, TypeOK, Certain, nodes # {}, NEW job, work = <<job>>, Moving(job), RebPlan(1)
    PROVE  Advanced
<1>1. work[1] = job /\ Len(work) = 1
  BY Alone
<1>2. /\ job.step = "snapshots" /\ job.todo = {} /\ UNCHANGED <<nodes, store, expected>>
      /\ CreateCalls(1, {MovableOf(job)}, "gather")
  BY <1>1 DEF RebPlan, AtStep, membership, ghosts
<1>3. job \in RebalanceJob /\ Deciding(job) /\ IsRebalance(job)
  BY <1>1, <1>2 DEF Moving, Gathering, RebPlan, AtStep
<1>4. /\ job.current = nodes /\ DOMAIN job.snaps = nodes
      /\ \A n \in nodes : job.snaps[n] = store[n]
      /\ MovableOf(job) = Affected(job.prev, nodes, job.snaps)
  BY <1>2, <1>3, NothingRaises DEF Deciding
<1> DEFINE keys == Affected(job.prev, nodes, job.snaps)
           planned(source, copied) ==
               [Rebalancing(job.kind, {}) EXCEPT
                   !.step  = "gather",
                   !.moves = Moves(job.current, job.snaps, nodes, source, copied),
                   !.drops = Drops(job.current, job.snaps, nodes, copied)]
<1>5. PICK source, lapsed :
         /\ \A k \in keys : source[k] \in nodes
         /\ lapsed \in SUBSET keys
         /\ \A k \in lapsed : Lapsed(source, job.snaps, k)
         /\ \A k \in keys : source[k] \in
               Sources(job.kind, job.prev, nodes, job.snaps, Alive, k)
         /\ \/ Update(1, planned(source, keys \ lapsed))
            \/ \E p \in 2 .. Len(work) :
                  work' = InsertAt(Tail(work), p, planned(source, keys \ lapsed))
  <2> DEFINE calls(source, copied) ==
               [Rebalancing(work[1].kind, {}) EXCEPT
                   !.step  = "gather",
                   !.moves = Moves(work[1].current, work[1].snaps, nodes, source, copied),
                   !.drops = Drops(work[1].current, work[1].snaps, nodes, copied)]
  <2>1. \E chosen \in {MovableOf(job)} : \E source \in [chosen -> DOMAIN work[1].snaps] :
           \E lapsed \in SUBSET chosen :
              /\ \A k \in chosen : source[k] \in
                    Sources(work[1].kind, work[1].prev, work[1].current, work[1].snaps, Alive, k)
              /\ \A k \in lapsed : Lapsed(source, work[1].snaps, k)
              /\ \/ Update(1, calls(source, chosen \ lapsed))
                 \/ /\ ~Http
                    /\ \/ calls(source, chosen \ lapsed).moves # {}
                       \/ calls(source, chosen \ lapsed).drops # {}
                    /\ \E p \in 2 .. Len(work) :
                          work' = InsertAt(Tail(work), p, calls(source, chosen \ lapsed))
    BY <1>2, Zenon DEF CreateCalls
  <2>2. \A source, copied : calls(source, copied) = planned(source, copied)
    BY <1>1
  <2> HIDE DEF planned, calls
  <2>3. PICK chosen \in {MovableOf(job)} : \E source \in [chosen -> DOMAIN job.snaps] :
           \E lapsed \in SUBSET chosen :
              /\ \A k \in chosen : source[k] \in
                    Sources(job.kind, job.prev, job.current, job.snaps, Alive, k)
              /\ \A k \in lapsed : Lapsed(source, job.snaps, k)
              /\ \/ Update(1, planned(source, chosen \ lapsed))
                 \/ \E p \in 2 .. Len(work) :
                       work' = InsertAt(Tail(work), p, planned(source, chosen \ lapsed))
    BY <1>1, <2>1, <2>2
  <2>4. PICK source \in [chosen -> DOMAIN job.snaps], lapsed \in SUBSET chosen :
              /\ \A k \in chosen : source[k] \in
                    Sources(job.kind, job.prev, job.current, job.snaps, Alive, k)
              /\ \A k \in lapsed : Lapsed(source, job.snaps, k)
              /\ \/ Update(1, planned(source, chosen \ lapsed))
                 \/ \E p \in 2 .. Len(work) :
                       work' = InsertAt(Tail(work), p, planned(source, chosen \ lapsed))
    BY <2>3
  <2>5. chosen = keys
    BY <1>4
  <2> HIDE DEF keys
  <2>6. \A k \in keys : source[k] \in nodes
    BY <1>4, <2>4, <2>5
  <2> QED
    BY <1>4, <2>4, <2>5, <2>6
<1>6. lapsed = {}
  <2>1. \A k \in keys : source[k] \in nodes
    BY <1>5
  <2>2. \A k \in keys : ~Lapsed(source, job.snaps, k)
    BY <1>4, <2>1 DEF Lapsed
  <2> QED
    BY <1>5, <2>2
<1>7. Update(1, planned(source, keys))
  <2>1. ~\E p \in 2 .. Len(work) : TRUE
    BY <1>1
  <2>2. keys \ lapsed = keys
    BY <1>6
  <2> QED
    BY <1>5, <2>1, <2>2
<1>8. planned(source, keys) \in RebalanceJob
  <2>1. \A k \in keys : source[k] \in Holders(job.snaps, k)
    BY <1>5, SourcesAreHolders
  <2>2. keys \in SUBSET Key /\ nodes \in SUBSET Node
    BY DEF Affected, TypeOK
  <2>3. /\ Moves(nodes, job.snaps, nodes, source, keys)
              \in SUBSET [node : Node, key : Key, value : Value]
        /\ Drops(nodes, job.snaps, nodes, keys) \in SUBSET [node : Node, key : Key]
    BY <1>3, <1>4, <2>1, <2>2, PlannedCalls
  <2>4. Rebalancing(job.kind, {}) \in RebalanceJob
    BY <1>3, JobTypes DEF IsRebalance
  <2> HIDE DEF keys
  <2> QED
    BY <1>4, <2>3, <2>4 DEF RebalanceJob
<1>9. PICK next : next = planned(source, keys)
  OBVIOUS
<1>10. /\ next.kind = job.kind /\ next.step = "gather"
       /\ next.moves = Moves(nodes, job.snaps, nodes, source, keys)
       /\ next.drops = Drops(nodes, job.snaps, nodes, keys)
  BY <1>4, <1>9 DEF Rebalancing
<1>11. next \in RebalanceJob /\ Update(1, next)
  BY <1>7, <1>8, <1>9
<1>12. Gathering(next)
  BY <1>3, <1>4, <1>5, <1>10, <1>11, PlannedGathers
<1> HIDE DEF planned, keys
<1>13. \/ work' = <<>> /\ \A k \in Key : Held(nodes, k)
       \/ work' = <<next>> /\ Moving(next)
  BY <1>11, <1>12, UpdateAlone, GatheredIsHeld DEF Moving
<1> QED
  BY <1>2, <1>11, <1>13, AdvancedQuietly

\* After a call of the gather.
LEMMA GatherAdvances ==
    ASSUME NEW job, work = <<job>>, NEW next \in RebalanceJob, Update(1, next),
           UNCHANGED <<nodes, expected>>, Gathering(next)',
           \A k \in Key : \A n \in Owners(nodes, k) : Has(n, k) => Has(n, k)'
    PROVE  Advanced
<1>1. next.moves = {} /\ next.drops = {} => \A k \in Key : Held(nodes, k)'
  BY DEF Gathering, InTransit, Held
<1> QED
  BY <1>1, UpdateAlone DEF Advanced, Moving

\* A copy.
LEMMA PutAdvances ==
    ASSUME TypeOK, nodes # {}, NEW job, work = <<job>>, Moving(job),
           NEW m \in job.moves, RebPut(1, m)
    PROVE  Advanced
<1> DEFINE next == [job EXCEPT !.moves = @ \ {m}]
<1>1. /\ job.step = "gather" /\ UNCHANGED <<nodes, expected>>
      /\ store' = Stored(m.node, m.key, m.value) /\ Update(1, next)
  BY Alone DEF RebPut, HasCalls, AtStep, Moving, Deciding, Gathering, membership, ghosts
<1>2. job \in RebalanceJob /\ Gathering(job)
  BY <1>1 DEF Moving, Deciding
<1>3. next \in RebalanceJob
  BY <1>2 DEF RebalanceJob
<1>4. m.node \in Node /\ m.key \in Key /\ m.node \in Owners(nodes, m.key)
      /\ m.value \in expected[m.key] /\ nodes \in SUBSET Node
  BY <1>2 DEF RebalanceJob, Gathering, TypeOK
<1>5. \A n \in nodes, k \in Key :
         IF n = m.node /\ k = m.key THEN Has(n, k)'
         ELSE (Has(n, k)' <=> Has(n, k)) /\ (Lacks(n, k)' <=> Lacks(n, k))
  BY <1>1, <1>4 DEF TypeOK, Entries, Stored, Has, Lacks
<1>6. /\ next.step = "gather" /\ next.kind = job.kind
      /\ next.moves = job.moves \ {m} /\ next.drops = job.drops
  BY <1>1, <1>2 DEF RebalanceJob
<1>7. \A k \in Key : Owners(nodes, k) \subseteq nodes
  BY <1>4, Routes
<1> HIDE DEF next
<1>8. \A n \in nodes, k \in Key : Has(n, k) => Has(n, k)'
  BY <1>5
<1>9. ASSUME NEW k \in Key
      PROVE  /\ InTransit(next, k)'
             /\ \E n \in Owners(nodes, k) : Has(n, k)'
             /\ next.kind = "add" /\ ThreeMembers => TwoHave(k)'
  <2>1. InTransit(job, k) /\ (\E n \in Owners(nodes, k) : Has(n, k))
        /\ (job.kind = "add" /\ ThreeMembers => TwoHave(k))
    BY <1>2 DEF Gathering
  <2>2. InTransit(next, k)'
    BY <1>1, <1>4, <1>5, <1>6, <2>1 DEF InTransit
  <2>3. \E n \in Owners(nodes, k) : Has(n, k)'
    BY <1>7, <1>8, <2>1
  <2>4. TwoHave(k) => TwoHave(k)'
    BY <1>1, <1>8 DEF TwoHave
  <2> QED
    BY <1>6, <2>1, <2>2, <2>3, <2>4
<1>10. ThreeMembers' <=> ThreeMembers
  BY <1>1 DEF ThreeMembers
<1>11. Gathering(next)'
  BY <1>1, <1>2, <1>6, <1>9, <1>10 DEF Gathering
<1> QED
  BY <1>1, <1>3, <1>7, <1>8, <1>11, GatherAdvances DEF next

\* A deletion.  In process it comes after the copies of its key, so all owners,
\* of which there are two, have the key already.
LEMMA DeleteAdvances ==
    ASSUME ~Http, TypeOK, nodes # {}, NEW job, work = <<job>>, Moving(job),
           NEW d \in job.drops, RebDelete(1, d)
    PROVE  Advanced
<1> DEFINE next == [job EXCEPT !.drops = @ \ {d}]
<1>1. /\ job.step = "gather" /\ UNCHANGED <<nodes, expected>>
      /\ store' = Stored(d.node, d.key, Absent) /\ Update(1, next)
      /\ \A m \in job.moves : m.key # d.key
  BY Alone DEF RebDelete, HasCalls, AtStep, Moving, Deciding, Gathering, membership, ghosts
<1>2. job \in RebalanceJob /\ Gathering(job)
  BY <1>1 DEF Moving, Deciding
<1>3. next \in RebalanceJob
  BY <1>2 DEF RebalanceJob
<1>4. d.node \in Node /\ d.key \in Key /\ d.node \notin Owners(nodes, d.key)
      /\ nodes \in SUBSET Node
  BY <1>2 DEF RebalanceJob, Gathering, TypeOK
<1>5. \A n \in nodes, k \in Key :
         IF n = d.node /\ k = d.key THEN Lacks(n, k)'
         ELSE (Has(n, k)' <=> Has(n, k)) /\ (Lacks(n, k)' <=> Lacks(n, k))
  BY <1>1, <1>4 DEF TypeOK, Entries, Stored, Has, Lacks
<1>6. /\ next.step = "gather" /\ next.kind = job.kind
      /\ next.moves = job.moves /\ next.drops = job.drops \ {d}
  BY <1>1, <1>2 DEF RebalanceJob
<1>7. \A k \in Key : Owners(nodes, k) \subseteq nodes
  BY <1>4, Routes
<1> HIDE DEF next
<1>8. \A k \in Key : \A n \in Owners(nodes, k) : Has(n, k) => Has(n, k)'
  BY <1>4, <1>5, <1>7
<1>9. ASSUME NEW k \in Key
      PROVE  /\ InTransit(next, k)'
             /\ \E n \in Owners(nodes, k) : Has(n, k)'
             /\ next.kind = "add" /\ ThreeMembers => TwoHave(k)'
  <2>1. InTransit(job, k) /\ (\E n \in Owners(nodes, k) : Has(n, k))
        /\ (job.kind = "add" /\ ThreeMembers => TwoHave(k))
    BY <1>2 DEF Gathering
  <2>2. InTransit(next, k)'
    BY <1>1, <1>4, <1>5, <1>6, <2>1 DEF InTransit
  <2>3. \E n \in Owners(nodes, k) : Has(n, k)'
    BY <1>8, <2>1
  <2>4. ASSUME job.kind = "add", ThreeMembers PROVE TwoHave(k)'
    <3>1. CASE k = d.key
      <4>1. \A n \in Owners(nodes, k) : Has(n, k)'
        BY <1>1, <1>7, <1>8, <2>1, <3>1 DEF InTransit
      <4>2. \A p : nodes # {p}
        BY <2>4 DEF ThreeMembers
      <4>3. \E x, y \in Owners(nodes, k) : x # y
        BY <1>4, <4>2, TwoOwners
      <4> QED
        BY <1>1, <1>7, <4>1, <4>3 DEF TwoHave
    <3>2. CASE k # d.key
      <4>1. \A n \in nodes : Has(n, k) => Has(n, k)'
        BY <1>5, <3>2
      <4> QED
        BY <1>1, <2>1, <2>4, <4>1 DEF TwoHave
    <3> QED
      BY <3>1, <3>2
  <2> QED
    BY <1>6, <2>2, <2>3, <2>4
<1>10. ThreeMembers' <=> ThreeMembers
  BY <1>1 DEF ThreeMembers
<1>11. Gathering(next)'
  BY <1>1, <1>2, <1>6, <1>9, <1>10 DEF Gathering
<1> QED
  BY <1>1, <1>3, <1>8, <1>11, GatherAdvances DEF next

\* Every step of a rebalance that is alone on the loop, in process.
LEMMA RebalanceAdvances ==
    ASSUME ~Http, TypeOK, ~Leaving, Certain, nodes # {}, NEW job, work = <<job>>, Moving(job), Background
    PROVE  Advanced /\ UNCHANGED <<membership, up, op, pings, budget, ghosts>>
<1>1. PICK i \in DOMAIN work :
        \/ Replicate(i) \/ ReplicateFails(i)
        \/ RebCopyDict(i) \/ RebCopyList(i) \/ RebListNodes(i)
        \/ \E n \in Node : RebSnapshot(i, n) \/ RebSnapshotFails(i, n)
        \/ RebPlan(i) \/ RebRaises(i)
        \/ IsRebalance(work[i]) /\
             \/ \E m \in work[i].moves : RebPut(i, m)
             \/ \E d \in work[i].drops : RebDelete(i, d)
             \/ \E call \in work[i].moves \cup work[i].drops : RebCallFails(i, call)
  BY DEF Background
<1>2. i = 1 /\ work[1] = job /\ job.kind # "replicate"
  BY Alone DEF Moving, RebalanceJob
<1>3. ~Replicate(1) /\ ~ReplicateFails(1)
  BY <1>2 DEF Replicate, ReplicateFails
<1>4. /\ \A n : ~RebSnapshotFails(1, n)
      /\ \A call : ~RebCallFails(1, call)
  BY DEF RebSnapshotFails, RebCallFails, Unreached
<1>5. CASE RebCopyDict(1) \/ RebCopyList(1) \/ RebListNodes(1)
  BY <1>5, StartAdvances DEF RebCopyDict, RebCopyList, RebListNodes
<1>6. ASSUME NEW n \in Node, RebSnapshot(1, n)
      PROVE  Advanced /\ UNCHANGED <<membership, up, op, pings, budget, ghosts>>
  BY <1>6, SnapshotAdvances DEF RebSnapshot
<1>7. CASE RebPlan(1)
  BY <1>7, PlanAdvances DEF RebPlan
<1>8. ASSUME NEW m \in job.moves, RebPut(1, m)
      PROVE  Advanced /\ UNCHANGED <<membership, up, op, pings, budget, ghosts>>
  BY <1>8, PutAdvances DEF RebPut
<1>9. ASSUME NEW d \in job.drops, RebDelete(1, d)
      PROVE  Advanced /\ UNCHANGED <<membership, up, op, pings, budget, ghosts>>
  BY <1>9, DeleteAdvances DEF RebDelete
<1>10. ~RebRaises(1)
  <2> SUFFICES ASSUME RebRaises(1) PROVE FALSE
    OBVIOUS
  <2>1. job.step = "snapshots" /\ RaisingOf(job) # {}
    BY <1>2 DEF RebRaises, AtStep
  <2>2. job.dict = nodes /\ job.current = nodes
    BY <2>1 DEF Moving, Deciding, Gathering
  <2> QED
    BY <2>1, <2>2, NothingRaises
<1> QED
  BY <1>1, <1>2, <1>3, <1>4, <1>5, <1>6, <1>7, <1>8, <1>9, <1>10

-----------------------------------------------------------------------------
(***************************************************************************)
(* The nodes stay well                                                     *)
(***************************************************************************)

\* Recording the heartbeat of a node keeps the members alive.
LEMMA RecordedWell ==
    ASSUME TypeOK, AllWell, NEW n \in Node, last_heartbeat' = Recorded(n),
           UNCHANGED <<nodes, up>>, budget'["evict"] = budget["evict"]
    PROVE  AllWell'
BY DEF TypeOK, AllWell, Alive, Recorded

\* Spending on another event leaves the evictions alone.
LEMMA SpendOther ==
    ASSUME TypeOK, NEW event, event # "evict", Spend(event)
    PROVE  budget'["evict"] = budget["evict"]
<1>1. "evict" \in Limited
  BY DEF Limited
<1> QED
  BY <1>1 DEF Spend, TypeOK

\* No step makes a member expire or a store forget.
LEMMA WellNext ==
    ASSUME Waiting, TypeOK, HeartbeatsOnlyForMembers, AllWell, [Next]_vars
    PROVE  AllWell'
<1>1. ~Http /\ \A n : ~Unreached(n)
  BY DEF Waiting, Unreached
<1>2. ASSUME UNCHANGED <<membership, up>>, budget'["evict"] = budget["evict"] PROVE AllWell'
  BY <1>2 DEF AllWell, Alive, membership
<1>3. ASSUME NEW c \in Client, NEW k \in Key,
             BeginGet(c, k) \/ BeginDelete(c, k) \/ \E v \in Value : BeginPut(c, k, v)
      PROVE  AllWell'
  <2>1. Spend("get") \/ Spend("delete") \/ Spend("put")
    BY <1>3 DEF BeginGet, BeginDelete, BeginPut
  <2> QED
    BY <1>2, <1>3, <2>1, SpendOther DEF BeginGet, BeginDelete, BeginPut, Begin
<1>4. ASSUME NEW c \in Client, Call(c) PROVE AllWell'
  <2>1. CallOK(op[c])
    BY DEF TypeOK
  <2>2. CASE PutReply(c)
    <3>1. op[c].target \in Node
      BY <2>1, <2>2 DEF CallOK, PutReply, Resumes, At
    <3> QED
      BY <2>2, <3>1, RecordedWell DEF PutReply
  <2>3. CASE GetAtTarget(c)
    <3>1. op[c].target \in Node
      BY <2>1, <2>3 DEF CallOK, GetAtTarget, Resumes, At
    <3>2. CASE last_heartbeat' = Recorded(op[c].target)
      BY <2>3, <3>1, <3>2, RecordedWell DEF GetAtTarget
    <3>3. CASE last_heartbeat' = last_heartbeat
      BY <1>2, <2>3, <3>3 DEF GetAtTarget, membership
    <3> QED
      BY <2>3, <3>2, <3>3 DEF GetAtTarget
  <2>4. CASE PutAtTarget(c) \/ GetAtReplica(c) \/ DeleteAtTarget(c) \/ DeleteAtReplica(c)
    BY <1>2, <2>4 DEF PutAtTarget, GetAtReplica, DeleteAtTarget, DeleteAtReplica
  <2>5. ~CallFails(c)
    BY <1>1 DEF CallFails
  <2> QED
    BY <1>4, <2>2, <2>3, <2>4, <2>5 DEF Call
<1>5. ASSUME Background PROVE AllWell'
  <2>1. \A i : ~ReplicateFails(i)
    BY <1>1 DEF ReplicateFails
  <2>2. \A i, n : ~RebSnapshotFails(i, n)
    BY <1>1 DEF RebSnapshotFails
  <2>3. \A i, call : ~RebCallFails(i, call)
    BY <1>1 DEF RebCallFails
  <2> QED
    BY <1>2, <1>5, <2>1, <2>2, <2>3 DEF Background, Replicate, RebCopyDict, RebCopyList,
       RebListNodes, RebSnapshot, RebPlan, RebRaises, RebPut, RebDelete
<1>6. ASSUME NEW n \in Node, Ping(n) \/ Pong(n) \/ PingFails(n) PROVE AllWell'
  <2>1. CASE Ping(n)
    BY <1>2, <2>1, SpendOther DEF Ping
  <2>2. CASE Pong(n)
    BY <2>2, RecordedWell DEF Pong
  <2> QED
    BY <1>1, <1>6, <2>1, <2>2 DEF PingFails
<1>7. ASSUME NEW n \in Node, AddNode(n) PROVE AllWell'
  <2>1. last_heartbeat[n] = "none"
    BY <1>7 DEF HeartbeatsOnlyForMembers, AddNode
  <2>2. budget'["evict"] = budget["evict"]
    BY <1>7, SpendOther DEF AddNode
  <2> QED
    BY <1>7, <2>1, <2>2 DEF AddNode, AllWell, Alive, TypeOK
<1>8. ASSUME NEW n \in Node, RemoveNode(n) PROVE AllWell'
  <2>1. budget'["evict"] = budget["evict"]
    BY <1>8, SpendOther DEF RemoveNode
  <2> QED
    BY <1>8, <2>1 DEF RemoveNode, AllWell, Alive, TypeOK
<1>9. ASSUME NEW n \in Node,
             Expire(n) \/ Crash(n) \/ Restart(n) \/ \E k \in Key : Forget(n, k)
      PROVE  AllWell'
  BY <1>9 DEF Expire, Crash, Restart, Forget, Spend, AllWell, Waiting
<1>10. CASE SortKeys
  BY <1>10 DEF SortKeys, AllWell, Alive
<1>11. CASE UNCHANGED vars
  BY <1>2, <1>11 DEF vars, membership
<1> QED
  BY <1>3, <1>4, <1>5, <1>6, <1>7, <1>8, <1>9, <1>10, <1>11 DEF Next

-----------------------------------------------------------------------------
(***************************************************************************)
(* The service stays orderly: calls                                        *)
(***************************************************************************)

\* What a step that stores nothing leaves as it was.
LEMMA StoresFrame ==
    ASSUME UNCHANGED <<nodes, store, expected>>
    PROVE  /\ Certain' <=> Certain
           /\ \A n, k : Has(n, k)' <=> Has(n, k)
           /\ \A k : Held(nodes, k)' <=> Held(nodes, k)
           /\ \A k, v : HalfWritten(k, v)' <=> HalfWritten(k, v)
           /\ \A job : Moving(job)' <=> Moving(job)
<1>1. Certain' <=> Certain
  BY DEF Certain
<1>2. \A n, k : (Has(n, k)' <=> Has(n, k)) /\ (Lacks(n, k)' <=> Lacks(n, k))
  BY DEF Has, Lacks
<1>3. \A M, k : Held(M, k)' <=> Held(M, k)
  BY <1>2 DEF Held
<1>4. \A k, v : HalfWritten(k, v)' <=> HalfWritten(k, v)
  BY <1>2, <1>3 DEF HalfWritten
<1>5. \A job : Deciding(job)' <=> Deciding(job)
  BY <1>3 DEF Deciding, ChangeOf
<1>6. \A job : Gathering(job)' <=> Gathering(job)
  BY <1>2 DEF Gathering, InTransit, ThreeMembers, TwoHave
<1> QED
  BY <1>1, <1>2, <1>3, <1>4, <1>5, <1>6 DEF Moving

\* The stage stays when no write goes on and nothing is stored.
LEMMA StageFrame ==
    ASSUME UNCHANGED <<nodes, store, expected, work>>,
           \A c \in Client : Writing(c)' => Writing(c),
           \A c \in Client : Writing(c) => op'[c] = op[c]
    PROVE  /\ AtRest => AtRest'
           /\ MidCall => MidCall'
           /\ Replicating => Replicating'
           /\ Reorganising => Reorganising'
<1>1. AtRest => AtRest'
  BY StoresFrame DEF AtRest
<1>2. MidCall => MidCall'
  <2> SUFFICES ASSUME MidCall PROVE MidCall'
    OBVIOUS
  <2>1. PICK c \in Client : /\ Writing(c)
                            /\ op[c].step \in {"applied", "replica"}
                            /\ HalfWritten(op[c].key, op[c].value)
    BY DEF MidCall
  <2>2. op'[c] = op[c] /\ Writing(c)'
    BY <2>1 DEF Writing, Replied
  <2>3. HalfWritten(op[c].key, op[c].value)'
    <3>1. PICK k, v : k = op[c].key /\ v = op[c].value
      OBVIOUS
    <3>2. HalfWritten(k, v)'
      BY <2>1, <3>1, StoresFrame
    <3> QED
      BY <2>2, <3>1, <3>2
  <2> QED
    BY <2>1, <2>2, <2>3 DEF MidCall
<1>3. Replicating => Replicating'
  BY StoresFrame DEF Replicating
<1>4. Reorganising => Reorganising'
  BY StoresFrame DEF Reorganising
<1> QED
  BY <1>1, <1>2, <1>3, <1>4

\* A step that touches no call, store, value or coroutine.
LEMMA OrderlyFrame ==
    ASSUME Orderly, UNCHANGED <<nodes, store, op, work, expected>>
    PROVE  Orderly'
<1>1. OneCall'
  BY DEF Orderly, OneCall, Replied
<1>2. ReplicaHas'
  BY StoresFrame DEF Orderly, ReplicaHas, At, Has
<1>3. (AtRest \/ MidCall \/ Replicating \/ Reorganising)'
  <2>1. \A c \in Client : Writing(c)' <=> Writing(c)
    BY DEF Writing, Replied
  <2> QED
    BY <2>1, StageFrame DEF Orderly
<1> QED
  BY <1>1, <1>2, <1>3, StoresFrame DEF Orderly

\* With all members alive a key is served by its primary.
LEMMA PrimaryServes ==
    ASSUME TypeOK, AllWell, nodes # {}, NEW k \in Key
    PROVE  ServedBy(k) = Primary(nodes, k)
<1>1. nodes \in SUBSET Node
  BY DEF TypeOK
<1>2. Primary(nodes, k) \in Alive
  BY <1>1, Routes DEF AllWell
<1> QED
  BY <1>2 DEF ServedBy

\* The calls that have their answer are not writing.
LEMMA RepliedNotWriting == \A c \in Client : Replied(c) => ~Writing(c)
BY DEF Writing

\* A call is begun: a write when nothing is under way, a get in between.
LEMMA OrderlyBegin ==
    ASSUME Waiting, TypeOK, AllWell, Orderly, nodes # {},
           NEW c \in Client, NEW k \in Key, NEW kind \in {"put", "get", "delete"},
           NEW v \in Value \cup {Absent}, kind = "delete" => v = Absent,
           kind = "get" \/ WritersWait, Begin(c, kind, k, v)
    PROVE  Orderly'
<1> DEFINE call == [kind |-> kind, step |-> "target", key |-> k, value |-> v,
                    target |-> ServedBy(k), replica |-> Replica(nodes, k)]
<1>1. /\ UNCHANGED <<nodes, store, work, expected>>
      /\ op' = [op EXCEPT ![c] = call]
      /\ \A b \in Client : Replied(b)
  BY DEF Begin, membership, CallerFree, Waiting
<1>2. call.target = Primary(nodes, k) /\ call.replica = Replica(nodes, k) /\ call.key = k
      /\ call.kind = kind /\ call.step = "target" /\ call.value = v
  BY PrimaryServes
<1> HIDE DEF call
<1>3. op'[c] = call /\ \A b \in Client \ {c} : op'[b] = op[b] /\ Replied(b)'
  BY <1>1 DEF TypeOK, Replied
<1>4. OneCall'
  BY <1>1, <1>2, <1>3 DEF OneCall, Replied
<1>5. ReplicaHas'
  BY <1>2, <1>3 DEF ReplicaHas, At, Replied
<1>6. ~MidCall
  BY <1>1, RepliedNotWriting DEF MidCall
<1>7. (AtRest \/ MidCall \/ Replicating \/ Reorganising)'
  <2>1. CASE kind = "get"
    <3>1. \A b \in Client : ~Writing(b) /\ ~Writing(b)'
      BY <1>1, <1>2, <1>3, <2>1 DEF Writing, Replied
    <3> QED
      BY <1>1, <3>1, StageFrame DEF Orderly
  <2>2. CASE kind # "get"
    <3>1. work = <<>>
      BY <2>2 DEF WritersWait, Quiet, Waiting
    <3>2. AtRest
      BY <1>6, <3>1 DEF Orderly, Replicating, Reorganising
    <3>3. \A b \in Client : Writing(b)' => op'[b].step = "target"
      BY <1>2, <1>3 DEF Writing
    <3>4. AtRest'
      BY <1>1, <3>2, <3>3, StoresFrame DEF AtRest
    <3> QED
      BY <3>4
  <2> QED
    BY <2>1, <2>2
<1> QED
  BY <1>1, <1>4, <1>5, <1>7, StoresFrame DEF Orderly

\* What a call under way knows.
LEMMA CallUnderWay ==
    ASSUME TypeOK, OneCall, nodes # {}, NEW c \in Client, ~Replied(c)
    PROVE  /\ op[c] \in CallState /\ CallOK(op[c]) /\ op[c].key \in Key
           /\ op[c].target = Primary(nodes, op[c].key)
           /\ op[c].replica = Replica(nodes, op[c].key)
           /\ op[c].target \in nodes /\ op[c].target \in Node
           /\ op[c].target \in Owners(nodes, op[c].key)
           /\ op[c].replica \in (nodes \ {op[c].target}) \cup {NoNode}
           /\ Owners(nodes, op[c].key) = {op[c].target, op[c].replica} \ {NoNode}
           /\ op[c].kind = "delete" => op[c].value = Absent
           /\ \A b \in Client \ {c} : Replied(b)
<1>1. op[c] \in CallState /\ CallOK(op[c]) /\ op[c].key \in Key /\ nodes \in SUBSET Node
  BY DEF TypeOK, CallState
<1>2. /\ op[c].target = Primary(nodes, op[c].key)
      /\ op[c].replica = Replica(nodes, op[c].key)
      /\ op[c].kind = "delete" => op[c].value = Absent
      /\ \A b \in Client \ {c} : Replied(b)
  BY DEF OneCall
<1>3. PICK k \in Key : k = op[c].key
  BY <1>1
<1>4. /\ Primary(nodes, k) \in nodes /\ Primary(nodes, k) \in Owners(nodes, k)
      /\ Replica(nodes, k) \in (nodes \ {Primary(nodes, k)}) \cup {NoNode}
      /\ Owners(nodes, k) = {Primary(nodes, k), Replica(nodes, k)} \ {NoNode}
  BY <1>1, Routes
<1> QED
  BY <1>1, <1>2, <1>3, <1>4

\* Whether the replica is of use is whether there is one.
LEMMA ReplicaOfUse ==
    ASSUME TypeOK, AllWell, OneCall, nodes # {}, NEW c \in Client, ~Replied(c)
    PROVE  ReplicaUsable(c) <=> op[c].replica # NoNode
<1>1. op[c].replica \in (nodes \ {op[c].target}) \cup {NoNode} /\ NoNode \notin nodes
  BY CallUnderWay, NoNodeAssumption DEF TypeOK
<1> QED
  BY <1>1 DEF ReplicaUsable, AllWell

\* When one call is all that goes on, and its caller has its answer or is told to go on.
LEMMA CallSteps ==
    ASSUME TypeOK, OneCall, nodes # {}, NEW c \in Client, ~Replied(c), nodes' = nodes,
           NEW call, op' = [op EXCEPT ![c] = call],
           call.step # "replied" =>
              /\ call.key = op[c].key /\ call.target = op[c].target
              /\ call.replica = op[c].replica /\ call.kind = op[c].kind
              /\ call.value = op[c].value
    PROVE  /\ OneCall'
           /\ op'[c] = call
           /\ \A b \in Client \ {c} : op'[b] = op[b] /\ Replied(b) /\ Replied(b)'
<1>1. op'[c] = call /\ \A b \in Client \ {c} : op'[b] = op[b]
  BY DEF TypeOK
<1>2. \A b \in Client \ {c} : Replied(b) /\ Replied(b)'
  BY <1>1, CallUnderWay DEF Replied
<1>3. OneCall'
  BY <1>1, <1>2 DEF OneCall, Replied
<1> QED
  BY <1>1, <1>2, <1>3

\* The primary takes a put.
LEMMA OrderlyPutAtTarget ==
    ASSUME TypeOK, Orderly, nodes # {}, NEW c \in Client, PutAtTarget(c)
    PROVE  Orderly'
<1> DEFINE call == [op[c] EXCEPT !.step = "applied"]
<1>1. /\ ~Replied(c) /\ Writing(c) /\ op[c].kind = "put" /\ op[c].step = "target"
      /\ UNCHANGED <<nodes, work, expected>>
      /\ store' = Stored(op[c].target, op[c].key, op[c].value)
  BY DEF PutAtTarget, Resumes, At, Replied, Writing, membership, ghosts
<1>2. PICK k, v, p : k = op[c].key /\ v = op[c].value /\ p = op[c].target
  OBVIOUS
<1>3. /\ op[c] \in CallState /\ k \in Key /\ p \in Node /\ p = Primary(nodes, k)
      /\ p \in Owners(nodes, k)
  BY <1>1, <1>2, CallUnderWay DEF Orderly
<1>4. call.step = "applied" /\ call.key = k /\ call.target = p /\ call.replica = op[c].replica
      /\ call.kind = "put" /\ call.value = v
  BY <1>1, <1>2, <1>3 DEF CallState
<1>5. op' = [op EXCEPT ![c] = call]
  BY DEF PutAtTarget, Goto
<1> HIDE DEF call
<1>6. /\ OneCall' /\ op'[c] = call
      /\ \A b \in Client \ {c} : op'[b] = op[b] /\ Replied(b) /\ Replied(b)'
  BY <1>1, <1>2, <1>4, <1>5, CallSteps DEF Orderly
<1>7. AtRest
  BY <1>1, <1>6, RepliedNotWriting DEF Orderly, MidCall, Replicating, Reorganising
<1>8. \A n \in Node, l \in Key :
         store'[n][l] = IF n = p /\ l = k THEN v ELSE store[n][l]
  BY <1>1, <1>2, <1>3 DEF Stored, TypeOK, Entries
<1>9. nodes \in SUBSET Node
  BY DEF TypeOK
<1>10. HalfWritten(k, v)'
  <2>1. \A l \in Key \ {k} : Held(nodes, l)'
    BY <1>1, <1>7, <1>8, <1>9 DEF AtRest, Held, Has, Lacks
  <2>2. store'[Primary(nodes, k)][k] = v
    BY <1>3, <1>8
  <2>3. \A n \in nodes \ Owners(nodes, k) : Lacks(n, k)'
    BY <1>3, <1>7, <1>8, <1>9 DEF AtRest, Held, Lacks
  <2> QED
    BY <1>1, <2>1, <2>2, <2>3 DEF HalfWritten
<1>11. MidCall'
  <2>1. Writing(c)' /\ op'[c].step = "applied" /\ op'[c].key = k /\ op'[c].value = v
    BY <1>4, <1>6 DEF Writing, Replied
  <2>2. HalfWritten(op[c].key, op[c].value)'
    BY <1>10, <2>1
  <2> QED
    BY <1>1, <1>7, <2>1, <2>2 DEF MidCall, AtRest
<1>12. ReplicaHas'
  BY <1>4, <1>6 DEF ReplicaHas, At, Replied
<1>13. Certain'
  BY <1>1 DEF Orderly, Certain
<1> QED
  BY <1>6, <1>11, <1>12, <1>13 DEF Orderly

\* A put or delete past its first transport call is what the service is busy with.
LEMMA MidOfCall ==
    ASSUME TypeOK, Orderly, nodes # {}, NEW c \in Client, Writing(c),
           op[c].step \in {"applied", "replica"}
    PROVE  work = <<>> /\ HalfWritten(op[c].key, op[c].value)
<1>1. \A b \in Client \ {c} : ~Writing(b)
  BY CallUnderWay, RepliedNotWriting DEF Orderly, Writing
<1> QED
  BY <1>1 DEF Orderly, AtRest, MidCall, Replicating, Reorganising

\* The acknowledged value is the only one the key may have.
LEMMA CertainNext ==
    ASSUME TypeOK, Certain, NEW k \in Key, NEW v \in Value \cup {Absent},
           expected' = [expected EXCEPT ![k] = {v}]
    PROVE  Certain'
BY DEF TypeOK, Certain

\* The put is acknowledged; its replica write, if there is a replica, is all that is left.
LEMMA OrderlyPutReply ==
    ASSUME TypeOK, AllWell, Orderly, nodes # {}, NEW c \in Client, PutReply(c)
    PROVE  Orderly'
<1> DEFINE call == [op[c] EXCEPT !.step = "replied", !.value = Absent,
                                 !.target = NoNode, !.replica = NoNode]
<1>1. /\ ~Replied(c) /\ Writing(c) /\ op[c].kind = "put" /\ op[c].step = "applied"
      /\ UNCHANGED <<nodes, store>>
      /\ expected' = [expected EXCEPT ![op[c].key] = {op[c].value}]
      /\ op' = [op EXCEPT ![c] = call]
  BY DEF PutReply, Resumes, At, Replied, Writing, Answer
<1>2. PICK k, v, p, r : /\ k = op[c].key /\ v = op[c].value
                        /\ p = op[c].target /\ r = op[c].replica
  OBVIOUS
<1>3. /\ op[c] \in CallState /\ k \in Key /\ p = Primary(nodes, k) /\ r = Replica(nodes, k)
      /\ r \in nodes \cup {NoNode} /\ Owners(nodes, k) = {p, r} \ {NoNode}
      /\ v \in Value
  BY <1>1, <1>2, CallUnderWay DEF Orderly, CallOK
<1>4. work = <<>> /\ HalfWritten(k, v)
  BY <1>1, <1>2, MidOfCall
<1>5. call.step = "replied"
  BY <1>3 DEF CallState
<1> HIDE DEF call
<1>6. /\ OneCall' /\ op'[c] = call
      /\ \A b \in Client \ {c} : op'[b] = op[b] /\ Replied(b) /\ Replied(b)'
  BY <1>1, <1>5, CallSteps DEF Orderly
<1>7. \A b \in Client : Replied(b)'
  BY <1>5, <1>6 DEF Replied
<1>8. \A l \in Key : expected'[l] = IF l = k THEN {v} ELSE expected[l]
  BY <1>1, <1>2, <1>3 DEF TypeOK
<1>9. \A l \in Key \ {k} : Held(nodes, l)'
  BY <1>1, <1>4, <1>8 DEF HalfWritten, Held, Has, Lacks
<1>10. HalfWritten(k, v)'
  BY <1>1, <1>4, <1>9 DEF HalfWritten, Lacks
<1>11. (AtRest \/ Replicating)'
  <2>1. CASE ReplicaUsable(c)
    <3>1. r \in nodes
      BY <1>1, <1>2, <1>3, <2>1, ReplicaOfUse DEF Orderly
    <3>2. work' = <<Replication(r, k, v)>>
      BY <1>2, <1>4, <2>1 DEF PutReply
    <3> QED
      BY <1>1, <1>3, <1>7, <1>8, <1>10, <3>1, <3>2 DEF Replicating, Writing
  <2>2. CASE ~ReplicaUsable(c)
    <3>1. r = NoNode
      BY <1>1, <1>2, <2>2, ReplicaOfUse DEF Orderly
    <3>2. work' = <<>>
      BY <1>4, <2>2 DEF PutReply
    <3>3. NoNode \notin nodes
      BY NoNodeAssumption DEF TypeOK
    <3>4. Owners(nodes, k) \cap nodes \subseteq {p} /\ store'[p][k] = v /\ v \in expected'[k]
      BY <1>1, <1>3, <1>4, <1>8, <3>1, <3>3 DEF HalfWritten
    <3>5. Held(nodes, k)'
      BY <1>1, <1>10, <3>4 DEF HalfWritten, Held, Has, Lacks
    <3> QED
      BY <1>1, <1>7, <1>9, <3>2, <3>5 DEF AtRest, Writing
  <2> QED
    BY <2>1, <2>2
<1>12. ReplicaHas'
  BY <1>7 DEF ReplicaHas, At, Replied
<1>13. Certain'
  BY <1>1, <1>2, <1>3, CertainNext DEF Orderly
<1> QED
  BY <1>6, <1>11, <1>12, <1>13 DEF Orderly

\* What a get finds, when no write is under way past its first call: the value at the
\* primary, or no entry there; and then the value, if there is one, is at the replica.
LEMMA Readable ==
    ASSUME TypeOK, Orderly, nodes # {}, ~MidCall, NEW k \in Key
    PROVE  /\ Has(Primary(nodes, k), k) \/ Lacks(Primary(nodes, k), k)
           /\ Lacks(Primary(nodes, k), k) =>
                 IF Replica(nodes, k) = NoNode THEN Has(Primary(nodes, k), k)
                                               ELSE Has(Replica(nodes, k), k)
<1> DEFINE p == Primary(nodes, k)
           r == Replica(nodes, k)
<1>1. /\ p \in nodes /\ r \in (nodes \ {p}) \cup {NoNode}
      /\ Owners(nodes, k) = {p, r} \ {NoNode}
      /\ NoNode \notin nodes
  BY Routes, NoNodeAssumption DEF TypeOK
<1>2. p \in Owners(nodes, k) /\ (r # NoNode => r \in nodes /\ r \in Owners(nodes, k))
      /\ Owners(nodes, k) \subseteq {p, r}
  BY <1>1
<1>3. CASE Held(nodes, k)
  BY <1>1, <1>2, <1>3 DEF Held
<1>4. CASE Replicating
  <2>1. PICK l \in Key, v \in Value : expected[l] = {v} /\ HalfWritten(l, v)
    BY <1>4 DEF Replicating
  <2>2. CASE l = k
    <3>1. Has(p, k) /\ ~Lacks(p, k)
      BY <2>1, <2>2, AbsentAssumption DEF HalfWritten, Has, Lacks
    <3> QED
      BY <3>1
  <2>3. CASE l # k
    BY <1>3, <2>1, <2>3 DEF HalfWritten
  <2> QED
    BY <2>2, <2>3
<1>5. CASE Reorganising
  <2>1. PICK job : Moving(job)
    BY <1>5 DEF Reorganising
  <2>2. /\ \A n \in nodes : Has(n, k) \/ Lacks(n, k)
        /\ \E n \in Owners(nodes, k) : Has(n, k)
    BY <2>1, MovingHas DEF Orderly
  <2>3. Lacks(p, k) /\ Has(p, k) => \A n \in nodes : Has(n, k)
    BY <2>2 DEF Has, Lacks
  <2>4. ~Has(p, k) => r # NoNode /\ Has(r, k)
    BY <1>1, <2>2
  <2> QED
    BY <1>1, <2>2, <2>3, <2>4
<1> QED
  BY <1>3, <1>4, <1>5 DEF Orderly, AtRest


\* A get changes no stage.
LEMMA GetKeepsStage ==
    ASSUME TypeOK, Orderly, nodes # {}, NEW c \in Client, ~Replied(c), op[c].kind = "get",
           UNCHANGED <<nodes, store, expected, work>>,
           NEW call, call.kind = "get", op' = [op EXCEPT ![c] = call]
    PROVE  /\ ~MidCall
           /\ (AtRest \/ MidCall \/ Replicating \/ Reorganising)'
<1>1. \A b \in Client \ {c} : Replied(b)
  BY CallUnderWay DEF Orderly
<1>2. op'[c] = call /\ \A b \in Client \ {c} : op'[b] = op[b]
  BY DEF TypeOK
<1>3. \A b \in Client : ~Writing(b) /\ ~Writing(b)'
  BY <1>1, <1>2 DEF Writing, Replied
<1>4. ~MidCall
  BY <1>3 DEF MidCall
<1> QED
  BY <1>3, <1>4, StageFrame DEF Orderly

\* A get asks the primary, and goes on to the replica if that has the key.
LEMMA OrderlyGetAtTarget ==
    ASSUME TypeOK, AllWell, Orderly, nodes # {}, NEW c \in Client, GetAtTarget(c)
    PROVE  Orderly'
<1>1. /\ ~Replied(c) /\ op[c].kind = "get" /\ op[c].step = "target"
      /\ UNCHANGED <<nodes, store, work, expected>>
  BY DEF GetAtTarget, Resumes, At, Replied, ghosts
<1>2. PICK k, r : k = op[c].key /\ r = op[c].replica
  OBVIOUS
<1>3. /\ op[c] \in CallState /\ k \in Key /\ r = Replica(nodes, k)
      /\ op[c].target = Primary(nodes, k) /\ r \in nodes \cup {NoNode}
  BY <1>1, <1>2, CallUnderWay DEF Orderly
<1>4. PICK call : /\ op' = [op EXCEPT ![c] = call]
                  /\ call.kind = "get"
                  /\ call.step # "replied" =>
                        /\ call.step = "replica" /\ ReplicaUsable(c)
                        /\ store[op[c].target][k] = Absent
                        /\ call.key = k /\ call.target = op[c].target
                        /\ call.replica = r /\ call.value = op[c].value
  <2>1. PICK v : Answer(c, v) \/ (/\ Goto(c, "replica") /\ ReplicaUsable(c)
                                  /\ store[op[c].target][k] = Absent)
    BY <1>2 DEF GetAtTarget
  <2>2. CASE Answer(c, v)
    <3> DEFINE call == [op[c] EXCEPT !.step = "replied", !.value = v,
                                     !.target = NoNode, !.replica = NoNode]
    <3>1. call.step = "replied" /\ call.kind = "get"
      BY <1>1, <1>3 DEF CallState
    <3> QED
      BY <2>2, <3>1 DEF Answer
  <2>3. CASE /\ Goto(c, "replica") /\ ReplicaUsable(c)
             /\ store[op[c].target][k] = Absent
    <3> DEFINE call == [op[c] EXCEPT !.step = "replica"]
    <3>1. /\ call.step = "replica" /\ call.kind = "get" /\ call.key = k
          /\ call.target = op[c].target /\ call.replica = r /\ call.value = op[c].value
      BY <1>1, <1>2, <1>3 DEF CallState
    <3> QED
      BY <2>3, <3>1 DEF Goto
  <2> QED
    BY <2>1, <2>2, <2>3
<1>5. /\ OneCall' /\ op'[c] = call
      /\ \A b \in Client \ {c} : op'[b] = op[b] /\ Replied(b) /\ Replied(b)'
  BY <1>1, <1>2, <1>4, CallSteps DEF Orderly
<1>6. ~MidCall /\ (AtRest \/ MidCall \/ Replicating \/ Reorganising)'
  BY <1>1, <1>4, GetKeepsStage
<1>7. ReplicaHas'
  <2>1. call.step = "replica" => r \in nodes /\ Has(r, k)
    <3> SUFFICES ASSUME call.step = "replica" PROVE r \in nodes /\ Has(r, k)
      OBVIOUS
    <3>1. r # NoNode /\ Lacks(Primary(nodes, k), k)
      BY <1>1, <1>2, <1>3, <1>4, ReplicaOfUse DEF Orderly, Lacks
    <3>2. Has(Replica(nodes, k), k)
      BY <1>3, <1>6, <3>1, Readable
    <3> QED
      BY <1>3, <3>1, <3>2
  <2>2. At(c, "get", "replica")' => op'[c].replica \in nodes' /\ Has(op[c].replica, op[c].key)'
    BY <1>1, <1>4, <1>5, <2>1 DEF At, Has
  <2> QED
    BY <1>5, <2>2 DEF ReplicaHas, At, Replied
<1> QED
  BY <1>1, <1>5, <1>6, <1>7, StoresFrame DEF Orderly

\* The replica answers a get.
LEMMA OrderlyGetAtReplica ==
    ASSUME TypeOK, Orderly, nodes # {}, NEW c \in Client, GetAtReplica(c)
    PROVE  Orderly'
<1> DEFINE call == [op[c] EXCEPT !.step = "replied",
                                 !.value = store[op[c].replica][op[c].key],
                                 !.target = NoNode, !.replica = NoNode]
<1>1. /\ ~Replied(c) /\ op[c].kind = "get" /\ op[c].step = "replica"
      /\ UNCHANGED <<nodes, store, work, expected>>
      /\ op' = [op EXCEPT ![c] = call]
  BY DEF GetAtReplica, Resumes, At, Replied, Answer, membership, ghosts
<1>2. op[c] \in CallState
  BY DEF TypeOK
<1>3. call.step = "replied" /\ call.kind = "get"
  BY <1>1, <1>2 DEF CallState
<1> HIDE DEF call
<1>4. /\ OneCall' /\ op'[c] = call
      /\ \A b \in Client \ {c} : op'[b] = op[b] /\ Replied(b) /\ Replied(b)'
  BY <1>1, <1>3, CallSteps DEF Orderly
<1>5. (AtRest \/ MidCall \/ Replicating \/ Reorganising)'
  BY <1>1, <1>3, GetKeepsStage
<1>6. ReplicaHas'
  BY <1>3, <1>4 DEF ReplicaHas, At, Replied
<1> QED
  BY <1>1, <1>4, <1>5, <1>6, StoresFrame DEF Orderly

\* The primary takes a delete: the replica is told if the primary had the key and there
\* is a replica; else the call is over.
LEMMA OrderlyDeleteAtTarget ==
    ASSUME TypeOK, AllWell, Orderly, nodes # {}, NEW c \in Client, DeleteAtTarget(c)
    PROVE  Orderly'
<1>1. /\ ~Replied(c) /\ Writing(c) /\ op[c].kind = "delete" /\ op[c].step = "target"
      /\ UNCHANGED <<nodes, work>>
      /\ store' = Stored(op[c].target, op[c].key, Absent)
  BY DEF DeleteAtTarget, Resumes, At, Replied, Writing, membership
<1>2. PICK k, p, r : k = op[c].key /\ p = op[c].target /\ r = op[c].replica
  OBVIOUS
<1>3. /\ op[c] \in CallState /\ k \in Key /\ p = Primary(nodes, k) /\ r = Replica(nodes, k)
      /\ p \in Node /\ p \in nodes /\ op[c].value = Absent
      /\ r \in nodes \cup {NoNode} /\ Owners(nodes, k) = {p, r} \ {NoNode}
      /\ p \in Owners(nodes, k) /\ \A b \in Client \ {c} : Replied(b)
  BY <1>1, <1>2, CallUnderWay DEF Orderly
<1>4. work = <<>> /\ \A l \in Key : Held(nodes, l)
  <2>1. AtRest
    BY <1>1, <1>3, RepliedNotWriting DEF Orderly, MidCall, Replicating, Reorganising
  <2> QED
    BY <2>1 DEF AtRest
<1>5. \A n \in Node, l \in Key :
         store'[n][l] = IF n = p /\ l = k THEN Absent ELSE store[n][l]
  BY <1>1, <1>2, <1>3 DEF Stored, TypeOK, Entries
<1>6. nodes \in SUBSET Node /\ NoNode \notin nodes
  BY NoNodeAssumption DEF TypeOK
<1>7. CASE store[p][k] # Absent /\ ReplicaUsable(c)
  <2> DEFINE call == [op[c] EXCEPT !.step = "replica"]
  <2>1. op' = [op EXCEPT ![c] = call] /\ expected' = expected
    BY <1>2, <1>7 DEF DeleteAtTarget, Goto
  <2>2. call.step = "replica" /\ call.key = k /\ call.target = p /\ call.replica = r
        /\ call.kind = "delete" /\ call.value = Absent
    BY <1>1, <1>2, <1>3 DEF CallState
  <2> HIDE DEF call
  <2>3. /\ OneCall' /\ op'[c] = call
        /\ \A b \in Client \ {c} : op'[b] = op[b] /\ Replied(b) /\ Replied(b)'
    BY <1>1, <1>2, <1>3, <2>1, <2>2, CallSteps DEF Orderly
  <2>4. HalfWritten(k, Absent)'
    <3>1. \A l \in Key \ {k} : Held(nodes, l)'
      BY <1>1, <1>4, <1>5, <1>6, <2>1 DEF Held, Has, Lacks
    <3>2. store'[Primary(nodes, k)][k] = Absent
      BY <1>3, <1>5
    <3>3. \A n \in nodes \ Owners(nodes, k) : Lacks(n, k)'
      BY <1>3, <1>4, <1>5, <1>6 DEF Held, Lacks
    <3> QED
      BY <1>1, <3>1, <3>2, <3>3 DEF HalfWritten
  <2>5. MidCall'
    <3>1. Writing(c)' /\ op'[c].step = "replica" /\ op'[c].key = k /\ op'[c].value = Absent
      BY <2>2, <2>3 DEF Writing, Replied
    <3>2. HalfWritten(op[c].key, op[c].value)'
      BY <2>4, <3>1
    <3> QED
      BY <1>1, <1>4, <3>1, <3>2 DEF MidCall
  <2>6. ReplicaHas'
    BY <2>2, <2>3 DEF ReplicaHas, At, Replied
  <2>7. Certain'
    BY <2>1 DEF Orderly, Certain
  <2> QED
    BY <2>3, <2>5, <2>6, <2>7 DEF Orderly
<1>8. CASE store[p][k] = Absent \/ ~ReplicaUsable(c)
  <2> DEFINE call == [op[c] EXCEPT !.step = "replied", !.value = Absent,
                                   !.target = NoNode, !.replica = NoNode]
  <2>1. op' = [op EXCEPT ![c] = call]
    BY <1>2, <1>8 DEF DeleteAtTarget, Answer
  <2>2. call.step = "replied"
    BY <1>3 DEF CallState
  <2> HIDE DEF call
  <2>3. /\ OneCall' /\ op'[c] = call
        /\ \A b \in Client \ {c} : op'[b] = op[b] /\ Replied(b) /\ Replied(b)'
    BY <1>1, <2>1, <2>2, CallSteps DEF Orderly
  <2>4. \A b \in Client : Replied(b)'
    BY <2>2, <2>3 DEF Replied
  <2>5. Certain' /\ \A l \in Key : Held(nodes, l)'
    <3>1. CASE store[p][k] = Absent
      <4>1. expected' = expected
        BY <1>2, <3>1 DEF DeleteAtTarget
      <4>2. \A n \in nodes, l \in Key : store'[n][l] = store[n][l]
        BY <1>5, <1>6, <3>1
      <4> QED
        BY <1>1, <1>4, <4>1, <4>2 DEF Orderly, Certain, Held, Has, Lacks
    <3>2. CASE store[p][k] # Absent
      <4>1. expected' = [expected EXCEPT ![k] = {Absent}]
        BY <1>2, <1>8, <3>2 DEF DeleteAtTarget
      <4>2. r = NoNode
        BY <1>1, <1>2, <1>8, <3>2, ReplicaOfUse DEF Orderly
      <4>3. \A l \in Key : expected'[l] = IF l = k THEN {Absent} ELSE expected[l]
        BY <1>3, <4>1 DEF TypeOK
      <4>4. \A l \in Key \ {k} : Held(nodes, l)'
        BY <1>1, <1>4, <1>5, <1>6, <4>3 DEF Held, Has, Lacks
      <4>5. \A n \in nodes : store'[n][k] = Absent
        BY <1>3, <1>4, <1>5, <1>6, <4>2 DEF Held, Lacks
      <4>6. Held(nodes, k)'
        BY <1>1, <1>3, <4>3, <4>5 DEF Held, Has, Lacks
      <4> QED
        BY <1>3, <4>1, <4>4, <4>6, CertainNext DEF Orderly
    <3> QED
      BY <3>1, <3>2
  <2>6. AtRest'
    BY <1>1, <1>4, <2>4, <2>5 DEF AtRest, Writing
  <2>7. ReplicaHas'
    BY <2>4 DEF ReplicaHas, At, Replied
  <2> QED
    BY <2>3, <2>5, <2>6, <2>7 DEF Orderly
<1> QED
  BY <1>7, <1>8

\* The replica takes a delete: no member has the key.
LEMMA OrderlyDeleteAtReplica ==
    ASSUME TypeOK, Orderly, nodes # {}, NEW c \in Client, DeleteAtReplica(c)
    PROVE  Orderly'
<1> DEFINE call == [op[c] EXCEPT !.step = "replied", !.value = Absent,
                                 !.target = NoNode, !.replica = NoNode]
<1>1. /\ ~Replied(c) /\ Writing(c) /\ op[c].kind = "delete" /\ op[c].step = "replica"
      /\ UNCHANGED <<nodes, work>>
      /\ store' = Stored(op[c].replica, op[c].key, Absent)
      /\ expected' = [expected EXCEPT ![op[c].key] = {Absent}]
      /\ op' = [op EXCEPT ![c] = call]
  BY DEF DeleteAtReplica, Resumes, At, Replied, Writing, Answer, membership
<1>2. PICK k, p, r : k = op[c].key /\ p = op[c].target /\ r = op[c].replica
  OBVIOUS
<1>3. /\ op[c] \in CallState /\ k \in Key /\ p = Primary(nodes, k)
      /\ op[c].value = Absent /\ r \in Node
      /\ Owners(nodes, k) = {p, r} \ {NoNode}
  BY <1>1, <1>2, CallUnderWay DEF Orderly, CallOK
<1>4. work = <<>> /\ HalfWritten(k, Absent)
  BY <1>1, <1>2, <1>3, MidOfCall
<1>5. call.step = "replied"
  BY <1>3 DEF CallState
<1> HIDE DEF call
<1>6. /\ OneCall' /\ op'[c] = call
      /\ \A b \in Client \ {c} : op'[b] = op[b] /\ Replied(b) /\ Replied(b)'
  BY <1>1, <1>5, CallSteps DEF Orderly
<1>7. \A b \in Client : Replied(b)'
  BY <1>5, <1>6 DEF Replied
<1>8. \A l \in Key : expected'[l] = IF l = k THEN {Absent} ELSE expected[l]
  BY <1>1, <1>2, <1>3 DEF TypeOK
<1>9. \A n \in Node, l \in Key :
         store'[n][l] = IF n = r /\ l = k THEN Absent ELSE store[n][l]
  BY <1>1, <1>2, <1>3 DEF Stored, TypeOK, Entries
<1>10. nodes \in SUBSET Node
  BY DEF TypeOK
<1>11. \A l \in Key \ {k} : Held(nodes, l)'
  BY <1>1, <1>4, <1>8, <1>9, <1>10 DEF HalfWritten, Held, Has, Lacks
<1>12. \A n \in nodes : store'[n][k] = Absent
  BY <1>3, <1>4, <1>9, <1>10 DEF HalfWritten, Lacks
<1>13. Held(nodes, k)'
  BY <1>1, <1>3, <1>8, <1>12 DEF Held, Has, Lacks
<1>14. AtRest'
  BY <1>1, <1>4, <1>7, <1>11, <1>13 DEF AtRest, Writing
<1>15. ReplicaHas'
  BY <1>7 DEF ReplicaHas, At, Replied
<1>16. Certain'
  BY <1>1, <1>2, <1>3, CertainNext DEF Orderly
<1> QED
  BY <1>6, <1>14, <1>15, <1>16 DEF Orderly

-----------------------------------------------------------------------------
(***************************************************************************)
(* The service stays orderly: the background loop and the membership       *)
(***************************************************************************)

\* With a replica write at the head of the loop, in process, the loop can only make it.
LEMMA HeadReplicated ==
    ASSUME ~Http, NEW r, NEW k, NEW v, work[1] = Replication(r, k, v), Background
    PROVE  /\ store' = Stored(r, k, v) /\ work' = RemoveAt(work, 1) /\ 1 \in DOMAIN work
           /\ UNCHANGED <<membership, up, op, pings, budget, ghosts>>
<1>1. /\ ~IsRebalance(work[1]) /\ work[1].kind = "replicate"
      /\ work[1].node = r /\ work[1].key = k /\ work[1].value = v
  BY DEF IsRebalance, Replication
<1>2. PICK i \in DOMAIN work :
        \/ Replicate(i) \/ ReplicateFails(i)
        \/ RebCopyDict(i) \/ RebCopyList(i) \/ RebListNodes(i)
        \/ \E n \in Node : RebSnapshot(i, n) \/ RebSnapshotFails(i, n)
        \/ RebPlan(i) \/ RebRaises(i)
        \/ IsRebalance(work[i]) /\
             \/ \E m \in work[i].moves : RebPut(i, m)
             \/ \E d \in work[i].drops : RebDelete(i, d)
             \/ \E call \in work[i].moves \cup work[i].drops : RebCallFails(i, call)
  BY DEF Background
<1>3. Turn(i)
  BY <1>2 DEF Replicate, ReplicateFails, RebCopyDict, RebCopyList, RebListNodes, RebSnapshot,
     RebSnapshotFails, RebPlan, RebRaises, RebPut, RebDelete, RebCallFails, HasCalls, AtStep
<1>4. i = 1
  BY <1>3 DEF Turn
<1>5. /\ ~RebCopyDict(1) /\ ~RebCopyList(1) /\ ~RebListNodes(1)
      /\ ~RebPlan(1) /\ ~RebRaises(1)
      /\ \A n : ~RebSnapshot(1, n) /\ ~RebSnapshotFails(1, n)
  BY <1>1 DEF RebCopyDict, RebCopyList, RebListNodes, RebPlan, RebRaises, RebSnapshot,
     RebSnapshotFails, AtStep
<1>6. ~ReplicateFails(1)
  BY DEF ReplicateFails, Unreached
<1>7. Replicate(1)
  BY <1>1, <1>2, <1>4, <1>5, <1>6
<1> QED
  BY <1>1, <1>2, <1>4, <1>7 DEF Replicate

\* With a replica write alone on the loop, nothing is left then.
LEMMA OnlyReplication ==
    ASSUME ~Http, NEW r, NEW k, NEW v, work = <<Replication(r, k, v)>>, Background
    PROVE  /\ store' = Stored(r, k, v) /\ work' = <<>>
           /\ UNCHANGED <<membership, up, op, pings, budget, ghosts>>
<1>1. work[1] = Replication(r, k, v) /\ RemoveAt(work, 1) = <<>>
  BY Alone
<1> QED
  BY <1>1, HeadReplicated

\* The replica write is made: the owners have the key.
LEMMA OrderlyReplication ==
    ASSUME ~Http, TypeOK, Orderly, nodes # {}, Replicating, Background
    PROVE  Orderly'
<1>1. PICK k \in Key, v \in Value : /\ work = <<Replication(Replica(nodes, k), k, v)>>
                                    /\ Replica(nodes, k) \in nodes
                                    /\ expected[k] = {v}
                                    /\ HalfWritten(k, v)
  BY DEF Replicating
<1>2. PICK r, p : r = Replica(nodes, k) /\ p = Primary(nodes, k)
  OBVIOUS
<1>3. /\ store' = Stored(r, k, v) /\ work' = <<>>
      /\ UNCHANGED <<nodes, op, expected>>
  BY <1>1, <1>2, OnlyReplication DEF membership, ghosts
<1>4. /\ r \in Node /\ nodes \in SUBSET Node
      /\ Owners(nodes, k) = {p, r} \ {NoNode}
  BY <1>1, <1>2, Routes DEF TypeOK
<1>5. \A n \in Node, l \in Key :
         store'[n][l] = IF n = r /\ l = k THEN v ELSE store[n][l]
  BY <1>3, <1>4 DEF Stored, TypeOK, Entries
<1>6. \A l \in Key \ {k} : Held(nodes, l)'
  BY <1>1, <1>3, <1>4, <1>5 DEF HalfWritten, Held, Has, Lacks
<1>7. Held(nodes, k)'
  <2>1. ASSUME NEW n \in nodes
        PROVE  IF n \in Owners(nodes, k) THEN store'[n][k] = v ELSE store'[n][k] = Absent
    <3>1. n \in Node /\ store'[n][k] = IF n = r THEN v ELSE store[n][k]
      BY <1>4, <1>5
    <3>2. n \in Owners(nodes, k) => n = p \/ n = r
      BY <1>4
    <3>3. store[p][k] = v
      BY <1>1, <1>2 DEF HalfWritten
    <3>4. r \in Owners(nodes, k)
      BY <1>1, <1>2, <1>4, NoNodeAssumption
    <3>5. n \notin Owners(nodes, k) => store[n][k] = Absent
      BY <1>1 DEF HalfWritten, Lacks
    <3> QED
      BY <3>1, <3>2, <3>3, <3>4, <3>5
  <2> QED
    BY <1>1, <1>3, <2>1 DEF Held, Has, Lacks
<1>8. (\A c \in Client : ~Writing(c))' /\ OneCall' /\ Certain'
  BY <1>3 DEF Replicating, Orderly, Writing, Replied, OneCall, Certain
<1>9. AtRest'
  BY <1>3, <1>6, <1>7, <1>8 DEF AtRest
<1>10. ReplicaHas'
  <2>1. \A n \in nodes, l \in Key : Has(n, l) => Has(n, l)'
    BY <1>1, <1>3, <1>4, <1>5 DEF Has
  <2>2. \A c \in Client : op[c].key \in Key
    BY DEF TypeOK, CallState
  <2> QED
    BY <1>3, <2>1, <2>2 DEF Orderly, ReplicaHas, At, Has
<1> QED
  BY <1>8, <1>9, <1>10 DEF Orderly

\* A step of the rebalance: the owners of a key that have it keep it.
LEMMA OrderlyRebalance ==
    ASSUME ~Http, TypeOK, ~Leaving, Orderly, nodes # {}, Reorganising, Background
    PROVE  Orderly'
<1>1. PICK job : work = <<job>> /\ Moving(job)
  BY DEF Reorganising
<1>2. Advanced /\ UNCHANGED <<nodes, op, expected>>
  BY <1>1, RebalanceAdvances DEF Orderly, membership, ghosts
<1>3. (\A c \in Client : ~Writing(c))' /\ OneCall' /\ Certain'
  BY <1>2 DEF Reorganising, Orderly, Writing, Replied, OneCall, Certain
<1>4. (AtRest \/ Reorganising)'
  <2>1. CASE work' = <<>> /\ \A k \in Key : Held(nodes, k)'
    BY <1>3, <2>1 DEF AtRest
  <2>2. CASE \E next \in RebalanceJob : work' = <<next>> /\ Moving(next)'
    <3>1. PICK next \in RebalanceJob : work' = <<next>> /\ Moving(next)'
      BY <2>2
    <3>2. next \in {work'[i] : i \in DOMAIN work'}
      BY <3>1
    <3>3. Reorganising'
      BY <1>3, <3>1, <3>2 DEF Reorganising
    <3> QED
      BY <3>3
  <2> QED
    BY <1>2, <2>1, <2>2 DEF Advanced
<1>5. ReplicaHas'
  <2>1. ASSUME NEW c \in Client, At(c, "get", "replica")
        PROVE  op[c].replica \in nodes /\ Has(op[c].replica, op[c].key)'
    <3>1. PICK k, r : k = op[c].key /\ r = op[c].replica
      OBVIOUS
    <3>2. ~Replied(c) /\ r \in nodes /\ Has(r, k)
      BY <2>1, <3>1 DEF Orderly, ReplicaHas, At, Replied
    <3>3. k \in Key /\ Owners(nodes, k) = {op[c].target, r} \ {NoNode}
      BY <3>1, <3>2, CallUnderWay DEF Orderly
    <3>4. NoNode \notin nodes
      BY NoNodeAssumption DEF TypeOK
    <3>5. r \in Owners(nodes, k)
      BY <3>2, <3>3, <3>4
    <3>6. Has(r, k)'
      BY <1>2, <3>2, <3>3, <3>5 DEF Advanced
    <3> QED
      BY <1>2, <3>1, <3>2, <3>6
  <2> QED
    BY <1>2, <2>1 DEF ReplicaHas, At
<1> QED
  BY <1>3, <1>4, <1>5 DEF Orderly

\* The background loop.
LEMMA OrderlyBackground ==
    ASSUME ~Http, TypeOK, ~Leaving, Orderly, nodes # {}, Background
    PROVE  Orderly'
<1>1. work # <<>>
  BY DEF Background
<1> QED
  BY <1>1, OrderlyReplication, OrderlyRebalance DEF Orderly, AtRest, MidCall

\* Between the calls, with nothing under way, every key is with its owners.
LEMMA QuietAtRest ==
    ASSUME Orderly, Quiet
    PROVE  AtRest
BY RepliedNotWriting DEF Orderly, Quiet, MidCall, Replicating, Reorganising

\* A rebalance is submitted when nothing else is under way: the owners in the ring of
\* M, the members before the change, have the keys.
LEMMA ChangeReorganises ==
    ASSUME Certain, OneCall, \A c \in Client : Replied(c), UNCHANGED <<op, expected>>,
           NEW why \in {"add", "remove"}, NEW M \in SUBSET Node, M # {},
           work' = <<Rebalancing(why, M)>>,
           \/ why = "add" /\ \E n \in Node \ M : nodes' = M \cup {n}
           \/ why = "remove" /\ \E n \in M : nodes' = M \ {n},
           \A k \in Key : Held(M, k)'
    PROVE  Orderly'
<1>1. PICK job : job = Rebalancing(why, M)
  OBVIOUS
<1>2. /\ job.step = "submitted" /\ job.prev = M /\ job.kind = why /\ DOMAIN job.snaps = {}
  BY <1>1 DEF Rebalancing
<1>3. job \in RebalanceJob
  BY <1>1, JobTypes
<1>4. Moving(job)'
  <2>1. ChangeOf(job)'
    BY <1>2 DEF ChangeOf
  <2>2. Deciding(job)'
    BY <1>2, <2>1 DEF Deciding
  <2> QED
    BY <1>3, <2>2 DEF Moving
<1>5. \A c \in Client : Replied(c) /\ Replied(c)'
  BY DEF Replied
<1>6. work' = <<job>> /\ job \in {work'[i] : i \in DOMAIN work'}
  BY <1>1
<1>7. Reorganising'
  BY <1>4, <1>5, <1>6 DEF Reorganising, Writing
<1>8. OneCall' /\ ReplicaHas'
  BY <1>5 DEF OneCall, ReplicaHas, At, Replied
<1>9. Certain'
  BY DEF Certain
<1> QED
  BY <1>7, <1>8, <1>9 DEF Orderly

\* A node joins.  It has nothing, and it was no owner of a key before.
LEMMA OrderlyJoin ==
    ASSUME Waiting, TypeOK, ~Leaving, Orderly, nodes # {}, NEW n \in Node, AddNode(n)
    PROVE  ~Leaving' /\ Orderly'
<1>1. /\ Quiet /\ work = <<>> /\ n \notin nodes /\ nodes' = nodes \cup {n} /\ ~Leaving'
      /\ store' = [store EXCEPT ![n] = Empty] /\ UNCHANGED <<op, expected>>
      /\ work' = <<Rebalancing("add", nodes)>>
  BY DEF AddNode, ChangesWait, Waiting, Quiet, Leaving, ghosts
<1>2. nodes \in SUBSET Node /\ store \in [Node -> Entries]
  BY DEF TypeOK
<1>3. \A k \in Key : Held(nodes, k)
  BY <1>1, QuietAtRest DEF AtRest
<1>4. \A k \in Key : Owners(nodes, k) \subseteq nodes
  BY <1>2, Routes
<1>5. PICK M : M = nodes
  OBVIOUS
<1>6. ASSUME NEW k \in Key, NEW m \in nodes'
      PROVE  IF m \in Owners(M, k) THEN Has(m, k)' ELSE Lacks(m, k)'
  <2>1. CASE m = n
    <3>1. store'[m][k] = Absent
      BY <1>1, <1>2, <2>1 DEF Empty
    <3>2. m \notin Owners(M, k)
      BY <1>1, <1>4, <1>5, <2>1
    <3> QED
      BY <3>1, <3>2 DEF Lacks
  <2>2. CASE m # n
    <3>1. m \in nodes /\ store'[m][k] = store[m][k]
      BY <1>1, <1>2, <2>2
    <3> QED
      BY <1>1, <1>3, <1>5, <3>1 DEF Held, Has, Lacks
  <2> QED
    BY <2>1, <2>2
<1>7. \A k \in Key : Held(M, k)'
  BY <1>6 DEF Held
<1>8. Orderly'
  BY <1>1, <1>2, <1>5, <1>7, ChangeReorganises DEF Orderly, Quiet
<1> QED
  BY <1>1, <1>8

\* A node starts to leave.
LEMMA LeaveBegins ==
    ASSUME Waiting, TypeOK, ~Leaving, Orderly, NEW n \in Node, RemoveNode(n)
    PROVE  Leaving' /\ MidLeave'
<1>1. /\ Quiet /\ work = <<>> /\ n \in nodes /\ nodes' = nodes \ {n} /\ listed = nodes
      /\ UNCHANGED <<listed, store, op, work, expected>>
  BY DEF RemoveNode, ChangesWait, Waiting, Quiet, Leaving, ghosts
<1>2. Leaving'
  BY <1>1 DEF Leaving
<1>3. \A k \in Key : Held(nodes, k)
  BY <1>1, QuietAtRest DEF AtRest
<1>4. \A k \in Key : Held(listed, k)'
  BY <1>1, <1>3 DEF Held, Has, Lacks
<1>5. \A c \in Client : Replied(c)'
  BY <1>1 DEF Quiet, Replied
<1>6. Certain'
  BY <1>1 DEF Orderly, Certain
<1> QED
  BY <1>1, <1>2, <1>4, <1>5, <1>6 DEF MidLeave

\* It has left, and its rebalance is submitted.
LEMMA LeaveEnds ==
    ASSUME TypeOK, MidLeave, nodes # {}, SortKeys
    PROVE  ~Leaving' /\ Orderly'
<1>1. /\ work' = <<Rebalancing("remove", listed)>> /\ listed' = nodes
      /\ UNCHANGED <<nodes, store, op, expected>>
  BY DEF SortKeys, MidLeave, ghosts
<1>2. PICK M : M = listed
  OBVIOUS
<1>3. M \in SUBSET Node /\ M # {} /\ \E n \in M : nodes' = M \ {n}
  BY <1>1, <1>2 DEF MidLeave, TypeOK
<1>4. \A k \in Key : Held(M, k)'
  BY <1>1, <1>2 DEF MidLeave, Held, Has, Lacks
<1>5. Orderly'
  <2>1. OneCall
    BY DEF MidLeave, OneCall
  <2> QED
    BY <1>1, <1>2, <1>3, <1>4, <2>1, ChangeReorganises DEF MidLeave
<1> QED
  BY <1>1, <1>5 DEF Leaving

\* No other step changes the ring.
LEMMA RingStays ==
    ASSUME [Next]_vars, ~SortKeys, \A n \in Node : ~AddNode(n) /\ ~RemoveNode(n)
    PROVE  UNCHANGED <<nodes, listed>>
BY DEF Next, vars, membership, Begin, BeginGet, BeginDelete, BeginPut, Call, PutAtTarget,
   PutReply, GetAtTarget, GetAtReplica, DeleteAtTarget, DeleteAtReplica, CallFails,
   Background, Replicate, ReplicateFails, RebCopyDict, RebCopyList, RebListNodes,
   RebSnapshot, RebSnapshotFails, RebPlan, RebRaises, RebPut, RebDelete, RebCallFails,
   Ping, Pong, PingFails, Expire, Crash, Restart, Forget

-----------------------------------------------------------------------------
(***************************************************************************)
(* The stages as an invariant                                              *)
(***************************************************************************)

\* At the start no key is put, and none has an entry.
LEMMA SettledInit ==
    ASSUME Waiting, Init
    PROVE  SettledInv
<1>1. \A n \in Node, k \in Key : store[n][k] = Absent
  BY DEF Init, Empty
<1>2. \A k \in Key : Absent \in expected[k] /\ expected[k] = {Absent}
  BY DEF Init
<1>3. \A k \in Key : Held(nodes, k)
  BY <1>1, <1>2, ServiceAssumption DEF Init, Held, Has, Lacks
<1>4. \A c \in Client : Replied(c)
  BY DEF Init, Replied, Idle
<1>5. AtRest
  BY <1>3, <1>4 DEF AtRest, Init, Writing
<1>6. OneCall /\ ReplicaHas
  BY <1>4 DEF OneCall, ReplicaHas, At, Replied
<1>7. Certain
  BY <1>2 DEF Certain
<1>8. AllWell
  BY ServiceAssumption DEF Init, AllWell, Alive, Waiting
<1>9. ~Leaving
  BY DEF Init, Leaving
<1> QED
  BY <1>5, <1>6, <1>7, <1>8, <1>9 DEF SettledInv, Orderly

\* Every step between the changes keeps to the stages, as long as there are members.
LEMMA OrderlyNext ==
    ASSUME Waiting, TypeOK, AllWell, ~Leaving, Orderly, nodes # {}, [Next]_vars,
           \A n \in Node : ~AddNode(n) /\ ~RemoveNode(n)
    PROVE  Orderly'
<1>1. ~Http /\ \A n : ~Unreached(n)
  BY DEF Waiting, Unreached
<1>2. ASSUME NEW c \in Client, NEW k \in Key,
             BeginGet(c, k) \/ BeginDelete(c, k) \/ \E v \in Value : BeginPut(c, k, v)
      PROVE  Orderly'
  <2>1. CASE BeginGet(c, k)
    BY <2>1, OrderlyBegin DEF BeginGet
  <2>2. CASE BeginDelete(c, k)
    BY <2>2, OrderlyBegin DEF BeginDelete
  <2>3. ASSUME NEW v \in Value, BeginPut(c, k, v) PROVE Orderly'
    BY <2>3, OrderlyBegin DEF BeginPut
  <2> QED
    BY <1>2, <2>1, <2>2, <2>3
<1>3. ASSUME NEW c \in Client, Call(c) PROVE Orderly'
  <2>1. ~CallFails(c)
    BY <1>1 DEF CallFails
  <2> QED
    BY <1>3, <2>1, OrderlyPutAtTarget, OrderlyPutReply, OrderlyGetAtTarget,
       OrderlyGetAtReplica, OrderlyDeleteAtTarget, OrderlyDeleteAtReplica DEF Call
<1>4. ASSUME Background PROVE Orderly'
  BY <1>1, <1>4, OrderlyBackground
<1>5. ASSUME NEW n \in Node, Ping(n) \/ Pong(n) \/ PingFails(n) PROVE Orderly'
  BY <1>1, <1>5, OrderlyFrame DEF Ping, Pong, PingFails, membership, ghosts
<1>6. ASSUME NEW n \in Node,
             Expire(n) \/ Crash(n) \/ Restart(n) \/ \E k \in Key : Forget(n, k)
      PROVE  Orderly'
  BY <1>6 DEF Expire, Crash, Restart, Forget, Spend, AllWell, Waiting
<1>7. ~SortKeys
  BY DEF SortKeys
<1>8. ASSUME UNCHANGED vars PROVE Orderly'
  <2>1. UNCHANGED <<nodes, store, op, work, expected>>
    BY <1>8 DEF vars
  <2> QED
    BY <2>1, OrderlyFrame
<1> QED
  BY <1>2, <1>3, <1>4, <1>5, <1>6, <1>7, <1>8 DEF Next

\* In the middle of a leave the caller's loop does nothing else, and the background
\* loop has nothing to do.
LEMMA OnlyTheLeave ==
    ASSUME Waiting, TypeOK, AllWell, Leaving, MidLeave, [Next]_vars
    PROVE  SortKeys \/ UNCHANGED <<nodes, listed, store, op, work, expected>>
<1>1. ~Http /\ ~CallerFree /\ \A n : ~Unreached(n)
  BY DEF Waiting, Unreached, CallerFree
<1>2. \A c \in Client, k \in Key :
         ~BeginGet(c, k) /\ ~BeginDelete(c, k) /\ \A v \in Value : ~BeginPut(c, k, v)
  BY <1>1 DEF BeginGet, BeginDelete, BeginPut, Begin
<1>3. \A c \in Client : ~Call(c)
  BY DEF MidLeave, Replied, Call, PutAtTarget, PutReply, GetAtTarget, GetAtReplica,
     DeleteAtTarget, DeleteAtReplica, CallFails, Resumes, At
<1>4. ~Background
  BY DEF MidLeave, Background
<1>5. \A n \in Node : ~Ping(n) /\ ~Pong(n) /\ ~PingFails(n) /\ ~AddNode(n) /\ ~RemoveNode(n)
  BY <1>1 DEF Ping, Pong, PingFails, AddNode, RemoveNode
<1>6. \A n \in Node : ~Expire(n) /\ ~Crash(n) /\ ~Restart(n) /\ \A k \in Key : ~Forget(n, k)
  BY DEF Expire, Crash, Restart, Forget, Spend, AllWell, Waiting
<1> QED
  BY <1>2, <1>3, <1>4, <1>5, <1>6 DEF Next, vars

\* Every step keeps to the stages, as long as there are members.
LEMMA SettledNext ==
    ASSUME Waiting, TypeOK, HeartbeatsOnlyForMembers, SettledInv, nodes # {}, [Next]_vars
    PROVE  SettledInv'
<1>1. AllWell /\ AllWell'
  BY WellNext DEF SettledInv
<1>2. CASE ~Leaving
  <2>1. Orderly
    BY <1>2 DEF SettledInv
  <2>2. ASSUME NEW n \in Node, AddNode(n) PROVE SettledInv'
    BY <1>1, <1>2, <2>1, <2>2, OrderlyJoin DEF SettledInv
  <2>3. ASSUME NEW n \in Node, RemoveNode(n) PROVE SettledInv'
    BY <1>1, <1>2, <2>1, <2>3, LeaveBegins DEF SettledInv
  <2>4. CASE \A n \in Node : ~AddNode(n) /\ ~RemoveNode(n)
    <3>1. Orderly'
      BY <1>1, <1>2, <2>1, <2>4, OrderlyNext
    <3>2. ~SortKeys
      BY <1>2 DEF SortKeys
    <3>3. ~Leaving'
      BY <1>2, <2>4, <3>2, RingStays DEF Leaving
    <3> QED
      BY <1>1, <3>1, <3>3 DEF SettledInv
  <2> QED
    BY <2>2, <2>3, <2>4
<1>3. CASE Leaving
  <2>1. MidLeave
    BY <1>3 DEF SettledInv
  <2>2. CASE SortKeys
    BY <1>1, <2>1, <2>2, LeaveEnds DEF SettledInv
  <2>3. CASE UNCHANGED <<nodes, listed, store, op, work, expected>>
    <3>1. Leaving'
      BY <1>3, <2>3 DEF Leaving
    <3>2. MidLeave'
      BY <2>1, <2>3 DEF MidLeave, Certain, Replied, Held, Has, Lacks
    <3> QED
      BY <1>1, <3>1, <3>2 DEF SettledInv
  <2> QED
    BY <1>1, <1>3, <2>1, <2>2, <2>3, OnlyTheLeave
<1> QED
  BY <1>2, <1>3

\* The invariant of the settled service, as long as it has a member: when the last one
\* leaves, the entries are gone, and a node that joins then starts from nothing.
LEMMA Settles ==
    ASSUME Waiting
    PROVE  Spec /\ [](nodes # {}) => [](TypeOK /\ SettledInv)
<1>1. Init => SettledInv
  BY SettledInit
<1>2. TypeOK /\ HeartbeatsOnlyForMembers /\ SettledInv /\ nodes # {} /\ [Next]_vars
         => SettledInv'
  BY SettledNext
<1> QED
  BY <1>1, <1>2, TypeCorrect, HeartbeatsStayWithMembers, PTL DEF Spec

-----------------------------------------------------------------------------
(***************************************************************************)
(* What the callers see                                                    *)
(***************************************************************************)

\* When nothing is under way, exactly the owners of a key hold it, with the value of the
\* last acknowledged put: any number of joins and leaves moved every key to where the
\* ring looks for it and left no copy behind (_rebalance_after_add,
\* _rebalance_after_remove, put, delete), for callers that wait for each other's
\* background work and as long as one node is a member.
THEOREM OwnersHoldWhatWasAcked ==
    ASSUME Waiting
    PROVE  Spec /\ [](nodes # {}) => []OwnersHoldAcked
<1>1. SettledInv => OwnersHoldAcked
  <2> SUFFICES ASSUME SettledInv, Quiet, NEW k \in Key, NEW n \in nodes
               PROVE  IF n \in Owners(nodes, k) THEN store[n][k] \in expected[k]
                                                ELSE store[n][k] = Absent
    BY DEF OwnersHoldAcked
  <2>1. Held(nodes, k)
    BY QuietAtRest DEF SettledInv, Quiet, AtRest
  <2> QED
    BY <2>1 DEF Held, Has, Lacks
<1> QED
  BY <1>1, Settles, PTL

\* When nothing is under way, a key that was put and not deleted is held by its
\* primary, with its latest value, after any number of joins and leaves (put,
\* add_node, remove_node).
THEOREM AckedStaysWithPrimary ==
    ASSUME Waiting
    PROVE  Spec /\ [](nodes # {}) => []AckedIsDurable
<1>1. TypeOK /\ SettledInv => AckedIsDurable
  <2> SUFFICES ASSUME TypeOK, SettledInv, Quiet, nodes # {}, NEW k \in Key
               PROVE  store[Primary(nodes, k)][k] \in expected[k]
    BY DEF AckedIsDurable
  <2>1. Held(nodes, k)
    BY QuietAtRest DEF SettledInv, Quiet, AtRest
  <2>2. Primary(nodes, k) \in nodes /\ Primary(nodes, k) \in Owners(nodes, k)
    BY Routes DEF TypeOK
  <2> QED
    BY <2>1, <2>2 DEF Held, Has
<1> QED
  BY <1>1, Settles, PTL

\* More than two members are three.
LEMMA ThreeCounted ==
    ASSUME NEW S, IsFiniteSet(S), Cardinality(S) > 2
    PROVE  \E x, y, z \in S : x # y /\ y # z /\ x # z
<1>1. Cardinality(S) \in Nat /\ S # {}
  BY FS_CardinalityType, FS_EmptySet
<1>2. PICK x \in S : TRUE
  BY <1>1
<1> DEFINE T == S \ {x}
<1>3. IsFiniteSet(T) /\ Cardinality(T) = Cardinality(S) - 1
  BY <1>2, FS_RemoveElement
<1>4. T # {}
  BY <1>1, <1>3, FS_EmptySet
<1>5. PICK y \in T : TRUE
  BY <1>4
<1> DEFINE U == T \ {y}
<1>6. IsFiniteSet(U) /\ Cardinality(U) = Cardinality(T) - 1
  BY <1>3, <1>5, FS_RemoveElement
<1>7. U # {}
  BY <1>1, <1>3, <1>6, FS_EmptySet
<1>8. PICK z \in U : TRUE
  BY <1>7
<1> QED
  BY <1>2, <1>5, <1>8

\* Two members of a finite set count for two.
LEMMA TwoCount ==
    ASSUME NEW S, IsFiniteSet(S), NEW x \in S, NEW y \in S, x # y
    PROVE  Cardinality(S) >= 2
<1> DEFINE T == S \ {x}
<1>1. IsFiniteSet(T) /\ Cardinality(T) = Cardinality(S) - 1 /\ Cardinality(S) \in Nat
  BY FS_RemoveElement, FS_CardinalityType
<1>2. y \in T
  OBVIOUS
<1>3. Cardinality(T) # 0 /\ Cardinality(T) \in Nat
  BY <1>1, <1>2, FS_EmptySet, FS_CardinalityType
<1> QED
  BY <1>1, <1>3

\* A step changes the membership by at most one node.
LEMMA NodesNext ==
    ASSUME [Next]_vars
    PROVE  \/ UNCHANGED nodes
           \/ \E n \in Node : nodes' = nodes \cup {n} \/ nodes' = nodes \ {n}
BY RingStays DEF AddNode, RemoveNode, SortKeys

\* The members stay finitely many.
LEMMA FinitelyManyNodes ==
    ASSUME IsFiniteSet(InitialNodes)
    PROVE  Spec => []IsFiniteSet(nodes)
<1>1. Init => IsFiniteSet(nodes)
  BY DEF Init
<1>2. IsFiniteSet(nodes) /\ [Next]_vars => IsFiniteSet(nodes)'
  <2> SUFFICES ASSUME IsFiniteSet(nodes), [Next]_vars PROVE IsFiniteSet(nodes')
    OBVIOUS
  <2> QED
    BY NodesNext, FS_AddElement, FS_RemoveElement
<1> QED
  BY <1>1, <1>2, PTL DEF Spec

\* While a rebalance after a join is under way, and nothing else, a key that was put and
\* not deleted never has fewer copies than the two it had before: the gather makes the
\* new copies before it deletes the old ones (_rebalance_after_add).
THEOREM JoinsNeverThinOut ==
    ASSUME Waiting, IsFiniteSet(InitialNodes)
    PROVE  Spec /\ [](nodes # {}) => []JoinsKeepTwoCopies
<1>1. TypeOK /\ SettledInv /\ IsFiniteSet(nodes) /\ nodes # {} => JoinsKeepTwoCopies
  <2> SUFFICES ASSUME TypeOK, SettledInv, IsFiniteSet(nodes), nodes # {},
                      Len(work) = 1, work[1].kind = "add", Cardinality(nodes) > 2,
                      \A c \in Client : Replied(c), NEW k \in Key, Absent \notin expected[k]
               PROVE  Cardinality({n \in nodes : store[n][k] \in expected[k]}) >= 2
    BY DEF JoinsKeepTwoCopies
  <2> DEFINE holders == {n \in nodes : store[n][k] \in expected[k]}
  <2>1. work # <<>> /\ \A r : \A l \in Key, v \in Value : work # <<Replication(r, l, v)>>
    BY DEF Replication
  <2>2. Certain /\ Reorganising
    BY <2>1 DEF SettledInv, MidLeave, Orderly, AtRest, MidCall, Replicating
  <2>3. PICK job : work = <<job>> /\ Moving(job)
    BY <2>2 DEF Reorganising
  <2>4. job.kind = "add"
    BY <2>3
  <2>5. ThreeMembers
    BY ThreeCounted DEF ThreeMembers
  <2>6. TwoHave(k)
    BY <2>3, <2>4, <2>5, DecidingTwoHave DEF Moving, Gathering
  <2>7. PICK x, y \in nodes : x # y /\ Has(x, k) /\ Has(y, k)
    BY <2>6 DEF TwoHave
  <2>8. IsFiniteSet(holders)
    BY FS_Subset
  <2>9. x \in holders /\ y \in holders
    BY <2>7 DEF Has
  <2> QED
    BY <2>7, <2>8, <2>9, TwoCount
<1> QED
  BY <1>1, Settles, FinitelyManyNodes, PTL

\* One step of the only client, or of anything else, answers no get with another value
\* than the key may have, and makes no answer given a wrong one.
LEMMA GetsNext ==
    ASSUME Waiting, \A b, c \in Client : b = c, TypeOK, SettledInv, nodes # {},
           GetsLatestAck, [Next]_vars
    PROVE  GetsLatestAck'
<1>1. AllWell /\ ((Orderly /\ OneCall) \/ \A b \in Client : Replied(b))
  BY DEF SettledInv, MidLeave, Orderly
<1>2. \A n : ~Unreached(n)
  BY DEF Waiting, Unreached
<1> SUFFICES ASSUME NEW c \in Client, op'[c].kind = "get", op'[c].step = "replied"
             PROVE  op'[c].value \in expected'[op'[c].key]
  BY DEF GetsLatestAck, At
<1>3. ASSUME op'[c] = op[c], expected' = expected
      PROVE  op'[c].value \in expected'[op'[c].key]
  BY <1>3 DEF GetsLatestAck, At
<1>4. op[c] \in CallState
  BY DEF TypeOK
<1>5. ASSUME NEW b \in Client, NEW k \in Key,
             BeginGet(b, k) \/ BeginDelete(b, k) \/ \E v \in Value : BeginPut(b, k, v)
      PROVE  FALSE
  <2>1. PICK kind, v : Begin(c, kind, k, v)
    BY <1>5 DEF BeginGet, BeginDelete, BeginPut
  <2>2. op'[c].step = "target"
    BY <2>1 DEF Begin, TypeOK
  <2> QED
    BY <2>2
<1>6. ASSUME NEW b \in Client, Call(b) PROVE op'[c].value \in expected'[op'[c].key]
  <2>1. Call(c) /\ ~CallFails(c)
    BY <1>2, <1>6 DEF CallFails
  <2>6. Orderly /\ OneCall
    <3>1. ~Replied(c)
      BY <2>1 DEF Replied, Call, PutAtTarget, PutReply, GetAtTarget, GetAtReplica,
         DeleteAtTarget, DeleteAtReplica, Resumes, At
    <3> QED
      BY <1>1, <3>1
  <2>2. CASE PutAtTarget(c) \/ PutReply(c) \/ DeleteAtTarget(c) \/ DeleteAtReplica(c)
    <3>1. op[c].kind # "get"
      BY <2>2 DEF PutAtTarget, PutReply, DeleteAtTarget, DeleteAtReplica, Resumes, At
    <3>2. PICK v : Goto(c, "applied") \/ Goto(c, "replica") \/ Answer(c, v)
      BY <2>2 DEF PutAtTarget, PutReply, DeleteAtTarget, DeleteAtReplica
    <3>3. op'[c].kind = op[c].kind
      <4>1. \A step : Goto(c, step) => op'[c].kind = op[c].kind
        BY <1>4 DEF Goto, TypeOK, CallState
      <4>2. Answer(c, v) => op'[c].kind = op[c].kind
        BY <1>4 DEF Answer, TypeOK, CallState
      <4> QED
        BY <3>2, <4>1, <4>2
    <3> QED
      BY <3>1, <3>3
  <2>3. ASSUME NEW v, Answer(c, v)
        PROVE  op'[c].value = v /\ op'[c].key = op[c].key
    BY <1>4, <2>3 DEF Answer, TypeOK, CallState
  <2>4. CASE GetAtTarget(c)
    <3>1. PICK k, p, r : k = op[c].key /\ p = op[c].target /\ r = op[c].replica
      OBVIOUS
    <3>2. /\ ~Replied(c) /\ Answer(c, store[p][k]) /\ expected' = expected
          /\ store[p][k] = Absent => ~ReplicaUsable(c)
      <4>1. ~Goto(c, "replica")
        BY <1>4 DEF Goto, TypeOK, CallState
      <4> QED
        BY <2>4, <3>1, <4>1 DEF GetAtTarget, Resumes, At, Replied, ghosts
    <3>3. k \in Key /\ p = Primary(nodes, k) /\ r = Replica(nodes, k)
      BY <2>6, <3>1, <3>2, CallUnderWay
    <3>4. ~MidCall
      BY <2>4 DEF MidCall, Writing, GetAtTarget, Resumes, At
    <3>5. Has(p, k)
      <4>1. Has(p, k) \/ Lacks(p, k)
        BY <2>6, <3>3, <3>4, Readable
      <4>2. CASE Lacks(p, k)
        <5>1. r = NoNode
          BY <1>1, <2>6, <3>1, <3>2, <4>2, ReplicaOfUse DEF Lacks
        <5> QED
          BY <2>6, <3>3, <3>4, <4>2, <5>1, Readable
      <4> QED
        BY <4>1, <4>2
    <3> QED
      BY <2>3, <3>1, <3>2, <3>5 DEF Has
  <2>5. CASE GetAtReplica(c)
    <3>1. Has(op[c].replica, op[c].key)
      BY <2>5, <2>6 DEF Orderly, ReplicaHas, GetAtReplica, Resumes
    <3>2. Answer(c, store[op[c].replica][op[c].key]) /\ expected' = expected
      BY <2>5 DEF GetAtReplica, ghosts
    <3> QED
      BY <2>3, <3>1, <3>2 DEF Has
  <2> QED
    BY <2>1, <2>2, <2>4, <2>5 DEF Call
<1>7. CASE Background
  BY <1>3, <1>7 DEF Background, Replicate, ReplicateFails, RebCopyDict, RebCopyList,
     RebListNodes, RebSnapshot, RebSnapshotFails, RebPlan, RebRaises, RebPut, RebDelete,
     RebCallFails, ghosts
<1>8. ASSUME NEW n \in Node,
             \/ Ping(n) \/ Pong(n) \/ PingFails(n) \/ AddNode(n) \/ RemoveNode(n)
             \/ Expire(n) \/ Crash(n) \/ Restart(n) \/ \E k \in Key : Forget(n, k)
      PROVE  op'[c].value \in expected'[op'[c].key]
  BY <1>3, <1>8 DEF Ping, Pong, PingFails, AddNode, RemoveNode, Expire, Crash, Restart, Forget,
     ghosts
<1>9. CASE UNCHANGED vars
  BY <1>3, <1>9 DEF vars
<1>10. CASE SortKeys
  BY <1>3, <1>10 DEF SortKeys, ghosts
<1> QED
  BY <1>5, <1>6, <1>7, <1>8, <1>9, <1>10 DEF Next

\* A get answers with what the last acknowledged put or delete of the key left, in the
\* middle of a rebalance as well: a primary that has not got the key yet has a replica
\* that has (get).  For one client.
THEOREM GetsAnswerWithLatest ==
    ASSUME Waiting, \A b, c \in Client : b = c
    PROVE  Spec /\ [](nodes # {}) => []GetsLatestAck
<1>1. Init => GetsLatestAck
  BY DEF Init, GetsLatestAck, At, Idle
<1>2. TypeOK /\ SettledInv /\ nodes # {} /\ GetsLatestAck /\ [Next]_vars => GetsLatestAck'
  BY GetsNext
<1> QED
  BY <1>1, <1>2, Settles, PTL DEF Spec

=============================================================================
