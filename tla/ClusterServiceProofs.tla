------------------------- MODULE ClusterServiceProofs -------------------------
(***************************************************************************)
(* Invariants of the service for every number of nodes, keys, values and   *)
(* clients, every placement on the ring, both transports, any discipline   *)
(* of the callers, and any number of faults.                               *)
(***************************************************************************)
EXTENDS ClusterService, RingProofs, SequenceTheorems

Job == ReplicaWrite \cup RebalanceJob

-----------------------------------------------------------------------------
(***************************************************************************)
(* The sequence of coroutines.  J is Job, or a set of jobs with a property *)
(* that an invariant is about.                                             *)
(***************************************************************************)

\* Taking an element out of a sequence adds nothing to it.
LEMMA RemoveAtType ==
    ASSUME NEW J, NEW s \in Seq(J), NEW i \in DOMAIN s
    PROVE  RemoveAt(s, i) \in Seq(J)
<1>1. Len(s) \in Nat /\ i \in 1 .. Len(s)
  BY LenProperties
<1>2. SubSeq(s, 1, i - 1) \in Seq(J)
  <2>1. \A x \in 1 .. i - 1 : s[x] \in J
    BY <1>1, ElementOfSeq
  <2> QED
    BY <1>1, <2>1, SubSeqProperties
<1>3. SubSeq(s, i + 1, Len(s)) \in Seq(J)
  <2>1. \A x \in i + 1 .. Len(s) : s[x] \in J
    BY <1>1, ElementOfSeq
  <2> QED
    BY <1>1, <2>1, SubSeqProperties
<1> QED
  BY <1>2, <1>3, ConcatProperties DEF RemoveAt

\* Nor does putting in an element of the set.
LEMMA InsertAtType ==
    ASSUME NEW J, NEW s \in Seq(J), NEW i \in 1 .. Len(s) + 1, NEW e \in J
    PROVE  InsertAt(s, i, e) \in Seq(J)
<1>1. Len(s) \in Nat /\ i \in Int
  BY LenProperties
<1>2. SubSeq(s, 1, i - 1) \in Seq(J)
  <2>1. \A x \in 1 .. i - 1 : s[x] \in J
    BY <1>1, ElementOfSeq
  <2> QED
    BY <1>1, <2>1, SubSeqProperties
<1>3. SubSeq(s, i, Len(s)) \in Seq(J)
  <2>1. \A x \in i .. Len(s) : s[x] \in J
    BY <1>1, ElementOfSeq
  <2> QED
    BY <1>1, <2>1, SubSeqProperties
<1>4. SubSeq(s, 1, i - 1) \o <<e>> \in Seq(J)
  BY <1>2, ConcatProperties
<1> QED
  BY <1>3, <1>4, ConcatProperties DEF InsertAt

\* The other coroutines.
LEMMA TailType ==
    ASSUME NEW J, NEW s \in Seq(J), NEW i \in DOMAIN s
    PROVE  /\ Tail(s) \in Seq(J)
           /\ \A p \in 2 .. Len(s) : p \in 1 .. Len(Tail(s)) + 1
<1>1. Len(s) \in Nat /\ i \in 1 .. Len(s)
  BY LenProperties
<1>2. s # <<>>
  BY <1>1
<1>3. Tail(s) \in Seq(J) /\ Len(Tail(s)) = Len(s) - 1
  BY <1>2, HeadTailProperties
<1> QED
  BY <1>1, <1>3

\* A coroutine that goes on, or that ends.
LEMMA UpdateType ==
    ASSUME NEW J, work \in Seq(J), NEW i \in DOMAIN work, NEW job \in J, Update(i, job)
    PROVE  work' \in Seq(J)
<1>1. [work EXCEPT ![i] = job] \in Seq(J)
  BY LenProperties, ExceptSeq
<1> QED
  BY <1>1, RemoveAtType DEF Update

-----------------------------------------------------------------------------
(***************************************************************************)
(* Type correctness                                                        *)
(***************************************************************************)

\* The lookups of the service are those of module Ring.
LEMMA ServicePlaced == Placed(Placement) /\ \A k \in Key : KeyHash[k] \in Nat
BY PlacementAssumption, KeyHashAssumption DEF Placed

\* Where a key may be copied from, its value was found.
LEMMA SourcesAreHolders ==
    ASSUME NEW why, NEW prev, NEW current, NEW snaps, NEW alive, NEW k
    PROVE  Sources(why, prev, current, snaps, alive, k) \subseteq Holders(snaps, k)
BY DEF Sources

\* The lookups answer nodes.
LEMMA RoutesAreNodes ==
    ASSUME NEW M \in SUBSET Node, NEW k \in Key
    PROVE  /\ Primary(M, k) \in Node \cup {NoNode}
           /\ Replica(M, k) \in Node \cup {NoNode}
           /\ Owners(M, k) \subseteq M
<1>1. Placed(Placement) /\ KeyHash[k] \in Nat
  BY PlacementAssumption, KeyHashAssumption DEF Placed
<1>2. Primary(M, k) \in Node \cup {NoNode}
  BY <1>1, NodeAtIsMember DEF Primary
<1>3. Owners(M, k) \subseteq M
  BY <1>1, OwnersAreMembers DEF Owners
<1>4. Replica(M, k) \in Node \cup {NoNode}
  BY <1>3 DEF Owners, Replica, OwnersAt
<1> QED
  BY <1>2, <1>3, <1>4

\* Storing a value for a key keeps the type of the stores.
LEMMA StoredType ==
    ASSUME store \in [Node -> Entries], NEW n \in Node, NEW k \in Key,
           NEW v \in Value \cup {Absent}
    PROVE  Stored(n, k, v) \in [Node -> Entries]
BY DEF Stored, Entries

\* Recording a heartbeat keeps the type of the liveness table.
LEMMA RecordedType ==
    ASSUME last_heartbeat \in [Node -> {"none", "fresh", "stale"}], NEW n \in Node
    PROVE  Recorded(n) \in [Node -> {"none", "fresh", "stale"}]
BY DEF Recorded

\* A bounded event keeps the type of the budget.
LEMMA SpendType ==
    ASSUME budget \in [Limited -> Nat], NEW event \in Limited, Spend(event)
    PROVE  budget' \in [Limited -> Nat]
<1>1. budget[event] \in Nat /\ budget[event] > 0
  BY DEF Spend
<1>2. budget[event] - 1 \in Nat
  BY <1>1
<1> QED
  BY <1>2 DEF Spend

\* So does a transport call that does not get through.
LEMMA UnreachedType ==
    ASSUME budget \in [Limited -> Nat], NEW n, Unreached(n)
    PROVE  budget' \in [Limited -> Nat]
<1>1. "fault" \in Limited
  BY DEF Limited
<1> QED
  BY <1>1, SpendType DEF Unreached

\* A client that has not called yet is in a proper state.
LEMMA IdleOK == CallOK(Idle)
<1>1. (CHOOSE k \in Key : TRUE) \in Key
  BY ServiceAssumption
<1> QED
  BY <1>1 DEF CallOK, CallState, Idle

\* A call replaced by a proper one.
LEMMA CallType ==
    ASSUME op \in [Client -> CallState], \A b \in Client : CallOK(op[b]),
           NEW c \in Client, NEW call, CallOK(call), op' = [op EXCEPT ![c] = call]
    PROVE  op' \in [Client -> CallState] /\ \A b \in Client : CallOK(op'[b])
BY DEF CallOK

\* A call that has its answer.
LEMMA AnswerType ==
    ASSUME op \in [Client -> CallState], \A b \in Client : CallOK(op[b]),
           NEW c \in Client, NEW v \in Value \cup {Absent}, Answer(c, v)
    PROVE  op' \in [Client -> CallState] /\ \A b \in Client : CallOK(op'[b])
<1> DEFINE call == [op[c] EXCEPT !.step = "replied", !.value = v,
                                 !.target = NoNode, !.replica = NoNode]
<1>1. op[c] \in CallState
  OBVIOUS
<1>2. CallOK(call)
  BY <1>1 DEF CallOK, CallState
<1>3. op' = [op EXCEPT ![c] = call]
  BY DEF Answer
<1> QED
  BY <1>2, <1>3, CallType

\* What a rebalance has collected, with one more answer.
LEMMA AnsweredType ==
    ASSUME NEW snaps \in Snapshots, NEW n \in Node, NEW entries \in Entries
    PROVE  Answered(snaps, n, entries) \in Snapshots
<1>1. PICK S \in SUBSET Node : snaps \in [S -> Entries]
  BY DEF Snapshots
<1>2. Answered(snaps, n, entries) \in [S \cup {n} -> Entries]
  BY <1>1 DEF Answered
<1> QED
  BY <1>2 DEF Snapshots

\* Jobs as they are submitted, and what starting and asking makes of them.
LEMMA JobTypes ==
    /\ \A n \in Node, k \in Key, v \in Value : Replication(n, k, v) \in Job
    /\ \A why \in {"add", "remove"}, M \in SUBSET Node : Rebalancing(why, M) \in RebalanceJob
    /\ \A j \in Job : IsRebalance(j) => j \in RebalanceJob
    /\ \A j \in Job : j.kind = "replicate" => j \in ReplicaWrite
<1>1. [n \in {} |-> Empty] \in Snapshots
  <2>1. [n \in {} |-> Empty] \in [{} -> Entries]
    OBVIOUS
  <2> QED
    BY <2>1 DEF Snapshots
<1>2. \A n \in Node, k \in Key, v \in Value : Replication(n, k, v) \in ReplicaWrite
  BY DEF Replication, ReplicaWrite
<1>3. \A why \in {"add", "remove"}, M \in SUBSET Node : Rebalancing(why, M) \in RebalanceJob
  BY <1>1 DEF Rebalancing, RebalanceJob
<1>4. \A j \in Job : IsRebalance(j) => j \in RebalanceJob
  BY DEF Job, IsRebalance, ReplicaWrite
<1>5. \A j \in Job : j.kind = "replicate" => j \in ReplicaWrite
  BY DEF Job, RebalanceJob
<1> QED
  BY <1>2, <1>3, <1>4, <1>5 DEF Job

\* The job at a coroutine of a rebalance.
LEMMA JobAtStep ==
    ASSUME work \in Seq(Job), NEW i, NEW step, AtStep(i, step)
    PROVE  i \in DOMAIN work /\ work[i] \in RebalanceJob
<1>1. i \in DOMAIN work /\ work[i] \in Job
  BY LenProperties, ElementOfSeq DEF AtStep, Turn
<1> QED
  BY <1>1, JobTypes DEF AtStep

\* The service starts with the type.
LEMMA TypeInit == Init => TypeOK
<1> SUFFICES ASSUME Init PROVE TypeOK
  OBVIOUS
<1>1. InitialNodes \subseteq Node /\ Budget \in [Limited -> Nat]
  BY ServiceAssumption
<1>2. Empty \in Entries
  BY DEF Empty, Entries
<1>3. op \in [Client -> CallState] /\ \A c \in Client : CallOK(op[c])
  BY IdleOK DEF Init, CallOK
<1>4. work \in Seq(ReplicaWrite \cup RebalanceJob)
  BY EmptySeq DEF Init
<1> QED
  BY <1>1, <1>2, <1>3, <1>4 DEF Init, TypeOK

\* The first part of a call.
LEMMA TypeBegin ==
    ASSUME TypeOK, NEW c \in Client, NEW k \in Key, NEW v \in Value \cup {Absent},
           NEW kind \in {"put", "get", "delete"}, kind = "put" => v \in Value,
           Begin(c, kind, k, v), budget' \in [Limited -> Nat],
           written' \in [Key -> SUBSET Value]
    PROVE  TypeOK'
<1> DEFINE call == [kind |-> kind, step |-> "target", key |-> k, value |-> v,
                    target |-> ServedBy(k), replica |-> Replica(nodes, k)]
<1>1. ServedBy(k) \in Node
  BY DEF Begin, ServedBy, Alive
<1>2. Replica(nodes, k) \in Node \cup {NoNode}
  BY RoutesAreNodes DEF TypeOK
<1>3. CallOK(call)
  BY <1>1, <1>2 DEF CallOK, CallState
<1>4. op' \in [Client -> CallState] /\ \A b \in Client : CallOK(op'[b])
  <2>1. op' = [op EXCEPT ![c] = call]
    BY DEF Begin
  <2> HIDE DEF call
  <2> QED
    BY <1>3, <2>1, CallType DEF TypeOK
<1> QED
  BY <1>4 DEF TypeOK, Begin, membership

\* put
LEMMA TypePut ==
    ASSUME TypeOK, NEW c \in Client
    PROVE  /\ \A k \in Key, v \in Value : BeginPut(c, k, v) => TypeOK'
           /\ PutAtTarget(c) \/ PutReply(c) => TypeOK'
<1>1. ASSUME NEW k \in Key, NEW v \in Value, BeginPut(c, k, v) PROVE TypeOK'
  <2>1. budget' \in [Limited -> Nat]
    BY <1>1, SpendType DEF BeginPut, TypeOK, Limited
  <2>2. written' \in [Key -> SUBSET Value]
    BY <1>1 DEF BeginPut, TypeOK
  <2> QED
    BY <1>1, <2>1, <2>2, TypeBegin DEF BeginPut
<1>2. CallOK(op[c]) /\ op[c] \in CallState
  BY DEF TypeOK
<1>3. ASSUME PutAtTarget(c) PROVE TypeOK'
  <2>1. op[c].target \in Node /\ op[c].key \in Key /\ op[c].value \in Value
    BY <1>2, <1>3 DEF CallOK, CallState, PutAtTarget, At, Resumes
  <2>2. store' \in [Node -> Entries]
    BY <1>3, <2>1, StoredType DEF PutAtTarget, TypeOK
  <2>3. CallOK([op[c] EXCEPT !.step = "applied"])
    BY <1>2, <1>3 DEF CallOK, CallState, PutAtTarget, At, Resumes
  <2>4. op' \in [Client -> CallState] /\ \A b \in Client : CallOK(op'[b])
    BY <1>3, <2>3, CallType DEF PutAtTarget, Goto, TypeOK
  <2> QED
    BY <1>3, <2>2, <2>4 DEF PutAtTarget, TypeOK, membership, ghosts
<1>4. ASSUME PutReply(c) PROVE TypeOK'
  <2>1. op[c].target \in Node /\ op[c].key \in Key /\ op[c].value \in Value
    BY <1>2, <1>4 DEF CallOK, CallState, PutReply, At, Resumes
  <2>2. last_heartbeat' \in [Node -> {"none", "fresh", "stale"}]
    BY <1>4, <2>1, RecordedType DEF PutReply, TypeOK
  <2>3. work' \in Seq(Job)
    <3>1. work \in Seq(Job)
      BY DEF TypeOK, Job
    <3>2. ReplicaUsable(c) => Replication(op[c].replica, op[c].key, op[c].value) \in Job
      BY <2>1, JobTypes DEF ReplicaUsable, Alive
    <3> QED
      BY <1>4, <3>1, <3>2 DEF PutReply
  <2>4. op' \in [Client -> CallState] /\ \A b \in Client : CallOK(op'[b])
    BY <1>4, AnswerType DEF PutReply, TypeOK
  <2>5. expected' \in [Key -> SUBSET (Value \cup {Absent})]
    BY <1>4, <2>1 DEF PutReply, TypeOK
  <2> QED
    BY <1>4, <2>2, <2>3, <2>4, <2>5 DEF PutReply, TypeOK, Job
<1> QED
  BY <1>1, <1>3, <1>4

\* get
LEMMA TypeGet ==
    ASSUME TypeOK, NEW c \in Client
    PROVE  /\ \A k \in Key : BeginGet(c, k) => TypeOK'
           /\ GetAtTarget(c) \/ GetAtReplica(c) => TypeOK'
<1>1. ASSUME NEW k \in Key, BeginGet(c, k) PROVE TypeOK'
  <2>1. budget' \in [Limited -> Nat]
    BY <1>1, SpendType DEF BeginGet, TypeOK, Limited
  <2>2. written' \in [Key -> SUBSET Value]
    BY <1>1 DEF BeginGet, TypeOK
  <2> QED
    BY <1>1, <2>1, <2>2, TypeBegin DEF BeginGet
<1>2. CallOK(op[c]) /\ op[c] \in CallState
  BY DEF TypeOK
<1>3. ASSUME GetAtTarget(c) PROVE TypeOK'
  <2>1. op[c].target \in Node /\ op[c].key \in Key
    BY <1>2, <1>3 DEF CallOK, CallState, GetAtTarget, At, Resumes
  <2>2. store[op[c].target][op[c].key] \in Value \cup {Absent}
    BY <2>1 DEF TypeOK, Entries
  <2>3. last_heartbeat' \in [Node -> {"none", "fresh", "stale"}]
    BY <1>3, <2>1, RecordedType DEF GetAtTarget, TypeOK
  <2>4. ReplicaUsable(c) => CallOK([op[c] EXCEPT !.step = "replica"])
    BY <1>2, <1>3 DEF CallOK, CallState, GetAtTarget, At, Resumes, ReplicaUsable, Alive
  <2>5. CASE Goto(c, "replica") /\ ReplicaUsable(c)
    <3>1. op' \in [Client -> CallState] /\ \A b \in Client : CallOK(op'[b])
      BY <2>4, <2>5, CallType DEF Goto, TypeOK
    <3> QED
      BY <1>3, <2>3, <3>1 DEF GetAtTarget, TypeOK, ghosts
  <2>6. CASE Answer(c, store[op[c].target][op[c].key])
    <3>1. op' \in [Client -> CallState] /\ \A b \in Client : CallOK(op'[b])
      BY <2>2, <2>6, AnswerType DEF TypeOK
    <3> QED
      BY <1>3, <2>3, <3>1 DEF GetAtTarget, TypeOK, ghosts
  <2>7. CASE Answer(c, Absent)
    <3>1. op' \in [Client -> CallState] /\ \A b \in Client : CallOK(op'[b])
      BY <2>7, AnswerType DEF TypeOK
    <3> QED
      BY <1>3, <2>3, <3>1 DEF GetAtTarget, TypeOK, ghosts
  <2> QED
    BY <1>3, <2>5, <2>6, <2>7 DEF GetAtTarget
<1>4. ASSUME GetAtReplica(c) PROVE TypeOK'
  <2>1. op[c].replica \in Node /\ op[c].key \in Key
    BY <1>2, <1>4 DEF CallOK, CallState, GetAtReplica, At, Resumes
  <2>2. store[op[c].replica][op[c].key] \in Value \cup {Absent}
    BY <2>1 DEF TypeOK, Entries
  <2>3. op' \in [Client -> CallState] /\ \A b \in Client : CallOK(op'[b])
    BY <1>4, <2>2, AnswerType DEF GetAtReplica, TypeOK
  <2> QED
    BY <1>4, <2>3 DEF GetAtReplica, TypeOK, membership, ghosts
<1> QED
  BY <1>1, <1>3, <1>4

\* delete
LEMMA TypeDelete ==
    ASSUME TypeOK, NEW c \in Client
    PROVE  /\ \A k \in Key : BeginDelete(c, k) => TypeOK'
           /\ DeleteAtTarget(c) \/ DeleteAtReplica(c) => TypeOK'
<1>1. ASSUME NEW k \in Key, BeginDelete(c, k) PROVE TypeOK'
  <2>1. budget' \in [Limited -> Nat]
    BY <1>1, SpendType DEF BeginDelete, TypeOK, Limited
  <2>2. written' \in [Key -> SUBSET Value]
    BY <1>1 DEF BeginDelete, TypeOK
  <2> QED
    BY <1>1, <2>1, <2>2, TypeBegin DEF BeginDelete
<1>2. CallOK(op[c]) /\ op[c] \in CallState
  BY DEF TypeOK
<1>3. ASSUME DeleteAtTarget(c) PROVE TypeOK'
  <2>1. op[c].target \in Node /\ op[c].key \in Key
    BY <1>2, <1>3 DEF CallOK, CallState, DeleteAtTarget, At, Resumes
  <2>2. store' \in [Node -> Entries]
    BY <1>3, <2>1, StoredType DEF DeleteAtTarget, TypeOK
  <2>3. expected' \in [Key -> SUBSET (Value \cup {Absent})]
    BY <1>3, <2>1 DEF DeleteAtTarget, TypeOK
  <2>4. ReplicaUsable(c) => CallOK([op[c] EXCEPT !.step = "replica"])
    BY <1>2, <1>3 DEF CallOK, CallState, DeleteAtTarget, At, Resumes, ReplicaUsable, Alive
  <2>5. CASE Goto(c, "replica") /\ ReplicaUsable(c)
    <3>1. op' \in [Client -> CallState] /\ \A b \in Client : CallOK(op'[b])
      BY <2>4, <2>5, CallType DEF Goto, TypeOK
    <3> QED
      BY <1>3, <2>2, <2>3, <3>1 DEF DeleteAtTarget, TypeOK, membership
  <2>6. CASE Answer(c, Absent)
    <3>1. op' \in [Client -> CallState] /\ \A b \in Client : CallOK(op'[b])
      BY <2>6, AnswerType DEF TypeOK
    <3> QED
      BY <1>3, <2>2, <2>3, <3>1 DEF DeleteAtTarget, TypeOK, membership
  <2> QED
    BY <1>3, <2>5, <2>6 DEF DeleteAtTarget
<1>4. ASSUME DeleteAtReplica(c) PROVE TypeOK'
  <2>1. op[c].replica \in Node /\ op[c].key \in Key
    BY <1>2, <1>4 DEF CallOK, CallState, DeleteAtReplica, At, Resumes
  <2>2. store' \in [Node -> Entries]
    BY <1>4, <2>1, StoredType DEF DeleteAtReplica, TypeOK
  <2>3. expected' \in [Key -> SUBSET (Value \cup {Absent})]
    BY <1>4, <2>1 DEF DeleteAtReplica, TypeOK
  <2>4. op' \in [Client -> CallState] /\ \A b \in Client : CallOK(op'[b])
    BY <1>4, AnswerType DEF DeleteAtReplica, TypeOK
  <2> QED
    BY <1>4, <2>2, <2>3, <2>4 DEF DeleteAtReplica, TypeOK, membership
<1> QED
  BY <1>1, <1>3, <1>4

\* A call that raises.
LEMMA TypeCallFails ==
    ASSUME TypeOK, NEW c \in Client, CallFails(c)
    PROVE  TypeOK'
<1> DEFINE n == IF op[c].step = "replica" THEN op[c].replica ELSE op[c].target
<1>1. CallOK(op[c]) /\ op[c] \in CallState
  BY DEF TypeOK
<1>2. n \in Node /\ op[c].key \in Key /\ op[c].value \in Value \cup {Absent}
  BY <1>1 DEF CallOK, CallState, CallFails, Replied
<1>3. store' \in [Node -> Entries]
  BY <1>2, StoredType DEF CallFails, TypeOK
<1>4. budget' \in [Limited -> Nat]
  BY UnreachedType DEF CallFails, TypeOK
<1>5. expected' \in [Key -> SUBSET (Value \cup {Absent})]
  BY <1>2 DEF CallFails, TypeOK
<1>6. op' \in [Client -> CallState] /\ \A b \in Client : CallOK(op'[b])
  BY IdleOK, CallType DEF CallFails, TypeOK
<1> QED
  BY <1>3, <1>4, <1>5, <1>6 DEF CallFails, TypeOK, membership

\* heartbeat, add_node, remove_node
LEMMA TypeMembership ==
    ASSUME TypeOK, NEW n \in Node,
           \/ Ping(n) \/ Pong(n) \/ PingFails(n)
           \/ AddNode(n) \/ RemoveNode(n)
    PROVE  TypeOK'
<1>1. CASE Ping(n)
  <2>1. budget' \in [Limited -> Nat]
    BY <1>1, SpendType DEF Ping, TypeOK, Limited
  <2> QED
    BY <1>1, <2>1 DEF Ping, TypeOK, membership, ghosts
<1>2. CASE Pong(n)
  <2>1. last_heartbeat' \in [Node -> {"none", "fresh", "stale"}]
    BY <1>2, RecordedType DEF Pong, TypeOK
  <2> QED
    BY <1>2, <2>1 DEF Pong, TypeOK, ghosts
<1>3. CASE PingFails(n)
  <2>1. budget' \in [Limited -> Nat]
    BY <1>3, UnreachedType DEF PingFails, TypeOK
  <2> QED
    BY <1>3, <2>1 DEF PingFails, TypeOK, membership, ghosts
<1>4. CASE AddNode(n)
  <2>1. budget' \in [Limited -> Nat]
    BY <1>4, SpendType DEF AddNode, TypeOK, Limited
  <2>2. store' \in [Node -> Entries]
    BY <1>4 DEF AddNode, TypeOK, Empty, Entries
  <2>3. work' \in Seq(Job)
    <3>1. work \in Seq(Job) /\ Rebalancing("add", nodes) \in Job
      BY JobTypes DEF TypeOK, Job
    <3> QED
      BY <1>4, <3>1 DEF AddNode
  <2>4. /\ last_heartbeat' \in [Node -> {"none", "fresh", "stale"}]
        /\ nodes' \in SUBSET Node /\ listed' \in SUBSET Node
    BY <1>4 DEF AddNode, TypeOK
  <2> QED
    BY <1>4, <2>1, <2>2, <2>3, <2>4 DEF AddNode, TypeOK, Job, ghosts
<1>5. CASE RemoveNode(n)
  <2>1. budget' \in [Limited -> Nat]
    BY <1>5, SpendType DEF RemoveNode, TypeOK, Limited
  <2>2. last_heartbeat' \in [Node -> {"none", "fresh", "stale"}] /\ nodes' \in SUBSET Node
    BY <1>5 DEF RemoveNode, TypeOK
  <2> QED
    BY <1>5, <2>1, <2>2 DEF RemoveNode, TypeOK, ghosts
<1> QED
  BY <1>1, <1>2, <1>3, <1>4, <1>5

\* The end of remove_node.
LEMMA TypeSortKeys ==
    ASSUME TypeOK, SortKeys
    PROVE  TypeOK'
<1>1. work \in Seq(Job) /\ Rebalancing("remove", listed) \in Job
  BY JobTypes DEF TypeOK, Job
<1>2. work' \in Seq(Job)
  BY <1>1 DEF SortKeys
<1> QED
  BY <1>2 DEF SortKeys, TypeOK, Job, ghosts

\* Replica writes.
LEMMA TypeReplicate ==
    ASSUME TypeOK, NEW i \in DOMAIN work, Replicate(i) \/ ReplicateFails(i)
    PROVE  TypeOK'
<1>1. work \in Seq(Job) /\ work[i] \in Job
  BY LenProperties, ElementOfSeq DEF TypeOK, Job
<1>2. work[i] \in ReplicaWrite
  BY <1>1, JobTypes DEF Replicate, ReplicateFails
<1>3. RemoveAt(work, i) \in Seq(Job)
  BY <1>1, RemoveAtType
<1>4. CASE Replicate(i)
  <2>1. store' \in [Node -> Entries]
    BY <1>2, <1>4, StoredType DEF Replicate, TypeOK, ReplicaWrite
  <2> QED
    BY <1>3, <1>4, <2>1 DEF Replicate, TypeOK, Job, membership, ghosts
<1>5. CASE ReplicateFails(i)
  <2>1. budget' \in [Limited -> Nat]
    BY <1>5, UnreachedType DEF ReplicateFails, TypeOK
  <2> QED
    BY <1>3, <1>5, <2>1 DEF ReplicateFails, TypeOK, Job, membership, ghosts
<1> QED
  BY <1>4, <1>5

\* A rebalance up to its last snapshot.
LEMMA TypeSnapshots ==
    ASSUME TypeOK, NEW i \in DOMAIN work,
           \/ RebCopyDict(i) \/ RebCopyList(i) \/ RebListNodes(i)
           \/ \E n \in Node : RebSnapshot(i, n) \/ RebSnapshotFails(i, n)
    PROVE  TypeOK'
<1>1. work \in Seq(Job) /\ work[i] \in RebalanceJob
  BY JobAtStep
     DEF TypeOK, Job, RebCopyDict, RebCopyList, RebListNodes, RebSnapshot, RebSnapshotFails
<1>2. \A j \in Job : [work EXCEPT ![i] = j] \in Seq(Job)
  BY <1>1, LenProperties, ExceptSeq
<1>3. CASE RebCopyDict(i) \/ RebCopyList(i) \/ RebListNodes(i)
  <2>1. \A M \in SUBSET Node :
           /\ [work[i] EXCEPT !.step = "dict", !.dict = M] \in Job
           /\ [work[i] EXCEPT !.step = "list", !.current = M] \in Job
           /\ [work[i] EXCEPT !.step = "snapshots", !.todo = M] \in Job
    BY <1>1 DEF RebalanceJob, Job
  <2>2. work' \in Seq(Job)
    BY <1>2, <1>3, <2>1 DEF RebCopyDict, RebCopyList, RebListNodes, TypeOK
  <2> QED
    BY <1>3, <2>2 DEF RebCopyDict, RebCopyList, RebListNodes, TypeOK, Job, membership, ghosts
<1>4. ASSUME NEW n \in Node, RebSnapshot(i, n) PROVE TypeOK'
  <2>1. Answered(work[i].snaps, n, store[n]) \in Snapshots
    BY <1>1, AnsweredType DEF RebalanceJob, TypeOK
  <2> DEFINE asked == [work[i] EXCEPT !.todo  = work[i].todo \ {n},
                                      !.snaps = Answered(work[i].snaps, n, store[n])]
  <2>2. asked \in Job
    BY <1>1, <2>1 DEF RebalanceJob, Job
  <2>3. work' = [work EXCEPT ![i] = asked]
    BY <1>4 DEF RebSnapshot
  <2> HIDE DEF asked
  <2>4. work' \in Seq(Job)
    BY <1>2, <2>2, <2>3
  <2> QED
    BY <1>4, <2>4 DEF RebSnapshot, TypeOK, Job, membership, ghosts
<1>5. ASSUME NEW n \in Node, RebSnapshotFails(i, n) PROVE TypeOK'
  <2>1. budget' \in [Limited -> Nat]
    BY <1>5, UnreachedType DEF RebSnapshotFails, TypeOK
  <2>2. work' \in Seq(Job)
    BY <1>1, <1>5, RemoveAtType DEF RebSnapshotFails
  <2> QED
    BY <1>5, <2>1, <2>2 DEF RebSnapshotFails, TypeOK, Job, membership, ghosts
<1> QED
  BY <1>3, <1>4, <1>5

\* The calls a rebalance plans: only values that a snapshot holds are copied.
LEMMA PlannedCalls ==
    ASSUME nodes \in SUBSET Node, NEW job \in RebalanceJob, NEW keys \in SUBSET Key,
           NEW source, \A k \in keys : source[k] \in Holders(job.snaps, k)
    PROVE  /\ Moves(job.current, job.snaps, nodes, source, keys)
                 \in SUBSET [node : Node, key : Key, value : Value]
           /\ Drops(job.current, job.snaps, nodes, keys) \in SUBSET [node : Node, key : Key]
           /\ \A m \in Moves(job.current, job.snaps, nodes, source, keys) :
                 \E n \in DOMAIN job.snaps : m.value = job.snaps[n][m.key]
<1>1. \A n \in DOMAIN job.snaps : job.snaps[n] \in Entries
  BY DEF RebalanceJob, Snapshots
<1>2. \A k \in keys : /\ source[k] \in DOMAIN job.snaps
                      /\ job.snaps[source[k]][k] \in Value
  BY <1>1 DEF Holders, Entries
<1>3. ASSUME NEW m \in Moves(job.current, job.snaps, nodes, source, keys)
      PROVE  /\ m \in [node : Node, key : Key, value : Value]
             /\ \E n \in DOMAIN job.snaps : m.value = job.snaps[n][m.key]
  <2>1. PICK k \in keys, n \in nodes :
           m = [node |-> n, key |-> k, value |-> job.snaps[source[k]][k]]
    BY DEF Moves
  <2> QED
    BY <1>2, <2>1
<1>4. ASSUME NEW d \in Drops(job.current, job.snaps, nodes, keys)
      PROVE  d \in [node : Node, key : Key]
  BY DEF Drops
<1> QED
  BY <1>3, <1>4

\* A rebalance moves keys.
LEMMA MovableKeys == \A job : MovableOf(job) \subseteq Key
BY DEF MovableOf, Movable, Affected

\* The step from the snapshots to the calls: work' for a set J of jobs that
\* the planned job belongs to.
LEMMA PlanType ==
    ASSUME TypeOK, NEW i \in DOMAIN work, NEW choices \in SUBSET SUBSET Key, NEW step,
           CreateCalls(i, choices, step), NEW J, work \in Seq(J),
           \A source : \A keys \in SUBSET Key :
              (\A k \in keys : source[k] \in Holders(work[i].snaps, k)) =>
                 [Rebalancing(work[i].kind, {}) EXCEPT
                     !.step  = step,
                     !.moves = Moves(work[i].current, work[i].snaps, nodes, source, keys),
                     !.drops = Drops(work[i].current, work[i].snaps, nodes, keys)] \in J
    PROVE  work' \in Seq(J)
<1> DEFINE job  == work[i]
           planned(source, copied) ==
               [Rebalancing(job.kind, {}) EXCEPT
                   !.step  = step,
                   !.moves = Moves(job.current, job.snaps, nodes, source, copied),
                   !.drops = Drops(job.current, job.snaps, nodes, copied)]
<1>1. PICK keys \in choices : \E source \in [keys -> DOMAIN job.snaps] : \E lapsed \in SUBSET keys :
         /\ \A k \in keys : source[k] \in
               Sources(job.kind, job.prev, job.current, job.snaps, Alive, k)
         /\ \/ Update(i, planned(source, keys \ lapsed))
            \/ \E p \in 2 .. Len(work) :
                  work' = InsertAt(Tail(work), p, planned(source, keys \ lapsed))
  BY DEF CreateCalls
<1>5. PICK source \in [keys -> DOMAIN job.snaps] : \E lapsed \in SUBSET keys :
         /\ \A k \in keys : source[k] \in
               Sources(job.kind, job.prev, job.current, job.snaps, Alive, k)
         /\ \/ Update(i, planned(source, keys \ lapsed))
            \/ \E p \in 2 .. Len(work) :
                  work' = InsertAt(Tail(work), p, planned(source, keys \ lapsed))
  BY <1>1
<1>0. PICK lapsed \in SUBSET keys :
         \/ Update(i, planned(source, keys \ lapsed))
         \/ \E p \in 2 .. Len(work) :
               work' = InsertAt(Tail(work), p, planned(source, keys \ lapsed))
  BY <1>5
<1>2. planned(source, keys \ lapsed) \in J
  <2>1. \A k \in keys : source[k] \in Holders(job.snaps, k)
    BY <1>5, SourcesAreHolders
  <2>2. keys \ lapsed \in SUBSET Key
    OBVIOUS
  <2> QED
    BY <2>1, <2>2
<1> HIDE DEF planned
<1>3. CASE Update(i, planned(source, keys \ lapsed))
  BY <1>2, <1>3, UpdateType
<1>4. CASE \E p \in 2 .. Len(work) :
              work' = InsertAt(Tail(work), p, planned(source, keys \ lapsed))
  <2>1. /\ Tail(work) \in Seq(J)
        /\ \A p \in 2 .. Len(work) : p \in 1 .. Len(Tail(work)) + 1
    BY TailType
  <2>2. PICK p \in 2 .. Len(work) :
           work' = InsertAt(Tail(work), p, planned(source, keys \ lapsed))
    BY <1>4
  <2>3. p \in 1 .. Len(Tail(work)) + 1
    BY <2>1
  <2> DEFINE new  == planned(source, keys \ lapsed)
             rest == Tail(work)
  <2>4. new \in J /\ rest \in Seq(J) /\ p \in 1 .. Len(rest) + 1 /\ work' = InsertAt(rest, p, new)
    BY <1>2, <2>1, <2>2, <2>3
  <2> HIDE DEF new, rest
  <2> QED
    BY <2>4, InsertAtType
<1> QED
  BY <1>0, <1>3, <1>4

\* Planning a rebalance keeps the type, whatever sources and lapsed keys it takes.
LEMMA TypePlan ==
    ASSUME TypeOK, NEW i \in DOMAIN work, RebPlan(i) \/ RebRaises(i)
    PROVE  TypeOK'
<1>1. work \in Seq(Job) /\ work[i] \in RebalanceJob
  BY JobAtStep DEF TypeOK, Job, RebPlan, RebRaises
<1>2. \A step \in {"gather", "orphaned"} : \A source : \A keys \in SUBSET Key :
         (\A k \in keys : source[k] \in Holders(work[i].snaps, k)) =>
            [Rebalancing(work[i].kind, {}) EXCEPT
                !.step  = step,
                !.moves = Moves(work[i].current, work[i].snaps, nodes, source, keys),
                !.drops = Drops(work[i].current, work[i].snaps, nodes, keys)] \in Job
  <2>1. SUFFICES ASSUME NEW step \in {"gather", "orphaned"},
                        NEW keys \in SUBSET Key, NEW source,
                        \A k \in keys : source[k] \in Holders(work[i].snaps, k)
                 PROVE  [Rebalancing(work[i].kind, {}) EXCEPT
                            !.step  = step,
                            !.moves = Moves(work[i].current, work[i].snaps, nodes, source, keys),
                            !.drops = Drops(work[i].current, work[i].snaps, nodes, keys)]
                         \in RebalanceJob
    BY DEF Job
  <2>2. Rebalancing(work[i].kind, {}) \in RebalanceJob
    BY <1>1, JobTypes DEF RebalanceJob
  <2>3. /\ Moves(work[i].current, work[i].snaps, nodes, source, keys)
              \in SUBSET [node : Node, key : Key, value : Value]
        /\ Drops(work[i].current, work[i].snaps, nodes, keys) \in SUBSET [node : Node, key : Key]
    BY <1>1, <2>1, PlannedCalls DEF TypeOK
  <2> QED
    BY <2>2, <2>3 DEF RebalanceJob
<1>3. work' \in Seq(Job)
  <2>1. MovableOf(work[i]) \subseteq Key
    BY MovableKeys
  <2>2. CASE RebPlan(i)
    <3>1. /\ {MovableOf(work[i])} \in SUBSET SUBSET Key
          /\ CreateCalls(i, {MovableOf(work[i])}, "gather")
      BY <2>1, <2>2 DEF RebPlan
    <3> QED
      BY <1>1, <1>2, <3>1, PlanType
  <2>3. CASE RebRaises(i)
    <3>1. /\ SUBSET MovableOf(work[i]) \in SUBSET SUBSET Key
          /\ CreateCalls(i, SUBSET MovableOf(work[i]), "orphaned")
      BY <2>1, <2>3 DEF RebRaises
    <3> QED
      BY <1>1, <1>2, <3>1, PlanType
  <2> QED
    BY <2>2, <2>3
<1> QED
  BY <1>3 DEF RebPlan, RebRaises, TypeOK, Job, membership, ghosts

\* The calls of a gather.
LEMMA TypeGather ==
    ASSUME TypeOK, NEW i \in DOMAIN work, IsRebalance(work[i])
    PROVE  /\ \A m \in work[i].moves : RebPut(i, m) => TypeOK'
           /\ \A d \in work[i].drops : RebDelete(i, d) => TypeOK'
           /\ \A call \in work[i].moves \cup work[i].drops : RebCallFails(i, call) => TypeOK'
<1>1. work \in Seq(Job) /\ work[i] \in RebalanceJob
  BY LenProperties, ElementOfSeq, JobTypes DEF TypeOK, Job
<1>2. \A c : [work[i] EXCEPT !.moves = @ \ {c}, !.drops = @ \ {c}] \in Job
  BY <1>1 DEF RebalanceJob, Job
<1>3. ASSUME NEW m \in work[i].moves, RebPut(i, m) PROVE TypeOK'
  <2>1. m.node \in Node /\ m.key \in Key /\ m.value \in Value
    BY <1>1, <1>3 DEF RebalanceJob
  <2>2. store' \in [Node -> Entries]
    BY <1>3, <2>1, StoredType DEF RebPut, TypeOK
  <2>3. [work[i] EXCEPT !.moves = @ \ {m}] \in Job
    BY <1>1 DEF RebalanceJob, Job
  <2>4. work' \in Seq(Job)
    BY <1>1, <1>3, <2>3, UpdateType DEF RebPut
  <2> QED
    BY <1>3, <2>2, <2>4 DEF RebPut, TypeOK, Job, membership, ghosts
<1>4. ASSUME NEW d \in work[i].drops, RebDelete(i, d) PROVE TypeOK'
  <2>1. d.node \in Node /\ d.key \in Key
    BY <1>1, <1>4 DEF RebalanceJob
  <2>2. store' \in [Node -> Entries]
    BY <1>4, <2>1, StoredType DEF RebDelete, TypeOK
  <2>3. [work[i] EXCEPT !.drops = @ \ {d}] \in Job
    BY <1>1 DEF RebalanceJob, Job
  <2>4. work' \in Seq(Job)
    BY <1>1, <1>4, <2>3, UpdateType DEF RebDelete
  <2> QED
    BY <1>4, <2>2, <2>4 DEF RebDelete, TypeOK, Job, membership, ghosts
<1>5. ASSUME NEW call, RebCallFails(i, call) PROVE TypeOK'
  <2>1. budget' \in [Limited -> Nat]
    BY <1>5, UnreachedType DEF RebCallFails, TypeOK
  <2>2. work' \in Seq(Job)
    BY <1>1, <1>2, <1>5, UpdateType DEF RebCallFails
  <2> QED
    BY <1>5, <2>1, <2>2 DEF RebCallFails, TypeOK, Job, membership, ghosts
<1> QED
  BY <1>3, <1>4, <1>5

\* Time, memory and machines.
LEMMA TypeEnvironment ==
    ASSUME TypeOK, NEW n \in Node,
           \/ Expire(n) \/ Crash(n) \/ Restart(n)
           \/ \E k \in Key : Forget(n, k)
    PROVE  TypeOK'
<1>1. CASE Expire(n)
  <2>1. budget' \in [Limited -> Nat]
    BY <1>1, SpendType DEF Expire, TypeOK, Limited
  <2> QED
    BY <1>1, <2>1 DEF Expire, TypeOK, ghosts
<1>2. CASE Crash(n)
  <2>1. budget' \in [Limited -> Nat]
    BY <1>2, SpendType DEF Crash, TypeOK, Limited
  <2>2. store' \in [Node -> Entries]
    BY <1>2 DEF Crash, TypeOK, Empty, Entries
  <2> QED
    BY <1>2, <2>1, <2>2 DEF Crash, TypeOK, membership, ghosts
<1>3. CASE Restart(n)
  BY <1>3 DEF Restart, TypeOK, membership, ghosts
<1>4. ASSUME NEW k \in Key, Forget(n, k) PROVE TypeOK'
  <2>1. budget' \in [Limited -> Nat]
    BY <1>4, SpendType DEF Forget, TypeOK, Limited
  <2>2. store' \in [Node -> Entries]
    BY <1>4, StoredType DEF Forget, TypeOK
  <2> QED
    BY <1>4, <2>1, <2>2 DEF Forget, TypeOK, membership, ghosts
<1> QED
  BY <1>1, <1>2, <1>3, <1>4

\* Every step keeps the type.
LEMMA TypeNext == TypeOK /\ [Next]_vars => TypeOK'
<1> SUFFICES ASSUME TypeOK, [Next]_vars PROVE TypeOK'
  OBVIOUS
<1>1. ASSUME NEW c \in Client, NEW k \in Key,
             BeginGet(c, k) \/ BeginDelete(c, k) \/ \E v \in Value : BeginPut(c, k, v)
      PROVE  TypeOK'
  BY <1>1, TypeGet, TypeDelete, TypePut
<1>2. ASSUME NEW c \in Client, Call(c) PROVE TypeOK'
  BY <1>2, TypePut, TypeGet, TypeDelete, TypeCallFails DEF Call
<1>3. ASSUME Background PROVE TypeOK'
  <2>1. PICK i \in DOMAIN work :
        \/ Replicate(i) \/ ReplicateFails(i)
        \/ RebCopyDict(i) \/ RebCopyList(i) \/ RebListNodes(i)
        \/ \E n \in Node : RebSnapshot(i, n) \/ RebSnapshotFails(i, n)
        \/ RebPlan(i) \/ RebRaises(i)
        \/ IsRebalance(work[i]) /\
             \/ \E m \in work[i].moves : RebPut(i, m)
             \/ \E d \in work[i].drops : RebDelete(i, d)
             \/ \E call \in work[i].moves \cup work[i].drops : RebCallFails(i, call)
    BY <1>3 DEF Background
  <2>2. CASE Replicate(i) \/ ReplicateFails(i)
    BY <2>2, TypeReplicate
  <2>3. CASE RebCopyDict(i) \/ RebCopyList(i) \/ RebListNodes(i)
    BY <2>3, TypeSnapshots
  <2>4. CASE \E n \in Node : RebSnapshot(i, n) \/ RebSnapshotFails(i, n)
    BY <2>4, TypeSnapshots
  <2>5. CASE RebPlan(i) \/ RebRaises(i)
    BY <2>5, TypePlan
  <2>6. CASE IsRebalance(work[i]) /\
             \/ \E m \in work[i].moves : RebPut(i, m)
             \/ \E d \in work[i].drops : RebDelete(i, d)
             \/ \E call \in work[i].moves \cup work[i].drops : RebCallFails(i, call)
    BY <2>6, TypeGather
  <2> QED
    BY <2>1, <2>2, <2>3, <2>4, <2>5, <2>6
<1>4. ASSUME NEW n \in Node,
             \/ Ping(n) \/ Pong(n) \/ PingFails(n)
             \/ AddNode(n) \/ RemoveNode(n)
      PROVE  TypeOK'
  BY <1>4, TypeMembership
<1>5. ASSUME NEW n \in Node,
             \/ Expire(n) \/ Crash(n) \/ Restart(n)
             \/ \E k \in Key : Forget(n, k)
      PROVE  TypeOK'
  BY <1>5, TypeEnvironment
<1>6. CASE UNCHANGED vars
  BY <1>6 DEF TypeOK, vars
<1> QED
  BY <1>1, <1>2, <1>3, <1>4, <1>5, <1>6, TypeSortKeys DEF Next

\* All state keeps its type, whatever the interleaving and the faults.
THEOREM TypeCorrect == Spec => []TypeOK
BY TypeInit, TypeNext, PTL DEF Spec

-----------------------------------------------------------------------------
(***************************************************************************)
(* Heartbeats                                                              *)
(***************************************************************************)

\* record_heartbeat adds no entry and removes none.
LEMMA RecordedKeepsEntries ==
    ASSUME TypeOK, HeartbeatsOnlyForMembers, NEW n \in Node,
           last_heartbeat' = Recorded(n), nodes' = nodes
    PROVE  HeartbeatsOnlyForMembers'
BY DEF TypeOK, HeartbeatsOnlyForMembers, Recorded

\* Every step keeps the liveness table and the membership together.
LEMMA HeartbeatsNext ==
    ASSUME TypeOK, HeartbeatsOnlyForMembers, [Next]_vars
    PROVE  HeartbeatsOnlyForMembers'
<1>1. ASSUME UNCHANGED membership PROVE HeartbeatsOnlyForMembers'
  BY <1>1 DEF HeartbeatsOnlyForMembers, membership
<1>2. ASSUME NEW c \in Client, NEW k \in Key,
             BeginGet(c, k) \/ BeginDelete(c, k) \/ \E v \in Value : BeginPut(c, k, v)
      PROVE  HeartbeatsOnlyForMembers'
  BY <1>1, <1>2 DEF BeginGet, BeginDelete, BeginPut, Begin
<1>3. ASSUME NEW c \in Client, Call(c) PROVE HeartbeatsOnlyForMembers'
  <2>1. CallOK(op[c])
    BY DEF TypeOK
  <2>2. CASE PutReply(c)
    <3>1. op[c].target \in Node
      BY <2>1, <2>2 DEF CallOK, PutReply, At, Resumes
    <3> QED
      BY <2>2, <3>1, RecordedKeepsEntries DEF PutReply
  <2>3. CASE GetAtTarget(c)
    <3>1. op[c].target \in Node
      BY <2>1, <2>3 DEF CallOK, GetAtTarget, At, Resumes
    <3>2. CASE last_heartbeat' = Recorded(op[c].target)
      BY <2>3, <3>1, <3>2, RecordedKeepsEntries DEF GetAtTarget
    <3>3. CASE last_heartbeat' = last_heartbeat
      BY <1>1, <2>3, <3>3 DEF GetAtTarget, membership
    <3> QED
      BY <2>3, <3>2, <3>3 DEF GetAtTarget
  <2>4. CASE \/ PutAtTarget(c) \/ GetAtReplica(c) \/ DeleteAtTarget(c)
             \/ DeleteAtReplica(c) \/ CallFails(c)
    BY <1>1, <2>4
       DEF PutAtTarget, GetAtReplica, DeleteAtTarget, DeleteAtReplica, CallFails
  <2> QED
    BY <1>3, <2>2, <2>3, <2>4 DEF Call
<1>4. ASSUME Background PROVE HeartbeatsOnlyForMembers'
  BY <1>1, <1>4 DEF Background, Replicate, ReplicateFails, RebCopyDict, RebCopyList,
     RebListNodes, RebSnapshot, RebSnapshotFails, RebPlan, RebRaises, RebPut, RebDelete,
     RebCallFails
<1>5. ASSUME NEW n \in Node, Pong(n) PROVE HeartbeatsOnlyForMembers'
  BY <1>5, RecordedKeepsEntries DEF Pong
<1>6. ASSUME NEW n \in Node, AddNode(n) \/ RemoveNode(n) \/ Expire(n)
      PROVE  HeartbeatsOnlyForMembers'
  BY <1>6 DEF TypeOK, HeartbeatsOnlyForMembers, AddNode, RemoveNode, Expire
<1>7. ASSUME NEW n \in Node,
             \/ Ping(n) \/ PingFails(n) \/ Crash(n) \/ Restart(n)
             \/ \E k \in Key : Forget(n, k)
      PROVE  HeartbeatsOnlyForMembers'
  BY <1>1, <1>7 DEF Ping, PingFails, Crash, Restart, Forget
<1>8. ASSUME SortKeys PROVE HeartbeatsOnlyForMembers'
  BY <1>8 DEF SortKeys, HeartbeatsOnlyForMembers
<1>9. CASE UNCHANGED vars
  BY <1>1, <1>9 DEF vars, membership
<1> QED
  BY <1>2, <1>3, <1>4, <1>5, <1>6, <1>7, <1>8, <1>9 DEF Next

\* The liveness table has exactly the members, although an acknowledged put, a
\* get or a heartbeat records its node when its answer arrives, at which time
\* the node may have been removed (record_heartbeat's membership test).
THEOREM HeartbeatsStayWithMembers == Spec => []HeartbeatsOnlyForMembers
<1>1. Init => HeartbeatsOnlyForMembers
  BY DEF Init, HeartbeatsOnlyForMembers
<1>2. TypeOK /\ HeartbeatsOnlyForMembers /\ [Next]_vars => HeartbeatsOnlyForMembers'
  BY HeartbeatsNext
<1> QED
  BY <1>1, <1>2, TypeCorrect, PTL DEF Spec

-----------------------------------------------------------------------------
(***************************************************************************)
(* Values                                                                  *)
(***************************************************************************)

\* CarriesOnlyPut for a given history W of puts, and the jobs that meet it.
Carries(W, j) ==
    IF IsRebalance(j)
    THEN /\ \A n \in DOMAIN j.snaps, k \in Key : j.snaps[n][k] \in W[k] \cup {Absent}
         /\ \A m \in j.moves : m.value \in W[m.key]
    ELSE j.value \in W[j.key]

PutJob(W) == {j \in Job : Carries(W, j)}

StoresPut == \A n \in Node, k \in Key : store[n][k] \in written[k] \cup {Absent}

CallsPut == \A c \in Client : op[c].value \in written[op[c].key] \cup {Absent}

\* The invariant, with the coroutines as a sequence over PutJob.
LEMMA JobsFromPut ==
    ASSUME TypeOK, OnlyPutValues, NEW W, W = written
    PROVE  work \in Seq(PutJob(W))
<1>1. work \in Seq(Job) /\ Len(work) \in Nat /\ DOMAIN work = 1 .. Len(work)
  BY LenProperties DEF TypeOK, Job
<1>2. \A i \in 1 .. Len(work) : work[i] \in PutJob(W)
  BY <1>1, ElementOfSeq DEF OnlyPutValues, CarriesOnlyPut, Carries, PutJob
<1>3. SubSeq(work, 1, Len(work)) \in Seq(PutJob(W))
  BY <1>1, <1>2, SubSeqProperties
<1> QED
  BY <1>1, <1>3, SubSeqFull

\* OnlyPutValues, from its parts and the type of the coroutines.
LEMMA PutFromParts ==
    ASSUME NEW W, W = written', StoresPut', CallsPut', work' \in Seq(PutJob(W))
    PROVE  OnlyPutValues'
<1>1. \A i \in DOMAIN work' : work'[i] \in PutJob(W)
  BY LenProperties, ElementOfSeq
<1> QED
  BY <1>1 DEF OnlyPutValues, CarriesOnlyPut, Carries, PutJob, StoresPut, CallsPut

\* The parts of OnlyPutValues.
LEMMA PutParts == OnlyPutValues => StoresPut /\ CallsPut
BY DEF OnlyPutValues, StoresPut, CallsPut

\* Writing a value put under the key, or deleting an entry.
LEMMA StoredPut ==
    ASSUME TypeOK, StoresPut, NEW n \in Node, NEW k \in Key, NEW v \in written[k] \cup {Absent},
           store' = Stored(n, k, v), written' = written
    PROVE  StoresPut'
BY DEF TypeOK, Entries, StoresPut, Stored

\* A call that goes on, that has its answer, or that failed.
LEMMA CallsGoOn ==
    ASSUME TypeOK, CallsPut, NEW c \in Client, written' = written,
           \/ \E step : Goto(c, step)
           \/ \E v \in written[op[c].key] \cup {Absent} : Answer(c, v)
           \/ op' = [op EXCEPT ![c] = Idle]
    PROVE  CallsPut'
<1>1. op \in [Client -> CallState] /\ op[c] \in CallState
  BY DEF TypeOK
<1>2. ASSUME NEW step, Goto(c, step) PROVE CallsPut'
  BY <1>1, <1>2 DEF CallsPut, Goto, CallState
<1>3. ASSUME NEW v \in written[op[c].key] \cup {Absent}, Answer(c, v) PROVE CallsPut'
  BY <1>1, <1>3 DEF CallsPut, Answer, CallState
<1>4. CASE op' = [op EXCEPT ![c] = Idle]
  BY <1>1, <1>4 DEF CallsPut, Idle
<1> QED
  BY <1>2, <1>3, <1>4

\* The first part of a call; a put adds its value to the history.
LEMMA PutBegin ==
    ASSUME TypeOK, OnlyPutValues, NEW c \in Client, NEW k \in Key,
           BeginGet(c, k) \/ BeginDelete(c, k) \/ \E v \in Value : BeginPut(c, k, v)
    PROVE  OnlyPutValues'
<1>1. /\ store' = store /\ work' = work
      /\ \A l \in Key : written[l] \subseteq written'[l]
  BY DEF BeginGet, BeginDelete, BeginPut, Begin, TypeOK
<1>2. StoresPut'
  BY <1>1 DEF OnlyPutValues, StoresPut
<1>3. CallsPut'
  <2>1. PICK kind, v : /\ Begin(c, kind, k, v)
                       /\ v \in written'[k] \cup {Absent}
    BY DEF BeginGet, BeginDelete, BeginPut, TypeOK
  <2>2. op'[c].key = k /\ op'[c].value = v
    BY <2>1 DEF Begin, TypeOK
  <2>3. \A b \in Client \ {c} : op'[b] = op[b]
    BY <2>1 DEF Begin, TypeOK
  <2>4. \A b \in Client : op[b].key \in Key
    BY DEF TypeOK, CallState
  <2> QED
    BY <1>1, <2>1, <2>2, <2>3, <2>4 DEF OnlyPutValues, CallsPut
<1>4. ASSUME NEW i \in DOMAIN work PROVE CarriesOnlyPut(work[i])'
  <2>1. CarriesOnlyPut(work[i])
    BY DEF OnlyPutValues
  <2>2. work[i] \in Job
    BY LenProperties, ElementOfSeq DEF TypeOK, Job
  <2>3. CASE IsRebalance(work[i])
    <3>1. \A m \in work[i].moves : m.key \in Key
      BY <2>2, <2>3, JobTypes DEF RebalanceJob
    <3> QED
      BY <1>1, <2>1, <2>3, <3>1 DEF CarriesOnlyPut
  <2>4. CASE ~IsRebalance(work[i])
    <3>1. work[i].key \in Key
      BY <2>2, <2>4 DEF Job, RebalanceJob, ReplicaWrite, IsRebalance
    <3> QED
      BY <1>1, <2>1, <2>4, <3>1 DEF CarriesOnlyPut
  <2> QED
    BY <2>3, <2>4
<1> QED
  BY <1>1, <1>2, <1>3, <1>4 DEF OnlyPutValues, StoresPut, CallsPut

\* The rest of a call.
LEMMA PutCall ==
    ASSUME TypeOK, OnlyPutValues, NEW c \in Client, Call(c)
    PROVE  OnlyPutValues'
<1>1. PICK W : W = written
  OBVIOUS
<1>2. written' = written
  BY DEF Call, PutAtTarget, PutReply, GetAtTarget, GetAtReplica, DeleteAtTarget,
     DeleteAtReplica, CallFails, ghosts
<1>3. StoresPut /\ CallsPut /\ work \in Seq(PutJob(W))
  BY <1>1, JobsFromPut, PutParts
<1>4. CallOK(op[c]) /\ op[c] \in CallState /\ op[c].value \in written[op[c].key] \cup {Absent}
  BY <1>3 DEF TypeOK, CallsPut
<1>5. ASSUME StoresPut', CallsPut', work' = work PROVE OnlyPutValues'
  BY <1>1, <1>2, <1>3, <1>5, PutFromParts
<1>6. ASSUME store' = store PROVE StoresPut'
  BY <1>2, <1>3, <1>6 DEF StoresPut
<1>7. CASE PutAtTarget(c)
  <2>1. op[c].target \in Node /\ op[c].key \in Key
    BY <1>4, <1>7 DEF CallOK, CallState, PutAtTarget, At, Resumes
  <2>2. StoresPut'
    BY <1>2, <1>3, <1>4, <1>7, <2>1, StoredPut DEF PutAtTarget
  <2>3. CallsPut'
    BY <1>2, <1>3, <1>7, CallsGoOn DEF PutAtTarget
  <2> QED
    BY <1>5, <1>7, <2>2, <2>3 DEF PutAtTarget
<1>8. CASE PutReply(c)
  <2>1. StoresPut'
    BY <1>6, <1>8 DEF PutReply
  <2>2. CallsPut'
    BY <1>2, <1>3, <1>8, CallsGoOn DEF PutReply
  <2>3. work' \in Seq(PutJob(W))
    <3>1. op[c].value \in Value /\ op[c].key \in Key
      BY <1>4, <1>8 DEF CallOK, CallState, PutReply, At, Resumes
    <3>2. op[c].value \in written[op[c].key]
      BY <1>4, <3>1, AbsentAssumption
    <3>3. ReplicaUsable(c) =>
             Replication(op[c].replica, op[c].key, op[c].value) \in PutJob(W)
      <4>1. ReplicaUsable(c) => Replication(op[c].replica, op[c].key, op[c].value) \in Job
        BY <3>1, JobTypes DEF ReplicaUsable, Alive
      <4> QED
        BY <1>1, <3>2, <4>1 DEF PutJob, Carries, IsRebalance, Replication
    <3> QED
      BY <1>3, <1>8, <3>3 DEF PutReply
  <2> QED
    BY <1>1, <1>2, <2>1, <2>2, <2>3, PutFromParts
<1>9. CASE GetAtTarget(c)
  <2>1. op[c].target \in Node /\ op[c].key \in Key
    BY <1>4, <1>9 DEF CallOK, CallState, GetAtTarget, At, Resumes
  <2>2. store[op[c].target][op[c].key] \in written[op[c].key] \cup {Absent}
    BY <1>3, <2>1 DEF StoresPut
  <2>3. CallsPut'
    BY <1>2, <1>3, <1>9, <2>2, CallsGoOn DEF GetAtTarget
  <2> QED
    BY <1>5, <1>6, <1>9, <2>3 DEF GetAtTarget
<1>10. CASE GetAtReplica(c)
  <2>1. op[c].replica \in Node /\ op[c].key \in Key
    BY <1>4, <1>10 DEF CallOK, CallState, GetAtReplica, At, Resumes
  <2>2. store[op[c].replica][op[c].key] \in written[op[c].key] \cup {Absent}
    BY <1>3, <2>1 DEF StoresPut
  <2>3. CallsPut'
    BY <1>2, <1>3, <1>10, <2>2, CallsGoOn DEF GetAtReplica
  <2> QED
    BY <1>5, <1>6, <1>10, <2>3 DEF GetAtReplica
<1>11. CASE DeleteAtTarget(c)
  <2>1. op[c].target \in Node /\ op[c].key \in Key
    BY <1>4, <1>11 DEF CallOK, CallState, DeleteAtTarget, At, Resumes
  <2>2. StoresPut'
    BY <1>2, <1>3, <1>11, <2>1, StoredPut DEF DeleteAtTarget
  <2>3. CallsPut'
    BY <1>2, <1>3, <1>11, CallsGoOn DEF DeleteAtTarget
  <2> QED
    BY <1>5, <1>11, <2>2, <2>3 DEF DeleteAtTarget
<1>12. CASE DeleteAtReplica(c)
  <2>1. op[c].replica \in Node /\ op[c].key \in Key
    BY <1>4, <1>12 DEF CallOK, CallState, DeleteAtReplica, At, Resumes
  <2>2. StoresPut'
    BY <1>2, <1>3, <1>12, <2>1, StoredPut DEF DeleteAtReplica
  <2>3. CallsPut'
    BY <1>2, <1>3, <1>12, CallsGoOn DEF DeleteAtReplica
  <2> QED
    BY <1>5, <1>12, <2>2, <2>3 DEF DeleteAtReplica
<1>13. CASE CallFails(c)
  <2> DEFINE n == IF op[c].step = "replica" THEN op[c].replica ELSE op[c].target
  <2>1. n \in Node /\ op[c].key \in Key
    BY <1>4, <1>13 DEF CallOK, CallState, CallFails, Replied
  <2>2. StoresPut'
    <3>1. CASE store' = store
      BY <1>6, <3>1
    <3>2. CASE store' = Stored(n, op[c].key, Absent)
      BY <1>2, <1>3, <2>1, <3>2, StoredPut
    <3> QED
      BY <1>13, <3>1, <3>2 DEF CallFails
  <2>3. CallsPut'
    BY <1>2, <1>3, <1>13, CallsGoOn DEF CallFails
  <2> QED
    BY <1>5, <1>13, <2>2, <2>3 DEF CallFails
<1> QED
  BY <1>7, <1>8, <1>9, <1>10, <1>11, <1>12, <1>13 DEF Call

\* The background loop.
LEMMA PutBackground ==
    ASSUME TypeOK, OnlyPutValues, Background
    PROVE  OnlyPutValues'
<1>1. PICK W : W = written
  OBVIOUS
<1>2. PICK i \in DOMAIN work :
        \/ Replicate(i) \/ ReplicateFails(i)
        \/ RebCopyDict(i) \/ RebCopyList(i) \/ RebListNodes(i)
        \/ \E n \in Node : RebSnapshot(i, n) \/ RebSnapshotFails(i, n)
        \/ RebPlan(i) \/ RebRaises(i)
        \/ IsRebalance(work[i]) /\
             \/ \E m \in work[i].moves : RebPut(i, m)
             \/ \E d \in work[i].drops : RebDelete(i, d)
             \/ \E call \in work[i].moves \cup work[i].drops : RebCallFails(i, call)
  BY DEF Background
<1>3. written' = written /\ op' = op
  BY <1>2 DEF Replicate, ReplicateFails, RebCopyDict, RebCopyList, RebListNodes, RebSnapshot,
     RebSnapshotFails, RebPlan, RebRaises, RebPut, RebDelete, RebCallFails, ghosts
<1>4. StoresPut /\ CallsPut /\ work \in Seq(PutJob(W)) /\ work[i] \in PutJob(W)
  <2>1. StoresPut /\ CallsPut /\ work \in Seq(PutJob(W))
    BY <1>1, JobsFromPut, PutParts
  <2> QED
    BY <2>1, LenProperties, ElementOfSeq
<1>5. CallsPut'
  BY <1>3, <1>4 DEF CallsPut
<1>6. ASSUME StoresPut', work' \in Seq(PutJob(W)) PROVE OnlyPutValues'
  BY <1>1, <1>3, <1>5, <1>6, PutFromParts
<1>7. ASSUME store' = store PROVE StoresPut'
  BY <1>3, <1>4, <1>7 DEF StoresPut
<1>8. RemoveAt(work, i) \in Seq(PutJob(W))
  BY <1>4, RemoveAtType
<1>9. \A j \in PutJob(W) : [work EXCEPT ![i] = j] \in Seq(PutJob(W))
  BY <1>4, LenProperties, ExceptSeq
<1>10. CASE Replicate(i)
  <2>1. work[i] \in ReplicaWrite /\ work[i].value \in written[work[i].key]
    BY <1>1, <1>4, <1>10, JobTypes DEF PutJob, Carries, Replicate, IsRebalance
  <2>2. StoresPut'
    BY <1>3, <1>4, <1>10, <2>1, StoredPut DEF Replicate, ReplicaWrite
  <2> QED
    BY <1>6, <1>8, <1>10, <2>2 DEF Replicate
<1>11. CASE ReplicateFails(i)
  BY <1>6, <1>7, <1>8, <1>11 DEF ReplicateFails
<1>12. CASE ~(Replicate(i) \/ ReplicateFails(i))
  <2>1. IsRebalance(work[i])
    BY <1>2, <1>12 DEF RebCopyDict, RebCopyList, RebListNodes, RebSnapshot,
       RebSnapshotFails, RebPlan, RebRaises, AtStep
  <2>2. /\ work[i] \in RebalanceJob
        /\ \A n \in DOMAIN work[i].snaps, k \in Key :
              work[i].snaps[n][k] \in W[k] \cup {Absent}
        /\ \A m \in work[i].moves : m.value \in W[m.key]
    BY <1>4, <2>1, JobTypes DEF PutJob, Carries
  <2>3. CASE RebCopyDict(i) \/ RebCopyList(i) \/ RebListNodes(i)
    <3>1. \A M \in SUBSET Node :
             /\ [work[i] EXCEPT !.step = "dict", !.dict = M] \in PutJob(W)
             /\ [work[i] EXCEPT !.step = "list", !.current = M] \in PutJob(W)
             /\ [work[i] EXCEPT !.step = "snapshots", !.todo = M] \in PutJob(W)
      BY <2>1, <2>2 DEF PutJob, Carries, IsRebalance, RebalanceJob, Job
    <3>2. work' \in Seq(PutJob(W))
      BY <1>9, <2>3, <3>1 DEF RebCopyDict, RebCopyList, RebListNodes, TypeOK
    <3> QED
      BY <1>6, <1>7, <2>3, <3>2 DEF RebCopyDict, RebCopyList, RebListNodes
  <2>4. ASSUME NEW n \in Node, RebSnapshot(i, n) PROVE OnlyPutValues'
    <3> DEFINE snaps == Answered(work[i].snaps, n, store[n])
               asked == [work[i] EXCEPT !.todo  = work[i].todo \ {n}, !.snaps = snaps]
    <3>1. snaps \in Snapshots
      BY <2>2, AnsweredType DEF RebalanceJob, TypeOK
    <3>2. \A m \in DOMAIN snaps, k \in Key : snaps[m][k] \in W[k] \cup {Absent}
      BY <1>1, <1>4, <2>2 DEF Answered, StoresPut
    <3> HIDE DEF snaps
    <3>3. asked \in PutJob(W)
      BY <2>1, <2>2, <3>1, <3>2 DEF PutJob, Carries, IsRebalance, RebalanceJob, Job
    <3>4. work' = [work EXCEPT ![i] = asked]
      BY <2>4 DEF RebSnapshot, snaps
    <3> HIDE DEF asked
    <3> QED
      BY <1>6, <1>7, <1>9, <2>4, <3>3, <3>4 DEF RebSnapshot
  <2>5. ASSUME NEW n \in Node, RebSnapshotFails(i, n) PROVE OnlyPutValues'
    BY <1>6, <1>7, <1>8, <2>5 DEF RebSnapshotFails
  <2>6. CASE RebPlan(i) \/ RebRaises(i)
    <3>1. ASSUME NEW step \in {"gather", "orphaned"}, NEW keys \in SUBSET Key, NEW source,
                 \A k \in keys : source[k] \in Holders(work[i].snaps, k)
          PROVE  [Rebalancing(work[i].kind, {}) EXCEPT
                     !.step  = step,
                     !.moves = Moves(work[i].current, work[i].snaps, nodes, source, keys),
                     !.drops = Drops(work[i].current, work[i].snaps, nodes, keys)]
                  \in PutJob(W)
      <4> DEFINE moves == Moves(work[i].current, work[i].snaps, nodes, source, keys)
                 drops == Drops(work[i].current, work[i].snaps, nodes, keys)
                 blank == Rebalancing(work[i].kind, {})
      <4>1. /\ moves \in SUBSET [node : Node, key : Key, value : Value]
            /\ drops \in SUBSET [node : Node, key : Key]
            /\ \A m \in moves : \E n \in DOMAIN work[i].snaps : m.value = work[i].snaps[n][m.key]
        BY <2>2, <3>1, PlannedCalls DEF TypeOK
      <4>2. \A m \in moves : m.value \in W[m.key]
        BY <2>2, <4>1, AbsentAssumption
      <4>3. blank \in RebalanceJob /\ DOMAIN blank.snaps = {} /\ IsRebalance(blank)
        BY <2>1, <2>2, JobTypes DEF RebalanceJob, Rebalancing, IsRebalance
      <4> HIDE DEF moves, drops, blank
      <4>4. [blank EXCEPT !.step = step, !.moves = moves, !.drops = drops] \in PutJob(W)
        BY <4>1, <4>2, <4>3 DEF PutJob, Carries, IsRebalance, RebalanceJob, Job
      <4> QED
        BY <4>4 DEF moves, drops, blank
    <3>2. work' \in Seq(PutJob(W))
      <4>1. /\ {MovableOf(work[i])} \in SUBSET SUBSET Key
            /\ SUBSET MovableOf(work[i]) \in SUBSET SUBSET Key
        BY MovableKeys
      <4>2. CASE CreateCalls(i, {MovableOf(work[i])}, "gather")
        BY <1>4, <3>1, <4>1, <4>2, PlanType
      <4>3. CASE CreateCalls(i, SUBSET MovableOf(work[i]), "orphaned")
        BY <1>4, <3>1, <4>1, <4>3, PlanType
      <4> QED
        BY <2>6, <4>2, <4>3 DEF RebPlan, RebRaises
    <3> QED
      BY <1>6, <1>7, <2>6, <3>2 DEF RebPlan, RebRaises
  <2>7. \A c : [work[i] EXCEPT !.moves = @ \ {c}, !.drops = @ \ {c}] \in PutJob(W)
    BY <2>1, <2>2 DEF PutJob, Carries, IsRebalance, RebalanceJob, Job
  <2>8. ASSUME NEW m \in work[i].moves, RebPut(i, m) PROVE OnlyPutValues'
    <3>1. m.node \in Node /\ m.key \in Key /\ m.value \in written[m.key]
      BY <1>1, <2>2, <2>8 DEF RebalanceJob
    <3>2. StoresPut'
      BY <1>3, <1>4, <2>8, <3>1, StoredPut DEF RebPut
    <3>3. [work[i] EXCEPT !.moves = @ \ {m}] \in PutJob(W)
      BY <2>1, <2>2 DEF PutJob, Carries, IsRebalance, RebalanceJob, Job
    <3>4. work' \in Seq(PutJob(W))
      BY <1>4, <2>8, <3>3, UpdateType DEF RebPut
    <3> QED
      BY <1>6, <3>2, <3>4
  <2>9. ASSUME NEW d \in work[i].drops, RebDelete(i, d) PROVE OnlyPutValues'
    <3>1. d.node \in Node /\ d.key \in Key
      BY <2>2, <2>9 DEF RebalanceJob
    <3>2. StoresPut'
      BY <1>3, <1>4, <2>9, <3>1, StoredPut DEF RebDelete
    <3>3. [work[i] EXCEPT !.drops = @ \ {d}] \in PutJob(W)
      BY <2>1, <2>2 DEF PutJob, Carries, IsRebalance, RebalanceJob, Job
    <3>4. work' \in Seq(PutJob(W))
      BY <1>4, <2>9, <3>3, UpdateType DEF RebDelete
    <3> QED
      BY <1>6, <3>2, <3>4
  <2>10. ASSUME NEW call, RebCallFails(i, call) PROVE OnlyPutValues'
    <3>1. work' \in Seq(PutJob(W))
      BY <1>4, <2>7, <2>10, UpdateType DEF RebCallFails
    <3> QED
      BY <1>6, <1>7, <2>10, <3>1 DEF RebCallFails
  <2> QED
    BY <1>2, <1>12, <2>3, <2>4, <2>5, <2>6, <2>8, <2>9, <2>10
<1> QED
  BY <1>10, <1>11, <1>12

\* A rebalance carries nothing when it is submitted.
LEMMA SubmittedPut ==
    ASSUME NEW W, NEW why \in {"add", "remove"}, NEW M \in SUBSET Node
    PROVE  Rebalancing(why, M) \in PutJob(W)
<1>1. Rebalancing(why, M) \in Job
  BY JobTypes DEF Job
<1> QED
  BY <1>1 DEF PutJob, Carries, IsRebalance, Rebalancing

\* The end of remove_node.
LEMMA PutSortKeys ==
    ASSUME TypeOK, OnlyPutValues, SortKeys
    PROVE  OnlyPutValues'
<1>1. PICK W : W = written
  OBVIOUS
<1>2. StoresPut /\ CallsPut /\ work \in Seq(PutJob(W))
  BY <1>1, JobsFromPut, PutParts
<1>3. Rebalancing("remove", listed) \in PutJob(W)
  BY SubmittedPut DEF TypeOK
<1>4. work' \in Seq(PutJob(W))
  BY <1>2, <1>3 DEF SortKeys
<1>5. written' = written /\ StoresPut' /\ CallsPut'
  BY <1>2 DEF SortKeys, ghosts, StoresPut, CallsPut
<1> QED
  BY <1>1, <1>4, <1>5, PutFromParts

\* Membership, time, memory and machines.
LEMMA PutElsewhere ==
    ASSUME TypeOK, OnlyPutValues, NEW n \in Node,
           \/ Ping(n) \/ Pong(n) \/ PingFails(n) \/ AddNode(n) \/ RemoveNode(n)
           \/ Expire(n) \/ Crash(n) \/ Restart(n)
           \/ \E k \in Key : Forget(n, k)
    PROVE  OnlyPutValues'
<1>1. PICK W : W = written
  OBVIOUS
<1>2. written' = written /\ op' = op
  BY DEF Ping, Pong, PingFails, AddNode, RemoveNode, Expire, Crash, Restart, Forget, ghosts
<1>3. StoresPut /\ CallsPut /\ work \in Seq(PutJob(W))
  BY <1>1, JobsFromPut, PutParts
<1>4. CallsPut'
  BY <1>2, <1>3 DEF CallsPut
<1>5. StoresPut'
  <2>1. CASE store' = store
    BY <1>2, <1>3, <2>1 DEF StoresPut
  <2>2. CASE store' = [store EXCEPT ![n] = Empty]
    BY <1>2, <1>3, <2>2 DEF StoresPut, Empty, TypeOK
  <2>3. ASSUME NEW k \in Key, Forget(n, k) PROVE StoresPut'
    BY <1>2, <1>3, <2>3, StoredPut DEF Forget
  <2> QED
    BY <2>1, <2>2, <2>3
       DEF Ping, Pong, PingFails, AddNode, RemoveNode, Expire, Crash, Restart
<1>6. work' \in Seq(PutJob(W))
  <2>1. Rebalancing("add", nodes) \in PutJob(W)
    BY SubmittedPut DEF TypeOK
  <2>2. CASE work' = work
    BY <1>3, <2>2
  <2>3. CASE AddNode(n)
    BY <1>3, <2>1, <2>3 DEF AddNode
  <2> QED
    BY <2>2, <2>3 DEF Ping, Pong, PingFails, RemoveNode, Expire, Crash, Restart, Forget
<1> QED
  BY <1>1, <1>2, <1>4, <1>5, <1>6, PutFromParts

\* Every step carries only what was put.
LEMMA OnlyPutNext ==
    ASSUME TypeOK, OnlyPutValues, [Next]_vars
    PROVE  OnlyPutValues'
<1>1. CASE UNCHANGED vars
  BY <1>1 DEF OnlyPutValues, CarriesOnlyPut, vars
<1>2. CASE Next
  BY <1>2, PutBegin, PutCall, PutBackground, PutSortKeys, PutElsewhere DEF Next
<1> QED
  BY <1>1, <1>2

\* No store, reply, replica write, snapshot or planned copy ever holds for a
\* key a value that was not put under it: not through failovers, overlapping
\* rebalances, lost calls, evictions or crashes.
THEOREM ValuesAreOnlyWhatWasPut == Spec => []OnlyPutValues
<1>1. Init => OnlyPutValues
  BY DEF Init, OnlyPutValues, Empty, Idle
<1>2. TypeOK /\ OnlyPutValues /\ [Next]_vars => OnlyPutValues'
  BY OnlyPutNext
<1> QED
  BY <1>1, <1>2, TypeCorrect, PTL DEF Spec

=============================================================================
