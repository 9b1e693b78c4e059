---------------------------- MODULE ClusterService ----------------------------
(***************************************************************************)
(* distributed_cache/cluster/service.py, DistributedCacheCluster, with the *)
(* ClusterManager, the transport and the node runtimes under it.           *)
(*                                                                         *)
(* Three kinds of process share the state: client calls and membership     *)
(* changes, coroutines of the caller's event loop; the heartbeat loop of   *)
(* api/app.py, on the same loop; and the coroutines that the service hands *)
(* to its own loop on a background thread (rebalances, replica writes).    *)
(* A coroutine gives up control at an await that suspends.  With the       *)
(* in-process transport no await suspends, except the gather of a          *)
(* rebalance, but the two loops still run in parallel; with the HTTP       *)
(* transport every transport call suspends, and may fail.                  *)
(*                                                                         *)
(* A leave takes the node out of the ring's dict before its list, and the  *)
(* background loop may copy the ring in between, or copy its dict and its  *)
(* list from two different rings.  The entries of one node come and go     *)
(* together here; module RingThreads has them one by one.                  *)
(***************************************************************************)
EXTENDS Rebalance, Sequences, SequencesExt

CONSTANTS
    Client,         \* callers of put, get and delete
    InitialNodes,   \* the nodes the manager is built with
    Temporary,      \* the values that were put with a time to live
    Http,           \* TRUE: HttpNodeTransport, FALSE: InProcessNodeTransport
    Awaited,        \* who lets the background work end first: nobody ("none"), who
                    \* writes ("writes"), who changes the membership as well ("all")
    Punctual,       \* TRUE: the heartbeat loop never lets a running node expire
    Budget          \* how often each bounded event may happen

Limited == {"put", "get", "delete", "ping", "add", "remove", "expire", "evict",
            "crash", "fault"}

ASSUME ServiceAssumption ==
    /\ Key # {}
    /\ InitialNodes \subseteq Node
    /\ Temporary \subseteq Value
    /\ {Http, Punctual} \subseteq BOOLEAN
    /\ Awaited \in {"none", "writes", "all"}
    /\ Budget \in [Limited -> Nat]

VARIABLES
    nodes,           \* the key set of _nodes, and the nodes in the dict of the ring
    listed,          \* the nodes in its sorted list
    last_heartbeat,  \* node -> "none", or the age against the timeout
    store,           \* node -> the entries of its CacheStore
    up,              \* the nodes whose process runs
    op,              \* client -> its call
    work,            \* the coroutines on the background loop, oldest first
    pings,           \* nodes whose heartbeat request is under way
    budget,          \* what is left of Budget
    written,         \* ghost: key -> the values ever put
    expected         \* ghost: key -> what it may hold, by the answers to its writers

vars == <<nodes, listed, last_heartbeat, store, up, op, work, pings, budget, written, expected>>

membership == <<nodes, listed, last_heartbeat>>
ghosts     == <<written, expected>>

-----------------------------------------------------------------------------
(***************************************************************************)
(* State                                                                   *)
(***************************************************************************)

Idle == [kind |-> "none", step |-> "replied", key |-> CHOOSE k \in Key : TRUE,
         value |-> Absent, target |-> NoNode, replica |-> NoNode]

Replication(n, k, v) == [kind |-> "replicate", node |-> n, key |-> k, value |-> v]

IsRebalance(j) == j.kind \in {"add", "remove"}

\* prev is the copy of the ring taken by the caller; dict and current are the
\* dict and the list of the one taken when the coroutine starts; todo are the
\* nodes still to be asked for a snapshot.
Rebalancing(why, prev) ==
    [kind |-> why, step |-> "submitted", prev |-> prev, dict |-> {}, current |-> {},
     todo |-> {}, snaps |-> [n \in {} |-> Empty], moves |-> {}, drops |-> {}]

Init ==
    /\ nodes = InitialNodes
    /\ listed = InitialNodes
    /\ last_heartbeat = [n \in Node |-> IF n \in InitialNodes THEN "fresh" ELSE "none"]
    /\ store = [n \in Node |-> Empty]
    /\ up = Node
    /\ op = [c \in Client |-> Idle]
    /\ work = <<>>
    /\ pings = {}
    /\ budget = Budget
    /\ written = [k \in Key |-> {}]
    /\ expected = [k \in Key |-> {Absent}]

-----------------------------------------------------------------------------
(***************************************************************************)
(* ClusterManager                                                          *)
(***************************************************************************)

Alive == {n \in Node : last_heartbeat[n] = "fresh"}

\* route_for_key: the primary if it is alive, else the replica if it is.
ServedBy(k) ==
    CASE Primary(nodes, k) \in Alive -> Primary(nodes, k)
      [] Primary(nodes, k) \notin Alive /\ Replica(nodes, k) \in Alive -> Replica(nodes, k)
      [] OTHER -> NoNode

\* Mutant of Recorded: the membership test is missing.
RecordedUnguarded(n) == [last_heartbeat EXCEPT ![n] = "fresh"]

\* record_heartbeat
Recorded(n) == IF n \in nodes THEN [last_heartbeat EXCEPT ![n] = "fresh"]
                              ELSE last_heartbeat

-----------------------------------------------------------------------------
(***************************************************************************)
(* Scheduling                                                              *)
(***************************************************************************)

Spend(event) == budget[event] > 0 /\ budget' = [budget EXCEPT ![event] = @ - 1]

Replied(c) == op[c].step = "replied"

\* remove_node is under way.  It awaits nothing, so nothing else of the caller's
\* loop runs meanwhile.
Leaving == listed # nodes

Quiet == ~Leaving /\ work = <<>> /\ \A c \in Client : Replied(c)

\* In process, a call on the caller's loop runs to its end without suspending.
CallerFree == ~Leaving /\ (Http \/ (pings = {} /\ \A c \in Client : Replied(c)))

\* Callers wait with wait_for_rebalance, and for replica writes, which no method
\* waits for, by leaving time between their calls.
WritersWait == Awaited \in {"writes", "all"} => Quiet
ChangesWait == Awaited = "all" => Quiet

\* Coroutine j is copying the ring, which it does without suspending.
Copying(j) == IsRebalance(j) /\ j.step \in {"dict", "list"}

\* In process, the background loop runs its coroutines in order.
Turn(i) ==
    /\ i \in DOMAIN work
    /\ Http \/ i = 1
    /\ \A j \in DOMAIN work : Copying(work[j]) => j = i

\* A transport call that does not get through raises: the node is down, or the
\* request times out.
Unreached(n) ==
    /\ Http
    /\ \/ n \notin up /\ UNCHANGED budget
       \/ n \in up /\ Spend("fault")

Stored(n, k, v) == [store EXCEPT ![n][k] = v]

-----------------------------------------------------------------------------
(***************************************************************************)
(* put, get, delete: the coroutine up to its first await (Begin), what its *)
(* transport calls do at the nodes, and what it does with their results.   *)
(* A call that finds no live node answers 503 and changes nothing: Begin   *)
(* leaves it out.                                                          *)
(***************************************************************************)

Begin(c, kind, k, v) ==
    /\ Replied(c)
    /\ CallerFree
    /\ ServedBy(k) # NoNode
    /\ op' = [op EXCEPT ![c] =
                 [kind |-> kind, step |-> "target", key |-> k, value |-> v,
                  target |-> ServedBy(k), replica |-> Replica(nodes, k)]]
    /\ UNCHANGED <<membership, store, up, work, pings, expected>>

At(c, kind, step) == op[c].kind = kind /\ op[c].step = step

\* The caller's loop goes on with the call.
Resumes(c, kind, step) == At(c, kind, step) /\ ~Leaving

Goto(c, step) == op' = [op EXCEPT ![c].step = step]

\* The caller has its answer; only what a get answered is kept.
Answer(c, v) ==
    op' = [op EXCEPT ![c] = [@ EXCEPT !.step = "replied", !.value = v,
                                      !.target = NoNode, !.replica = NoNode]]

\* Mutant of ReplicaUsable: neither existence nor liveness is tested.
ReplicaAssumed(c) == op[c].replica # op[c].target

\* The replica is another node than the one that served, and it is alive.
ReplicaUsable(c) == op[c].replica \in Alive \ {op[c].target}

BeginPut(c, k, v) ==
    /\ WritersWait
    /\ \A l \in Key : v \notin written[l]
    /\ Begin(c, "put", k, v)
    /\ written' = [written EXCEPT ![k] = @ \cup {v}]
    /\ Spend("put")

PutAtTarget(c) ==
    /\ At(c, "put", "target")
    /\ op[c].target \in up
    /\ store' = Stored(op[c].target, op[c].key, op[c].value)
    /\ Goto(c, "applied")
    /\ UNCHANGED <<membership, up, work, pings, budget, ghosts>>

\* The write is acknowledged: the replica write is left to the background loop.
PutReply(c) ==
    /\ Resumes(c, "put", "applied")
    /\ last_heartbeat' = Recorded(op[c].target)
    /\ work' = IF ReplicaUsable(c)
               THEN Append(work, Replication(op[c].replica, op[c].key, op[c].value))
               ELSE work
    /\ expected' = [expected EXCEPT ![op[c].key] = {op[c].value}]
    /\ Answer(c, Absent)
    /\ UNCHANGED <<nodes, listed, store, up, pings, budget, written>>

BeginGet(c, k) ==
    /\ Begin(c, "get", k, Absent)
    /\ Spend("get")
    /\ UNCHANGED written

\* Mutant of GetAtTarget: a miss is final.
GetAtTargetOnly(c) ==
    LET found == store[op[c].target][op[c].key]
    IN  /\ Resumes(c, "get", "target")
        /\ op[c].target \in up
        /\ last_heartbeat' = IF found # Absent THEN Recorded(op[c].target) ELSE last_heartbeat
        /\ Answer(c, found)
        /\ UNCHANGED <<nodes, listed, store, up, work, pings, budget, ghosts>>

GetAtTarget(c) ==
    LET found == store[op[c].target][op[c].key]
    IN  /\ Resumes(c, "get", "target")
        /\ op[c].target \in up
        /\ \/ /\ found # Absent
              /\ last_heartbeat' = Recorded(op[c].target)
              /\ Answer(c, found)
           \/ /\ found = Absent
              /\ IF ReplicaUsable(c) THEN Goto(c, "replica") ELSE Answer(c, Absent)
              /\ UNCHANGED last_heartbeat
        /\ UNCHANGED <<nodes, listed, store, up, work, pings, budget, ghosts>>

GetAtReplica(c) ==
    /\ Resumes(c, "get", "replica")
    /\ op[c].replica \in up
    /\ Answer(c, store[op[c].replica][op[c].key])
    /\ UNCHANGED <<membership, store, up, work, pings, budget, ghosts>>

BeginDelete(c, k) ==
    /\ WritersWait
    /\ Begin(c, "delete", k, Absent)
    /\ Spend("delete")
    /\ UNCHANGED written

\* A target that does not hold the key ends the call with 404: the replica is
\* not asked.
DeleteAtTarget(c) ==
    LET n == op[c].target
        k == op[c].key
    IN  /\ Resumes(c, "delete", "target")
        /\ n \in up
        /\ store' = Stored(n, k, Absent)
        /\ IF store[n][k] # Absent /\ ReplicaUsable(c)
           THEN Goto(c, "replica")
           ELSE Answer(c, Absent)
        /\ expected' = IF store[n][k] # Absent /\ ~ReplicaUsable(c)
                       THEN [expected EXCEPT ![k] = {Absent}]
                       ELSE expected
        /\ UNCHANGED <<membership, up, work, pings, budget, written>>

\* The result of the replica's delete is ignored.
DeleteAtReplica(c) ==
    /\ Resumes(c, "delete", "replica")
    /\ op[c].replica \in up
    /\ store' = Stored(op[c].replica, op[c].key, Absent)
    /\ expected' = [expected EXCEPT ![op[c].key] = {Absent}]
    /\ Answer(c, Absent)
    /\ UNCHANGED <<membership, up, work, pings, budget, written>>

\* Mutant of CallFails: a call of the replica is awaited for ever.
CallAtTargetFails(c) ==
    /\ op[c].step \in {"target", "applied"} /\ ~Leaving
    /\ Unreached(op[c].target)
    /\ op' = [op EXCEPT ![c] = Idle]
    /\ UNCHANGED <<membership, store, up, work, pings, ghosts>>

\* A transport call that raises ends the call.  The node may have acted on it,
\* so a put or delete that fails may or may not have happened.
CallFails(c) ==
    LET n == IF op[c].step = "replica" THEN op[c].replica ELSE op[c].target
    IN  /\ ~Replied(c) /\ ~Leaving
        /\ Unreached(n)
        /\ \/ UNCHANGED store
           \/ n \in up /\ op[c].kind = "delete" /\ store' = Stored(n, op[c].key, Absent)
        /\ expected' = IF op[c].kind = "get" THEN expected
                       ELSE [expected EXCEPT ![op[c].key] = @ \cup {op[c].value}]
        /\ op' = [op EXCEPT ![c] = Idle]
        /\ UNCHANGED <<membership, up, work, pings, written>>

-----------------------------------------------------------------------------
(***************************************************************************)
(* heartbeat, add_node, remove_node                                        *)
(***************************************************************************)

\* The heartbeat loop, or a caller of the heartbeat endpoint, asks a member.
Ping(n) ==
    /\ n \in nodes \ pings
    /\ CallerFree
    /\ Spend("ping")
    /\ pings' = pings \cup {n}
    /\ UNCHANGED <<membership, store, up, op, work, ghosts>>

Pong(n) ==
    /\ n \in pings \cap up /\ ~Leaving
    /\ last_heartbeat' = Recorded(n)
    /\ pings' = pings \ {n}
    /\ UNCHANGED <<nodes, listed, store, up, op, work, budget, ghosts>>

PingFails(n) ==
    /\ n \in pings /\ ~Leaving
    /\ Unreached(n)
    /\ pings' = pings \ {n}
    /\ UNCHANGED <<membership, store, up, op, work, ghosts>>

\* A node the cluster has already answers 409 and changes nothing.  In process,
\* register_node gives the node a new runtime; over HTTP the node's process
\* keeps what it has.  A copy of the ring that is taken while the new node is in
\* the dict and not in the list answers as one taken before.
AddNode(n) ==
    /\ n \notin nodes
    /\ CallerFree /\ ChangesWait
    /\ Spend("add")
    /\ store' = IF Http THEN store ELSE [store EXCEPT ![n] = Empty]
    /\ nodes' = nodes \cup {n}
    /\ listed' = nodes'
    /\ last_heartbeat' = [last_heartbeat EXCEPT ![n] = IF @ = "none" THEN "fresh" ELSE @]
    /\ work' = Append(work, Rebalancing("add", nodes))
    /\ UNCHANGED <<up, op, pings, ghosts>>

\* A node the cluster does not have answers 404 and changes nothing.  The
\* entries of the dict go first.
RemoveNode(n) ==
    /\ n \in nodes
    /\ CallerFree /\ ChangesWait
    /\ Spend("remove")
    /\ nodes' = nodes \ {n}
    /\ last_heartbeat' = [last_heartbeat EXCEPT ![n] = "none"]
    /\ UNCHANGED <<listed, store, up, op, work, pings, ghosts>>

\* Then the list is made anew, and the rebalance submitted.
SortKeys ==
    /\ Leaving
    /\ listed' = nodes
    /\ work' = Append(work, Rebalancing("remove", listed))
    /\ UNCHANGED <<nodes, last_heartbeat, store, up, op, pings, budget, ghosts>>

-----------------------------------------------------------------------------
(***************************************************************************)
(* The background loop.  work[i] is a coroutine; what it raises is caught  *)
(* and printed, so a failure only takes it off the loop.                   *)
(***************************************************************************)

AtStep(i, step) == IsRebalance(work[i]) /\ work[i].step = step /\ Turn(i)

\* Mutant of Update: a rebalance whose gather has ended is left on the loop.
UpdateKept(i, job) == work' = [work EXCEPT ![i] = job]

\* Coroutine i has become job; the gather ends when all its calls have.
Update(i, job) ==
    work' = IF job.moves = {} /\ job.drops = {}
            THEN RemoveAt(work, i)
            ELSE [work EXCEPT ![i] = job]

Replicate(i) ==
    /\ work[i].kind = "replicate"
    /\ Turn(i)
    /\ work[i].node \in up
    /\ store' = Stored(work[i].node, work[i].key, work[i].value)
    /\ work' = RemoveAt(work, i)
    /\ UNCHANGED <<membership, up, op, pings, budget, ghosts>>

ReplicateFails(i) ==
    /\ work[i].kind = "replicate"
    /\ Turn(i)
    /\ Unreached(work[i].node)
    /\ work' = RemoveAt(work, i)
    /\ UNCHANGED <<membership, store, up, op, pings, ghosts>>

\* The ring is copied, dict and list one after the other, and the nodes are
\* listed, when the loop gets to the coroutine, not when the change was made.
RebCopyDict(i) ==
    /\ AtStep(i, "submitted")
    /\ \A j \in 1 .. i - 1 : IsRebalance(work[j]) => work[j].step # "submitted"
    /\ work' = [work EXCEPT ![i] = [@ EXCEPT !.step = "dict", !.dict = nodes]]
    /\ UNCHANGED <<membership, store, up, op, pings, budget, ghosts>>

RebCopyList(i) ==
    /\ AtStep(i, "dict")
    /\ work' = [work EXCEPT ![i] = [@ EXCEPT !.step = "list", !.current = listed]]
    /\ UNCHANGED <<membership, store, up, op, pings, budget, ghosts>>

RebListNodes(i) ==
    /\ AtStep(i, "list")
    /\ work' = [work EXCEPT ![i] = [@ EXCEPT !.step = "snapshots", !.todo = nodes]]
    /\ UNCHANGED <<membership, store, up, op, pings, budget, ghosts>>

Answered(snaps, n, entries) ==
    [m \in DOMAIN snaps \cup {n} |-> IF m = n THEN entries ELSE snaps[m]]

RebSnapshot(i, n) ==
    LET job == work[i]
    IN  /\ AtStep(i, "snapshots")
        /\ n \in job.todo \cap up
        /\ work' = [work EXCEPT ![i] = [job EXCEPT !.todo  = job.todo \ {n},
                                                   !.snaps = Answered(job.snaps, n, store[n])]]
        /\ UNCHANGED <<membership, store, up, op, pings, budget, ghosts>>

\* Mutant of RebSnapshotFails: the node is asked again.
RebSnapshotRetried(i, n) ==
    /\ AtStep(i, "snapshots")
    /\ n \in work[i].todo
    /\ Unreached(n)
    /\ UNCHANGED <<membership, store, up, op, work, pings, ghosts>>

\* One snapshot that fails ends the whole rebalance.
RebSnapshotFails(i, n) ==
    /\ AtStep(i, "snapshots")
    /\ n \in work[i].todo
    /\ Unreached(n)
    /\ work' = RemoveAt(work, i)
    /\ UNCHANGED <<membership, store, up, op, pings, ghosts>>

\* A key is left alone if its entry's time to live ran out since the snapshot.
\* Over HTTP expires_at is read off another machine's clock, so this may be
\* wrong; in process the source has then dropped the entry itself.
Lapsed(source, snaps, k) ==
    /\ snaps[source[k]][k] \in Temporary
    /\ Http \/ store[source[k]][k] # snaps[source[k]][k]

\* The transport calls for some choice of keys are created.  In process they
\* queue up behind the coroutines whose task exists already; one submitted
\* meanwhile gets its task after them.
CreateCalls(i, choices, step) ==
    LET job == work[i]
    IN  \E keys \in choices : \E source \in [keys -> DOMAIN job.snaps] :
          \E lapsed \in SUBSET keys :
            LET copied  == keys \ lapsed
                planned == [Rebalancing(job.kind, {}) EXCEPT
                              !.step  = step,
                              !.moves = Moves(job.current, job.snaps, nodes, source, copied),
                              !.drops = Drops(job.current, job.snaps, nodes, copied)]
            IN  /\ \A k \in keys : source[k] \in
                      Sources(job.kind, job.prev, job.current, job.snaps, Alive, k)
                /\ \A k \in lapsed : Lapsed(source, job.snaps, k)
                /\ \/ Update(i, planned)
                   \/ /\ ~Http
                      /\ planned.moves # {} \/ planned.drops # {}
                      /\ \E p \in 2 .. Len(work) :
                           work' = InsertAt(Tail(work), p, planned)

MovableOf(job) == Movable(job.prev, job.dict, job.current, job.snaps)
RaisingOf(job) == Raising(job.prev, job.dict, job.current, job.snaps)

\* All transport calls of the rebalance are created at once.
RebPlan(i) ==
    /\ AtStep(i, "snapshots")
    /\ work[i].todo = {}
    /\ RaisingOf(work[i]) = {}
    /\ CreateCalls(i, {MovableOf(work[i])}, "gather")
    /\ UNCHANGED <<membership, store, up, op, pings, budget, ghosts>>

\* A lookup on a torn copy of the ring ends the rebalance, which is not repeated.
\* The calls for the keys it got to before (in the order of their names, which is
\* left open) have their tasks, which run although nobody waits for them.
RebRaises(i) ==
    /\ AtStep(i, "snapshots")
    /\ work[i].todo = {}
    /\ RaisingOf(work[i]) # {}
    /\ CreateCalls(i, SUBSET MovableOf(work[i]), "orphaned")
    /\ UNCHANGED <<membership, store, up, op, pings, budget, ghosts>>

\* The calls of rebalance i run.
HasCalls(i) == AtStep(i, "gather") \/ AtStep(i, "orphaned")

RebPut(i, m) ==
    /\ HasCalls(i)
    /\ m \in work[i].moves
    /\ m.node \in up
    /\ store' = Stored(m.node, m.key, m.value)
    /\ Update(i, [work[i] EXCEPT !.moves = @ \ {m}])
    /\ UNCHANGED <<membership, up, op, pings, budget, ghosts>>

\* Mutant of RebDelete: the calls of a gather run in any order.
RebDeleteAtOnce(i, d) ==
    /\ HasCalls(i)
    /\ d \in work[i].drops
    /\ d.node \in up
    /\ store' = Stored(d.node, d.key, Absent)
    /\ Update(i, [work[i] EXCEPT !.drops = @ \ {d}])
    /\ UNCHANGED <<membership, up, op, pings, budget, ghosts>>

\* In process the calls of a gather run in the order they were created: the
\* copies of a key before its deletions.
RebDelete(i, d) ==
    /\ HasCalls(i)
    /\ d \in work[i].drops
    /\ Http \/ \A m \in work[i].moves : m.key # d.key
    /\ d.node \in up
    /\ store' = Stored(d.node, d.key, Absent)
    /\ Update(i, [work[i] EXCEPT !.drops = @ \ {d}])
    /\ UNCHANGED <<membership, up, op, pings, budget, ghosts>>

\* A call of the gather that raises takes none of the others with it.
RebCallFails(i, call) ==
    /\ HasCalls(i)
    /\ call \in work[i].moves \cup work[i].drops
    /\ Unreached(call.node)
    /\ Update(i, [work[i] EXCEPT !.moves = @ \ {call}, !.drops = @ \ {call}])
    /\ UNCHANGED <<membership, store, up, op, pings, ghosts>>

-----------------------------------------------------------------------------
(***************************************************************************)
(* Time, memory and machines                                               *)
(***************************************************************************)

\* heartbeat_timeout_seconds pass since the last heartbeat.
Expire(n) ==
    /\ last_heartbeat[n] = "fresh"
    /\ Punctual => n \notin up
    /\ Spend("expire")
    /\ last_heartbeat' = [last_heartbeat EXCEPT ![n] = "stale"]
    /\ UNCHANGED <<nodes, listed, store, up, op, work, pings, ghosts>>

\* An entry's time to live runs out, or the store evicts it.
Forget(n, k) ==
    /\ store[n][k] # Absent
    /\ \/ store[n][k] \in Temporary /\ UNCHANGED budget
       \/ Spend("evict")
    /\ store' = Stored(n, k, Absent)
    /\ UNCHANGED <<membership, up, op, work, pings, ghosts>>

\* Entries live in the memory of the node's process.
Crash(n) ==
    /\ Http /\ ChangesWait
    /\ n \in up
    /\ Spend("crash")
    /\ up' = up \ {n}
    /\ store' = [store EXCEPT ![n] = Empty]
    /\ UNCHANGED <<membership, op, work, pings, ghosts>>

Restart(n) ==
    /\ n \notin up
    /\ up' = up \cup {n}
    /\ UNCHANGED <<membership, store, op, work, pings, budget, ghosts>>

-----------------------------------------------------------------------------
Call(c) ==
    \/ PutAtTarget(c) \/ PutReply(c)
    \/ GetAtTarget(c) \/ GetAtReplica(c)
    \/ DeleteAtTarget(c) \/ DeleteAtReplica(c)
    \/ CallFails(c)

Background ==
    \E i \in DOMAIN work :
        \/ Replicate(i) \/ ReplicateFails(i)
        \/ RebCopyDict(i) \/ RebCopyList(i) \/ RebListNodes(i)
        \/ \E n \in Node : RebSnapshot(i, n) \/ RebSnapshotFails(i, n)
        \/ RebPlan(i) \/ RebRaises(i)
        \/ IsRebalance(work[i]) /\
             \/ \E m \in work[i].moves : RebPut(i, m)
             \/ \E d \in work[i].drops : RebDelete(i, d)
             \/ \E call \in work[i].moves \cup work[i].drops : RebCallFails(i, call)

Next ==
    \/ \E c \in Client, k \in Key :
          BeginGet(c, k) \/ BeginDelete(c, k) \/ \E v \in Value : BeginPut(c, k, v)
    \/ \E c \in Client : Call(c)
    \/ Background \/ SortKeys
    \/ \E n \in Node :
          \/ Ping(n) \/ Pong(n) \/ PingFails(n)
          \/ AddNode(n) \/ RemoveNode(n)
          \/ Expire(n) \/ Crash(n) \/ Restart(n)
          \/ \E k \in Key : Forget(n, k)

Spec == Init /\ [][Next]_vars

\* Both threads run, and every transport call ends: with a reply, or with an
\* exception (the HTTP client's timeout).
Fairness ==
    WF_vars(Background) /\ WF_vars(SortKeys) /\ \A c \in Client : WF_vars(Call(c))

FairSpec == Spec /\ Fairness

-----------------------------------------------------------------------------
(***************************************************************************)
(* Properties                                                              *)
(***************************************************************************)

CallState ==
    [kind : {"none", "put", "get", "delete"},
     step : {"replied", "target", "applied", "replica"},
     key : Key, value : Value \cup {Absent},
     target : Node \cup {NoNode}, replica : Node \cup {NoNode}]

ReplicaWrite == [kind : {"replicate"}, node : Node, key : Key, value : Value]

Snapshots == UNION {[S -> Entries] : S \in SUBSET Node}

RebalanceJob ==
    [kind : {"add", "remove"},
     step : {"submitted", "dict", "list", "snapshots", "gather", "orphaned"},
     prev : SUBSET Node, dict : SUBSET Node, current : SUBSET Node, todo : SUBSET Node,
     snaps : Snapshots,
     moves : SUBSET [node : Node, key : Key, value : Value],
     drops : SUBSET [node : Node, key : Key]]

CallOK(call) ==
    /\ call \in CallState
    /\ call.step # "replied" => call.target \in Node /\ call.kind # "none"
    /\ call.step = "applied" => call.kind = "put"
    /\ call.step = "replica" => call.replica \in Node /\ call.kind \in {"get", "delete"}
    /\ call.step # "replied" /\ call.kind = "put" => call.value \in Value

\* Type invariant.
TypeOK ==
    /\ nodes \in SUBSET Node /\ listed \in SUBSET Node
    /\ last_heartbeat \in [Node -> {"none", "fresh", "stale"}]
    /\ store \in [Node -> Entries]
    /\ up \in SUBSET Node
    /\ op \in [Client -> CallState] /\ \A c \in Client : CallOK(op[c])
    /\ work \in Seq(ReplicaWrite \cup RebalanceJob)
    /\ pings \in SUBSET Node
    /\ budget \in [Limited -> Nat]
    /\ written \in [Key -> SUBSET Value]
    /\ expected \in [Key -> SUBSET (Value \cup {Absent})]

\* The liveness table has an entry for the members and for no one else, however
\* heartbeats, acknowledged calls and removals interleave: a late answer of a
\* removed node does not bring its entry back (record_heartbeat, remove_node).
HeartbeatsOnlyForMembers ==
    \A n \in Node : last_heartbeat[n] # "none" <=> n \in nodes

\* What a call, a replica write, a snapshot, a planned copy or a store carries
\* for a key was put under that key: no rebalance or failover mixes up entries,
\* and a get never answers with a value nobody put there.
CarriesOnlyPut(j) ==
    IF IsRebalance(j)
    THEN /\ \A n \in DOMAIN j.snaps, k \in Key : j.snaps[n][k] \in written[k] \cup {Absent}
         /\ \A m \in j.moves : m.value \in written[m.key]
    ELSE j.value \in written[j.key]

OnlyPutValues ==
    /\ \A n \in Node, k \in Key : store[n][k] \in written[k] \cup {Absent}
    /\ \A c \in Client : op[c].value \in written[op[c].key] \cup {Absent}
    /\ \A i \in DOMAIN work : CarriesOnlyPut(work[i])

\* A get answers with what the last acknowledged put or delete of the key left
\* (or a later one that failed), in the middle of a rebalance and of a failover
\* as well (get: the primary, else the replica).  For one client.
GetsLatestAck ==
    \A c \in Client :
        At(c, "get", "replied") => op[c].value \in expected[op[c].key]

\* When nothing is under way, exactly the owners of a key hold it, all with
\* the value of the last acknowledged put: every join and leave moved every
\* key to where the ring looks for it and left no copy behind.
OwnersHoldAcked ==
    Quiet => \A k \in Key, n \in nodes :
        IF n \in Owners(nodes, k) THEN store[n][k] \in expected[k]
                                  ELSE store[n][k] = Absent

\* When nothing is under way, a key that was put and not deleted is held by its
\* primary, with its latest value.
AckedIsDurable ==
    Quiet /\ nodes # {} =>
        \A k \in Key : Absent \notin expected[k] =>
            store[Primary(nodes, k)][k] \in expected[k]

\* When nothing is under way, a key that was put and not deleted can be read, with
\* its latest value: from its primary or, if that has nothing, from its replica.
\* A rebalance that ended on a torn copy of the ring costs no more than that.
AckedStaysReadable ==
    Quiet /\ nodes # {} =>
        \A k \in Key : Absent \notin expected[k] =>
            \/ store[Primary(nodes, k)][k] \in expected[k]
            \/ /\ store[Primary(nodes, k)][k] = Absent
               /\ Replica(nodes, k) # NoNode
               /\ store[Replica(nodes, k)][k] \in expected[k]

\* While a rebalance after a join is under way, and nothing else, a key that was put
\* and not deleted never has fewer copies than it had before, two: the gather
\* makes the new copies before it deletes the old ones (_rebalance_after_add; in
\* process, where it runs its calls in order).
JoinsKeepTwoCopies ==
    /\ Len(work) = 1 /\ work[1].kind = "add"
    /\ Cardinality(nodes) > 2
    /\ \A c \in Client : Replied(c)
    => \A k \in Key : Absent \notin expected[k] =>
          Cardinality({n \in nodes : store[n][k] \in expected[k]}) >= 2

\* The background work always comes to an end: no failed or hung node keeps a
\* rebalance or a replica write on the loop for ever (wait_for_rebalance returns).
BackgroundDrains == []<>(work = <<>>)

\* Every put, get and delete returns to its caller.
CallsReturn == \A c \in Client : ~Replied(c) ~> Replied(c)

=============================================================================
