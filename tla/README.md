# Verification of the distributed cache

This directory holds TLA+ models of `src/distributed_cache` and of the
demonstrations in `src/scripts` that run a cluster, the TLC configurations that
check them on small instances, and TLAPS proofs of most of their safety
properties for every value of the constants. `PROJECT.json` lists the
components, the runs, the mutated definitions that show each property can fail,
the source lines behind each definition, the hazards and the theorems.

    tlc -workers 2 -config service_settled.cfg MCClusterService
    tlapm ClusterServiceProofs.tla

## 1. The system

The program is a Redis-like cache of several nodes behind a gateway. A key has a
primary, found on a consistent hash ring, and a replica, the next other node on
the ring. The gateway routes, replicates, and moves keys when nodes join or leave.

| component | source | state | operations |
|---|---|---|---|
| Consistent hash ring | `cluster/consistent_hash.py` | `_nodes`, `_ring` (hash -> node), `_sorted_keys` | `add_node`, `remove_node`, `get_node`, `get_successor_for_key`, `clone` |
| Cluster manager | `cluster/manager.py` | the ring, `_last_heartbeat` | membership, `record_heartbeat`, `is_alive`, `route_for_key` |
| Cluster service | `cluster/service.py` | the loop of a background thread and the coroutines on it, `_rebalance_future` | `put`, `get`, `delete`, `heartbeat`, `add_node`, `remove_node`, `wait_for_rebalance`; in the background `_replicate_async` and the two rebalances |
| Transports | `cluster/transport.py` | the runtimes of the in-process transport | put, get, delete, heartbeat, snapshot at a node, by a method call or by HTTP |
| Node runtime, node server | `cluster/runtime.py`, `node_app.py` | a `CacheStore` | the same five at the node |
| Cache store | `cache/store.py` | `_entries`, `_expiration_heap`, a cleanup thread | `put`, `get`, `delete`, `clear`, `items`, `snapshot`, the cleanup pass |
| Public API | `api/app.py` | the heartbeat task | the HTTP endpoints, the heartbeat loop |
| Entry points | `entrypoint.py` | none | the fixed membership and the timeouts of a deployment |
| Demonstrations | `verify_rebalancing.py`, `verify_node_removal.py`, `failover_mapping_explained.py` | what they have put, read and reported | one `main()` each, the only caller of a cluster in its process |
| Benchmarks, metrics, deployment | the rest of `src/scripts`, `docker-compose.yml` | none of the cluster | measuring and drawing |

**How they interact.** A call of the API is a coroutine on the caller's event
loop. It routes once (`route_for_key`), awaits one or two transport calls with
that routing, and records a heartbeat. `put` hands the write of the replica to a second
event loop, which runs on a thread of its own (`_submit_bg`). `add_node` and `remove_node` change the
ring at once, and hand a rebalance to the same loop. A rebalance clones the
current ring, asks every node for a snapshot, decides which keys have changed
owners, and then runs all copies and deletions in one `gather`. Both loops, the
heartbeat loop and the cleanup threads share the manager and the stores.

**What is hard.**

- *Interleaving.* With HTTP every await suspends; with the in-process transport
  none does, but the two loops still run in parallel. Routing, snapshots and
  ring copies are used after the state they came from has changed, and a ring is
  cloned while another thread changes it.
- *Ordering.* Replica writes and rebalances are separate coroutines. In process
  the background loop runs them in the order of submission, over HTTP not.
- *Failure.* A node may be down, hang, answer late, or restart empty; a call may
  fail at its caller and still have had its effect; a rebalance catches its
  exceptions and is never repeated.
- *Time.* Liveness is the age of a heartbeat, and one loop asks all nodes in
  turn; entries expire by the clock of their node.
- *Limits.* The store evicts at `max_items`, and its cleanup thread works from
  a heap with records that are out of date.

**What makes each part correct.**

- Ring: the dict is exactly the virtual nodes of the members, the list its keys in order; both lookups
  answer the clockwise neighbour; a change moves only the keys it has to, and
  leaves one of the two owners of every key in place; a clone taken during a
  change answers what one ring answers, or raises.
- Manager: the liveness table covers exactly the members, whatever answers come
  late; nodes that fail are presumed dead, nodes that run are not, within the
  limits that the timeouts set.
- Service: gets answer the last acknowledged write; changes of the membership
  lose nothing and, when they wait for each other, leave every key with its owners and nowhere else; nothing is
  stored under a key that was not put there; all work in the background ends.
- Store: a map that forgets entries at their deadline and, beyond the limit, the
  least recently used one; nothing expired stays for ever.
- Demonstrations: what they report is so, and they end.

## 2. The modules

| module | models | used by |
|---|---|---|
| `Ring` | what the lookups answer, as functions of a ring; the sorted list, `bisect` and the index walk | `HashRing`, `RingThreads`, `Rebalance` |
| `HashRing` | the ring's three fields and its lookups; a change is atomic | `RingThreads` (by `INSTANCE`), `MCHashRing` |
| `RingThreads` | the ring between the caller's thread, which changes it entry by entry, and the background thread, which clones it | `MCRingThreads` |
| `Rebalance` | the decisions of a rebalance: affected keys, source, copies, deletions | `ClusterService` |
| `ClusterService` | manager, service, transports, nodes, heartbeats, crashes | `Scripts`, `MCClusterService` |
| `Scripts` | the three demonstrations, composed with `ClusterService` | `MCScripts` |
| `Heartbeat` | the heartbeat loop against the clock | `MCHeartbeat` |
| `ForgetfulMap` | what a store promises (abstract) | `CacheStore` (by `INSTANCE`) |
| `CacheStore` | the store with its order of use, heap and cleanup thread | `MCCacheStore` |
| `RingProofs`, `HashRingProofs`, `RingThreadsProofs`, `ClusterServiceProofs`, `HeartbeatProofs`, `CacheStoreProofs` | theorems about the modules of these names | `RingProofs` by all but the last two |
| `ServiceSettledProofs` | theorems about the service in process, for callers that wait; extends `ClusterServiceProofs` | `ScriptsProofs` |
| `ScriptsProofs` | theorems about the demonstrations | |

A definition whose comment calls it a mutant of another is not part of the
model: put in place of the other, it makes the property fail that it is listed with.

### Ring, HashRing, RingThreads

`HashRing` has the fields of `ConsistentHashRing` and a frozen variable
`placement`, the hashes of the virtual nodes of each node. `Init` picks every
placement without collisions, so one run covers every ring layout of its
size. `BisectRight`, `StartIndex`, `Walked`, `GetNode` and `GetSuccessorForKey` are the
algorithm of the source on `sorted_keys`; `NodeAt` and `SuccessorAt` in `Ring` say what
it should find. The service modules use the latter, with a ring
named by its set of members: that this loses nothing is what
`RingMatchesMembers` and `LookupsMeetReference` say.

`RingThreads` cuts the same operations where the other thread can come between:
`BeginAdd` and `BeginRemove` (the node table), `PutEntry` and `PopEntry` (one dict
store each), `SortKeys` (the assignment of the new list); and `clone` into `CopyRing` and
`CopyKeys`. Nothing in the source takes a lock; CPython's global one makes each of
these a step. `ImplementsHashRing` maps this to `HashRing`, with the members that the
*list* shows: to a reader that goes through the list, a change happens when the list is replaced.
A torn copy makes a lookup raise; `_run_rebalance_task` catches that, so the rebalance ends there and is never
repeated. What this does to the keys is in `ClusterService` (`RebRaises`, below).

### Rebalance and ClusterService

The state of `ClusterService`: `nodes` (the members, which are the nodes in the ring's dict), `listed` (the nodes in its
sorted list, which differ from the members in the middle of a leave only), `last_heartbeat` (`"none"`, `"fresh"`,
`"stale"` for no entry, within and beyond the timeout), `store` (the
entries of each node), `up` (the processes that run), `op` (the call of each client,
with the routing it took before its first await), `work` (the coroutines on the
background loop, in order), `pings` (heartbeat requests under way). Two ghosts, `written` and
`expected`, keep the values ever put under a key and what its copies may hold by
the answers that its writers had: a failed put or delete leaves both the old and the new.

A coroutine is cut at the awaits that suspend, and each piece is an action:

| code | actions |
|---|---|
| `put` | `BeginPut` (routing) - `PutAtTarget` (the node) - `PutReply` (heartbeat, replica write submitted, answer) |
| `get` | `BeginGet` - `GetAtTarget` - `GetAtReplica` after a miss |
| `delete` | `BeginDelete` - `DeleteAtTarget` - `DeleteAtReplica` |
| a transport call that raises | `CallFails`, `PingFails`, `ReplicateFails`, `RebSnapshotFails`, `RebCallFails` |
| `heartbeat`, the loop of `api/app.py` | `Ping` - `Pong` |
| `add_node` | `AddNode` |
| `remove_node` | `RemoveNode` (members, liveness table, the ring's dict) - `SortKeys` (its list; rebalance submitted) |
| `_replicate_async` | `Replicate` |
| `_rebalance_after_add`, `_after_remove` | `RebCopyDict`, `RebCopyList` (ring copied) - `RebListNodes` - `RebSnapshot` per node - `RebPlan` (decisions, calls created) or `RebRaises` (a lookup on a torn copy raises) - `RebPut`, `RebDelete` per call |
| the age of a heartbeat, time to live and eviction, processes | `Expire`, `Forget`, `Crash`, `Restart` |

`Http` selects the transport. In process, `CallerFree` makes the calls of the
caller's loop run to their end one at a time, and `Turn` lets only the oldest
coroutine of the background loop run, until its `gather`; its calls then queue up
behind the coroutines whose tasks exist already (`CreateCalls`), and run in the order they
were created (`RebDelete`). Over HTTP all of
them interleave. Which snapshot a key is copied from, when several hold it, depends on
the order of a dict and is left open.

The background thread copies the ring's dict, then its list, then lists the members, while the caller's thread
may change all three. A leave is therefore cut in two (`Leaving`): the caller's loop runs nothing else until `SortKeys`, but the
background loop may. A copy whose list leads a key to a node that its dict lacks raises for that key
(`Raises` in `Rebalance`). The rebalance then ends and is not repeated; the calls that it has created
for earlier keys have their tasks already and still run, with nobody waiting for them (step `"orphaned"`).
A join needs no cut: a copy with the new node in its dict and not in its list answers as one taken
before the join. The virtual nodes of one node come and go together here; that a copy with
only some of them still raises or answers one ring is `CopyAnswersARing` of `RingThreads`.

`Awaited` is the discipline of the callers: nobody waits (`"none"`), who writes lets all background work end first
(`"writes"`), or who changes the membership does so as well (`"all"`). `wait_for_rebalance` does it for rebalances; no method of the
service waits for replica writes, so there it stands for calls that are far enough apart.
`Punctual` says that the heartbeat loop never lets a node that runs expire; what that takes is
the subject of `Heartbeat`.

### Scripts

`ScriptInit` picks one of the three scripts and the node it adds or removes; `line` is how
far its `main()` is. Each action of `Scripts` that calls the cluster is an action of
`ClusterService` with the script's own guard, and `Call` and `Background` run beside it.
A result that lacks an entry that the script reads ends it (`KeyError`). The background loop is a daemon thread (`cluster/service.py:35`):
when `main()` has returned, it may stop anywhere, so `ScriptSpec` is fair to it only until then (`Running`). The nodes have different
places on the ring and every node is the subject of some behaviour, so every place of the subject
among the others is covered.

### Heartbeat

`step`, `at` and `waited` are the loop: which node it asks, or that it sleeps, and for how
long. `health` is what a node does with a request: answer within `Latency`, hang, or refuse.
`age` is how old each entry of `_last_heartbeat` is, up to `MaxAge`. Puts and gets record heartbeats
as well, of nodes that count as alive (`Serve`, `Served`), and so does the endpoint.
httpx applies its timeout of 2.0 s to each phase of a request; the model takes it as the bound of
the whole request. A node that is slow in every phase can hold up the loop for longer, which is a larger
`RequestTimeout`: the proofs hold for any.

### ForgetfulMap and CacheStore

Each method holds the lock and is one step, but `put` computes its deadline
before the lock (`BeginPut`) and stores after it (`FinishPut`). A put with a time to live of zero or less deletes
the key and returns (`PutExpired`; zero in `Ttl` stands for both). The order of the
`OrderedDict` is a set of pairs of keys, the heap a set of records (a second equal
record is popped without effect). A cleanup pass holds the lock from its first record to
its last and is one step. The ghosts `recency` and `latest` say which keys were used
last and what was last put. `Promise` maps a store to a `ForgetfulMap` whose
contents are the entries that are not expired: lazy expiration, reclaiming in
`snapshot`, and the cleanup thread become stuttering steps. This also justifies the action
`Forget` of `ClusterService`, where an entry may vanish at any time if it has a time
to live, or by eviction.

## 3. The runs

| run | question | bounds |
|---|---|---|
| `hash_ring` | Is the ring right after any joins and leaves, do the searches in the list answer what the ring says, and does a change move only what it must? | 4 nodes, 2 virtual nodes each, hashes 0..7, every placement (while a node is out, keys hash between virtual nodes too) |
| `ring_threads` | What does a clone answer that was taken while the ring changed? To readers of the list, are changes atomic? | 3 nodes, 2 virtual nodes each, hashes 0..5, every placement; 2 changes begin during one clone |
| `service_settled` | In process, callers that wait for everything: do gets answer the last write, also during a rebalance, is every key with its owners and nowhere else after joins and leaves, and does a join never leave fewer than two copies? | 4 nodes of which 3 at first, 2 keys; 2 puts, 1 get, 1 delete, 1 join, 2 leaves |
| `service_overlap` | In process, changes of the membership wait for nothing: can every acknowledged put still be read after rebalances that overlap or raise, and does any copy carry a value of another key? | 4 nodes of which 3 at first, 2 keys; 3 puts, 1 join, 1 leave |
| `service_failover` | Over HTTP, a node crashes and restarts empty: are reads through the replica right? | 3 nodes; 3 puts, 1 get, 1 crash, 2 heartbeats, 2 expiries |
| `service_faults` | Over HTTP with a crash, a lost call and a leave: do liveness table and members stay together, does all background work end, does every call return? | 3 nodes, 1 key; 1 put, 1 get, 1 leave, 1 crash, 1 call that times out, 1 eviction, an entry that expires at any time |
| `scripts` | Is what the demonstrations report so, although they wait for rebalances only, or for nothing? Does a removal repair the keys, if it gets to its end? Do they end? | 3 nodes, 3 keys, one in each gap of the ring; each script, each node as its subject |
| `heartbeat` | How old does the heartbeat of a running node get, who is presumed dead without cause, are failures detected? | 2 nodes; a tick of 0.5 s, the timeouts of `entrypoint.py` |
| `cache_store` | Does the store keep its promise, is eviction fair to recently used keys, is what expired reclaimed? | 3 keys, room for 2, 3 puts that store, 2 threads, times to live none, 0 and 1, time 0..2 |
| `delete_undone`, `rebalance_overwrites`, `removal_unrepaired` | counterexamples, section 4 | 3 nodes, 1 key (3 in the last) |

**Why the bounds are enough to be interesting.** For one key only the clockwise order
in which nodes first appear after its hash matters, so the service runs give each
node one virtual node. Node `a` comes first, `d` last, and the keys hash before `a` and between
`b` and `c`: the joins and leaves then change the primary, the replica, both, or
neither. Two keys let copies be mixed up, and let a rebalance raise for one key when it has
made calls for the other, or none; a join and a leave let rebalances overlap and a copy of the ring be torn. In `service_faults`
one put, one crash and one lost call reach a call, a snapshot, a replica write and a copy of a rebalance
each, in every order; liveness makes further budgets too large for a run. Three puts
on a store for two, with a read between them, distinguish the order of use from the
order of insertion, and leave a record on the heap that is older than its key's entry.
A clone reads twice, so two changes that begin between the readings, a join and a leave in either order,
are what can mix two rings; six positions give three nodes every layout. Two nodes are enough
for one to hold up the other in the heartbeat loop, and `MaxAge` lies beyond the
timeout.
Every counter in `Budget`, and `MaxTime`, `MaxPuts`, `MaxOverlap` and `MaxAge`, is a bound of the
model and not of the code. The service runs and `scripts` set `CHECK_DEADLOCK FALSE` because a
behaviour stops when its budget is spent or its script has ended; that no call or coroutine
is stuck is the subject of `service_faults` and `ScriptEnds`.

**Fairness.**

- `service_faults` assumes weak fairness of `Background`, of `SortKeys` and of each
  client's `Call`: both event loops run for as long as the process, and each transport call
  ends, by a reply or by the exception of `httpx`, whose client has a timeout (2.0 s). There is no
  fairness of heartbeats, restarts, expiry or membership changes.
- `scripts` and `removal_unrepaired` assume the same of the script, and that `main()` goes on when the call it awaits has returned; of
  the background loop only while `main()` runs, for its thread is a daemon that ends with the process.
- `heartbeat` assumes weak fairness of the loop's own steps (the event loop of the gateway
  runs), and strong fairness of `Tick`: time passes, and steps that take no time (a
  request served, an answer of the endpoint) can hold it up only finitely often. No node is assumed fair: the
  properties say what follows if one runs, or fails, for good.
- `cache_store` assumes weak fairness of `Cleanup`: the thread loops until `shutdown`, which
  nothing calls, and sleeps at most `cleanup_interval` between two passes.

**What `heartbeat` says of the configuration.** A running node's heartbeat can get as old as one
round in which every other node hangs: `SleepTime + (N - 1) * RequestTimeout + Latency`.
With three nodes and the defaults that is more than 5 s, against a heartbeat
timeout of 3.0 s, and even one hung node costs 2.0 s of a round. A healthy node is therefore presumed dead now and
then while another hangs (`PresumedDeadOnlyIfSlowed` says only then), and comes back with its next answer
(`RunningNodesServe`). Writes made meanwhile go to its replica and stay there: see `RecoveredServesOldData`.

## 4. Disagreements between code and documents

1. **A delete can be undone** (`delete_undone`). `put` leaves its replica write to
   the background loop, and `delete` neither waits for it nor cancels it. Applied after
   the delete, it brings the value back: a get misses on the primary and finds it on the replica.
   `tests/test_cluster_service.py:82` expects a deleted key to be gone.
2. **A rebalance can overwrite an acknowledged put** (`rebalance_overwrites`). The new primary
   serves at once; a put it acknowledges after the snapshots were taken is overwritten by the
   older value that the rebalance copies. `cluster/service.py:65` promises durability.
3. **A removal is reported before it is repaired** (`removal_unrepaired`). `scripts/verify_node_removal.py` prints
   "Removed node-b and rebalanced data" (line 93) and that the keys of the removed node "have been repaired" (line 139), but waits for
   nothing after `remove_node` (line 91), which only submits the rebalance. When `main()` returns the background
   thread dies, so the keys it has not moved by then stay where they are. What does hold is `RemovalRepairsKeys`: if the background
   loop gets to the end of its work, every key is with its owners and nowhere else.

The runs that pass are those in which these cannot happen, and say which
assumption excludes them: `service_settled` and `service_failover` wait for replica
writes; `service_overlap` and `scripts` are in process, where replica writes keep
their order, and the overwritten put of (2) is excluded by writers that wait or by a single put per key.

Also seen with the models, and left without a run because no document says
otherwise, or one admits it:

- Over HTTP two replica writes of one key may arrive in the other order, and
  nothing repairs it; and the copies and deletions of a rebalance run side by side, so a
  key may for a moment have fewer copies than before. `JoinsKeepTwoCopies` is a property of the in-process transport.
- A write served by the replica while its primary counts as dead
  is hidden from readers when the primary returns (documented in
  `scripts/failover_mapping_explained.py:295-303`, and checked to be as it says by
  `RecoveredServesOldData`).
- `scripts/failover_mapping_explained.py` ends with a `KeyError` if the replica write has not been made when it
  reads through the failed primary; `ScriptEnds` counts that as an end.
- A delete skips a replica that is presumed
  dead, whose copy comes back with it; a put acknowledged by a primary that crashes
  before the replica write is lost; two leaves whose rebalances overlap can remove
  both copies of a key; a node that is removed and added again over HTTP still has its old entries.
- A rebalance on a torn copy of the ring ends with an exception, and is not repeated. Put `k1` and `k2`, join `a`, and
  let `d` leave while the join's rebalance copies the ring: the lookup of `k2` raises, the rebalance of the leave
  finds the owners of `k1` unchanged, and `a`, now the primary of `k1`, never gets it. So `AckedIsDurable` and
  `OwnersHoldAcked` do not hold in `service_overlap`. What does is `AckedStaysReadable`: a get misses at `a` and finds
  `k1` at its replica, an owner of before. This has its limits, too: with two leaves, with a join and two leaves, or, from a ring of two, with
  two joins and a leave, such overlapping changes can lose the key. No document says that changes may overlap, or that they may not.
- `src/README.md:168` and `:176` describe `POST /internal/admin/add_node` and `remove_node`, endpoints that `api/app.py` does not
  have: in a deployment the membership is fixed, and only programs that hold the cluster object, as
  the tests and the scripts, change it.

## 5. The proofs

TLAPS checks these for every value of the constants, under the assumptions
named in the modules. Those that matter: hashes are finitely many naturals, nodes have at least
one virtual node and no two nodes share
one (`PlacementAssumption`, the collision-freeness of SHA-256), `NoNode`, `Absent`, `Never` and `Raised`
are not ordinary values, there is at least one key, `Members` lists every node once, and the answer of a node that
runs comes before the request times out.

| theorem | says |
|---|---|
| `HashRingProofs!RingTypeCorrect`, `RingAlwaysMatchesMembers` | after any joins and leaves the list is strictly increasing, the dict is the ring of the members, and the list has the dict's keys |
| `HashRingProofs!LookupsAlwaysMeetReference` | `bisect` and the index walk find the first node clockwise, and the first other one |
| `HashRingProofs!OnlyAffectedKeysEverMove`, `OwnersAlwaysChangeByOne` | a change moves only the keys it has to, and replaces at most one of the two owners |
| `RingProofs!OwnersAfterJoin`, `SomeOwnerRemains` | the same for the reference lookups, as the rebalance uses it |
| `RingThreadsProofs!TypeCorrect` | the dict differs from the members by the rest of the change under way only |
| `RingThreadsProofs!CopyAlwaysAnswersARing` | a torn copy raises or answers one ring |
| `RingThreadsProofs!OnlyJoinsEverTearACopyAtRest` | leaves do not tear a copy whose dict was taken between changes |
| `RingThreadsProofs!ReadersSeeHashRing` | refinement: the two threads implement `HashRing` for readers of the list |
| `ServiceSettledProofs!PlanMovesKeyToItsOwners` | from snapshots in which the old owners agree, the copies and deletions a rebalance plans leave the value with exactly the new owners, and one owner has it throughout |
| `ClusterServiceProofs!TypeCorrect` | type correctness of the service |
| `ClusterServiceProofs!HeartbeatsStayWithMembers` | the liveness table has exactly the members |
| `ClusterServiceProofs!ValuesAreOnlyWhatWasPut` | no store, reply, snapshot or copy holds for a key a value that was not put under it |
| `ServiceSettledProofs!OwnersHoldWhatWasAcked`, `AckedStaysWithPrimary` | in process, for callers that wait: whenever nothing is under way exactly the owners of a key hold it, with its last acknowledged value; the primary does |
| `ServiceSettledProofs!GetsAnswerWithLatest` | the same, for one client: every get, also in the middle of a rebalance, answers what the last acknowledged write left |
| `ServiceSettledProofs!JoinsNeverThinOut` | the same, for finitely many members: at no step of a rebalance after a join has a key fewer than two copies |
| `ScriptsProofs!ScriptTypeCorrect` | the lines of a demonstration follow each other |
| `ScriptsProofs!ReportedOwnersAlwaysHoldKeys` | the two nodes that `verify_rebalancing.py` prints for a key after the join hold it, and no other node does |
| `ScriptsProofs!FailoverWriteIsKept`, `RecoveredAlwaysServesOldData` | what `failover_mapping_explained.py` puts during the failover stays on the replica, and the recovered primary serves the old value |
| `HeartbeatProofs!TypeCorrect`, `SteadyAgesAreBounded`, `DeadOnlyIfSlowed` | the age of a running node's heartbeat, for any number of nodes and any timeouts |
| `CacheStoreProofs!TypeCorrect`, `HeapAlwaysCoversEntries` | the order of use is one of exactly the keys, and each entry that can expire has its record |
| `CacheStoreProofs!AlwaysWithinLimit`, `RecentlyUsedAlwaysKept` | the limit, and the fairness of eviction |
| `CacheStoreProofs!StoreImplementsForgetfulMap` | refinement: the store implements `ForgetfulMap` |

**Ring.** The proofs in `RingProofs` start from the smallest element of a
non-empty set of naturals and show that `FirstAfter` picks a unique position, that taking a
node out of a ring changes the answer only where it was the answer, and from
this the two theorems about owners. `RingMatchesMembers` is not inductive: that a leave takes out
just the leaving node's positions needs the dict's positions to be those of the members, and a
placement without collisions. `RingInv` is the invariant with these parts, and that the list is
the sorted list of the dict's keys.

**The list.** `Sorted` names the element at an index by the number of smaller ones, its rank.
The second half of `RingProofs` counts: no two elements share a rank, all ranks are below the cardinality, so
by a pigeonhole argument every index below it is the rank of one element. The list is then strictly
increasing and has exactly the set's elements, and `BisectRight` and `Walked` can be compared with
`FirstAfter`: the walk from the start index passes the later positions in order, then the others.

**Two threads.** The invariant says what the list is of: `Before`, the members before the
change under way. The dict holds their positions but for those already written or
popped, and a copied list is that of members the cluster had. A position of a copied list is either not in the
copied dict (the lookup raises) or belongs in both to the node that placed it, which makes each answer
one of the ring of the list. For the refinement, the members that a list shows are the members it was
made from, because every node has a virtual node; only `SortKeys` changes them, by the one node of the change.

**Service.** `TypeOK` is inductive because it says of a call which steps its kind can be at
(`CallOK`): a late answer is recorded for the node the call went to. The
liveness theorem needs only that and the membership test of `record_heartbeat`.
`ValuesAreOnlyWhatWasPut` treats `work` as a sequence over the set of coroutines
that carry only what was put; removing, inserting and replacing an element
keep such a sequence one, and the set only grows with `written`.

**The settled service.** The theorems of `ServiceSettledProofs` have two hypotheses about the callers and
the nodes, besides the assumptions of the modules.

- `Waiting` gives the constants the values that they have in `service_settled`: the in-process transport, no call that writes
  and no change of the membership before the background work of the last one is done, heartbeats on time, no
  expiry and no eviction. `tests/test_cluster_service.py` and `comprehensive_test.py` wait for each rebalance, and the
  in-process loop is then done with the earlier replica writes as well; between a put and the next write they leave no time for its replica write.
  Gets wait for nothing. The numbers of puts, deletes, gets, joins, leaves, nodes, keys, values and clients are any.
- `[](nodes # {})`: at least one node stays a member. When the last one leaves, its entries go with it, and
  a put acknowledged before is lost, as it must be; `service_settled` has three nodes and two leaves.

None of the four properties is inductive. In the middle of a leave (`MidLeave`) nothing else is under way and each key is with its owners
in the ring of the list. Otherwise `SettledInv` says at which of four stages the service is: `AtRest`;
`MidCall`, a put or delete has reached the primary alone; `Replicating`, a put is acknowledged and its replica
write is the only coroutine; `Reorganising`, a rebalance is the only coroutine. The last needs most. Up to its
decision (`Deciding`) the key is still with the owners of the ring *before* the change, and each snapshot
taken so far is the store as it still is; no copy of the ring is torn, since changes wait. `OneChange` says that the two memberships differ by one
node, `Agreed` that the old owners have one value and nobody else has any: from this `SomeOwnerRemains` gives a holder to copy from that
is not deleted, and `PlanMovesKeyToItsOwners` what the planned calls do. While they run (`Gathering`) an
owner has the key or a copy to it is under way, anybody else lacks it or is about to drop it, and
one owner has it throughout (`InTransit`); after a join into a ring of two or more,
two nodes have it, since no copy is dropped before all are made. `ReplicaHas` adds what a get relies on that missed at a primary that
has not got its keys yet: the replica *of its routing* has the key.

`GetsAnswerWithLatest` is for one client because a ghost is compared with a reply that is still to be seen: another
client may put in between, and its value is then the latest. `JoinsNeverThinOut` needs finitely many members for
`Cardinality` to be a number.

**The demonstrations.** The theorems of `ScriptsProofs` have no hypothesis. `FailoverInv` goes through
`failover_mapping_explained.py` line by line. What carries it is that the replica write of the first put is either made, or all that
the background loop has to do; a get that found the key on the replica has seen that it is made, so nothing can come after the
write of the failover. `VerifyInv` has four stages of `verify_rebalancing.py`. While the test
data goes in (`Filling`), each acknowledged key is at its primary, and at its replica or in a replica write that is queued; when the
node has joined (`Queued`) the rebalance is the last in the queue and all before it are those writes. The loop
works in order, so when the rebalance is the only one left, the keys are with their old owners: this is the state `Deciding` of the settled service, although the
script never waited for the replica writes. From there the lemmas about a rebalance that runs alone are used as they are (`Shifting`, `Rebalanced`).
`NoneLeaves` says that only `verify_node_removal.py` is ever in the middle of a leave.

**Heartbeats.** The bound on ages is not inductive: one needs to know where the loop is. The invariant
counts, for the node at place `p`, the requests completed since its own (`Done`), the pause if it was
made (`Slept`), and what the loop waits for now; each request counts `RequestTimeout`, or `Latency`
while none was slow.

**Store.** Only a cleanup pass takes records off the heap. One that it takes is due,
so if it is the record of the key's present entry, that entry is expired and dropped. For eviction, the
order of the dict is what `recency` says of its keys, a linear order; the oldest of `MaxItems + 1`
keys is the one with `MaxItems` younger ones, so a put evicts just one key, and a key with
fewer later uses than `MaxItems` is not it. In the refinement every action of the store is the
action of the same name of the map, and `Cleanup` is a stutter because it drops only entries that are expired.

**Only model-checked.**

- Liveness (`BackgroundDrains`, `CallsReturn`, `ExpiredIsReclaimed`, `ScriptEnds`,
  `FailuresDetected`, `RunningNodesServe`): reasoning under fairness is outside what the prover does here.
- `AckedStaysReadable` (`service_overlap`): it holds for the changes of that run only, as said in section 4; its invariant spans
  two rebalances, each with the copies of the ring it took.
- `RemovalRepairsKeys`: its proof would be that of `ReportedOwnersAlwaysHoldKeys` with a leave in place of the join,
  and queued replica writes that go to the node that left.
- `GetsLatestAck` over HTTP with a crash (`service_failover`): the crashed node is empty when it restarts, and what then
  answers depends on which node crashed and on the replica write that was waited for.

No module declares a `RECURSIVE` operator, and nothing is proved by induction over data.

## 6. Not modelled

- The endpoints for changes of the membership that `src/README.md` describes: `api/app.py` does not have them.
- Benchmarks, metrics, plots, `comprehensive_test.py` and the deployment files: they measure and draw, and keep no state
  of the cluster. The API handlers of put, get and delete pass a result on or turn it into
  an HTTP error. Both have nothing for a model checker to interleave.
- `get_successor`, `virtual_nodes`, `groups` and the health reports: nobody routes with them.
- `shutdown` of the store and of the heartbeat task: nothing calls the first, the second ends the process.
- Requests that a node carries out only after its caller timed out (a failed delete may have been carried out, at
  once). The properties of the HTTP runs do not speak of the order in which a failed write and a later one take
  effect, so the model would allow more and say no more.
- A cluster that starts empty, for which the heartbeat loop is never started: no entry point builds one.
- `_rebalance_future`, which remembers only the last rebalance: in process rebalances end in the order of the changes,
  so waiting for the last is waiting for all; and the semaphore of 50 transport calls, which only delays calls.
- The values of deadlines across machines: over HTTP a rebalance may skip
  any key with a time to live; a moved entry's remaining time is not kept.
- The number of records on the expiration heap, which no document bounds; values that are `None`,
  which the code does not tell from a miss.

## 7. Plan

Done, in this order: `Ring` and `HashRing` with their proofs; `Rebalance` and
`ClusterService`, most important runs first, and the proofs about them;
`ForgetfulMap` and `CacheStore`; `Scripts`; `Heartbeat`; `RingThreads`; the proofs of the
list searches, of the two threads, of the ages, of eviction, and the two refinements;
the proofs of the settled service and of the demonstrations.

What could follow is the proof of `GetsLatestAck` over HTTP with `Awaited = "all"`, `Punctual` and one
crash: the invariant is that of `AtRest`, `MidCall` and `Replicating` with one member that may be empty; then
`RemovalRepairsKeys`; `AckedStaysReadable` for one join and one leave; and late requests in `ClusterService`, once a document
says what a client may expect of a put that failed.
