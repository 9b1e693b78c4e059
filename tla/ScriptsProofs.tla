---------------------------- MODULE ScriptsProofs ----------------------------
(***************************************************************************)
(* What the demonstrations of src/scripts show, for every number of nodes  *)
(* and keys, every placement and every value: the lines of a script, with  *)
(* what the stores and the background loop hold at each.                   *)
(***************************************************************************)
EXTENDS Scripts, ServiceSettledProofs

-----------------------------------------------------------------------------
(***************************************************************************)
(* failover_mapping_explained.py, line by line                             *)
(***************************************************************************)

P == Routed.primary
R == Routed.replica
D == Data[TheKey]

\* The script awaits a call of the kind at node n, and how far it is.
Awaits(kind, step, v, n) ==
    op[main] = [kind |-> kind, step |-> step, key |-> TheKey, value |-> v,
                target |-> n, replica |-> R]

\* The routing that the script read is that of the ring.
Mapped == before = KeyOwnership /\ nodes # {}

\* The first put is on the primary; its replica write, if there is a replica, is made or
\* is all that the background loop has to do.
FirstPut ==
    /\ store[P][TheKey] = D
    /\ \/ work = <<>>
       \/ work = <<Replication(R, TheKey, D)>> /\ R \in nodes /\ store[R][TheKey] = Absent

\* The write of the failover is on the replica only, and nothing is under way.
SecondPut ==
    /\ work = <<>> /\ NewData # D
    /\ store[P][TheKey] = D /\ store[R][TheKey] = NewData

Loading ==
    /\ line = "load" /\ Replied(main)
    /\ Alive = nodes /\ work = <<>>
    /\ \A n \in Node : store[n][TheKey] = Absent

Written ==
    /\ line = "written" /\ Mapped /\ Alive = nodes
    /\ \/ Awaits("put", "target", D, P) /\ work = <<>> /\ (R \in nodes => store[R][TheKey] = Absent)
       \/ /\ Awaits("put", "applied", D, P) /\ work = <<>>
          /\ store[P][TheKey] = D /\ (R \in nodes => store[R][TheKey] = Absent)
       \/ Replied(main) /\ FirstPut

Read ==
    /\ line = "read" /\ Mapped /\ Alive = nodes /\ FirstPut
    /\ Awaits("get", "target", Absent, P) \/ Replied(main)

Failed ==
    line = "failed" /\ Mapped /\ Alive = nodes \ {P} /\ FirstPut /\ Replied(main)

\* A get that found the key at the replica found that its replica write is made.
FailedOver ==
    /\ line = "failed_over" /\ Mapped /\ Alive = nodes \ {P} /\ R \in Alive /\ FirstPut
    /\ \/ Awaits("get", "target", Absent, R)
       \/ Replied(main) /\ (Found => work = <<>>)

Rewritten ==
    /\ line = "rewritten" /\ Mapped /\ Alive = nodes \ {P} /\ R \in Alive
    /\ \/ /\ Awaits("put", "target", NewData, R)
          /\ work = <<>> /\ store[P][TheKey] = D /\ NewData # D
       \/ SecondPut /\ (Awaits("put", "applied", NewData, R) \/ Replied(main))

Recovered ==
    /\ line \in {"recovered", "reread", "done"} /\ Mapped /\ Alive = nodes /\ R \in nodes
    /\ SecondPut
    /\ \/ line # "done" /\ Replied(main) /\ (line = "reread" => op[main].value = D)
       \/ line = "reread" /\ Awaits("get", "target", Absent, P)
       \/ line = "done" /\ Replied(main) /\ op[main].value = D

FailoverInv ==
    script = "failover_mapping" =>
        /\ ~Leaving
        /\ line \notin {"load", "error"} => D \in written[TheKey]
        /\ \/ Loading \/ Written \/ Read \/ Failed \/ FailedOver \/ Rewritten \/ Recovered
           \/ line = "error"

-----------------------------------------------------------------------------
(***************************************************************************)
(* verify_rebalancing.py, line by line                                     *)
(***************************************************************************)

\* The put of k is acknowledged.
Acked(k) == k \notin to_put /\ (Replied(main) \/ op[main].key # k)

\* The replica write of the put of k, as the ring of M routes it.
WriteOf(M, k, job) ==
    Replica(M, k) \in M /\ job = Replication(Replica(M, k), k, Data[k])

\* The members of M before the join keep the key k with its owners, but for a replica
\* write that is still to be made.
PutDone(M, k) ==
    /\ expected[k] = {Data[k]}
    /\ store[Primary(M, k)][k] = Data[k]
    /\ \A n \in nodes \ Owners(M, k) : store[n][k] = Absent
    /\ Replica(M, k) \in M =>
          \/ store[Replica(M, k)][k] = Data[k]
          \/ /\ store[Replica(M, k)][k] = Absent
             /\ \E i \in DOMAIN work : WriteOf(M, k, work[i])

\* The put of k that the script awaits has not reached the primary, or it has.
PutUnderWay(k) ==
    \E step \in {"target", "applied"} :
        /\ op[main] = [kind |-> "put", step |-> step, key |-> k, value |-> Data[k],
                       target |-> Primary(nodes, k), replica |-> Replica(nodes, k)]
        /\ \A n \in nodes :
              store[n][k] = IF n = Primary(nodes, k) /\ step = "applied"
                            THEN Data[k] ELSE Absent

\* The test data goes in.
Filling ==
    /\ line \in {"load", "change"} /\ (line = "change" => Replied(main))
    /\ subject \in Node \ nodes /\ (to_put # Key => nodes # {})
    /\ Alive = nodes
    /\ \A i \in DOMAIN work : \E k \in Key : Acked(k) /\ WriteOf(nodes, k, work[i])
    /\ \A k \in to_put : \A n \in nodes : store[n][k] = Absent
    /\ \A k \in Key \ to_put : IF Acked(k) THEN PutDone(nodes, k) ELSE PutUnderWay(k)
    /\ Replied(main) \/ op[main].key \in Key \ to_put

\* The rebalance waits behind the replica writes of the puts.
Queued ==
    /\ line = "wait" /\ Replied(main)
    /\ \E M \in SUBSET Node :
          /\ M # {} /\ subject \in Node \ M /\ nodes = M \cup {subject}
          /\ Len(work) > 0 /\ work[Len(work)] = Rebalancing("add", M)
          /\ \A i \in 1 .. Len(work) - 1 : \E k \in Key : WriteOf(M, k, work[i])
          /\ \A k \in Key : PutDone(M, k)

\* The rebalance runs, alone.
Shifting ==
    /\ line = "wait" /\ Replied(main) /\ nodes # {}
    /\ \A k \in Key : expected[k] = {Data[k]}
    /\ \E job \in {work[i] : i \in DOMAIN work} : work = <<job>> /\ Moving(job)

Rebalanced ==
    /\ line \in {"wait", "report", "done"} /\ Replied(main) /\ nodes # {}
    /\ work = <<>>
    /\ \A k \in Key : expected[k] = {Data[k]} /\ Held(nodes, k)
    /\ line = "done" => after = KeyOwnership

VerifyInv ==
    script = "verify_rebalancing" =>
        ~Leaving /\ (Filling \/ Queued \/ Shifting \/ Rebalanced)

-----------------------------------------------------------------------------
(***************************************************************************)
(* Types                                                                   *)
(***************************************************************************)

\* The constants.
LEMMA ScriptConstants ==
    /\ main \in Client /\ TheKey \in Key
    /\ \A k \in Key : Data[k] \in Value /\ Data[k] # Absent
    /\ NewData \in Value
    /\ ~Http
<1>1. TheKey \in Key
  BY ServiceAssumption DEF TheKey
<1> QED
  BY <1>1, ScriptAssumption, AbsentAssumption

\* A script is a client of the service, but for the line that makes the primary look
\* dead and the one that revives it.
LEMMA ScriptStep ==
    ASSUME ScriptTypeOK, [ScriptNext]_<<vars, scriptVars>>
    PROVE  [Next]_vars \/ PrimaryFails \/ PrimaryRecovers
<1>1. CASE Main
  <2>1. ASSUME PutNext PROVE Next
    <3>1. PICK k \in to_put : BeginPut(main, k, Data[k])
      BY <2>1 DEF PutNext
    <3>2. k \in Key /\ Data[k] \in Value
      BY ScriptConstants DEF ScriptTypeOK
    <3> QED
      BY <3>1, <3>2, ScriptConstants DEF Next
  <2>2. PutKey \/ PutDuringFailover => Next
    BY ScriptConstants DEF PutKey, PutDuringFailover, Next
  <2>3. GetBefore \/ GetFromReplica \/ GetAfterRecovery => Next
    BY ScriptConstants DEF GetBefore, GetFromReplica, GetAfterRecovery, Ask, Next
  <2>4. subject \in Node
    BY ServiceAssumption DEF ScriptTypeOK
  <2>5. AddNewNode \/ RemoveOldNode => Next
    BY <2>4 DEF AddNewNode, RemoveOldNode, Next
  <2>6. ReportBefore \/ WaitForRebalance \/ ReportAfter \/ Finish \/ KeyError => UNCHANGED vars
    BY DEF ReportBefore, WaitForRebalance, ReportAfter, Finish, KeyError, vars
  <2> QED
    BY <1>1, <2>1, <2>2, <2>3, <2>5, <2>6 DEF Main
<1>2. CASE Call(main)
  BY <1>2, ScriptConstants DEF Next
<1>3. CASE Background
  BY <1>3 DEF Next
<1>4. CASE SortKeys
  BY <1>4 DEF Next
<1>5. CASE UNCHANGED <<vars, scriptVars>>
  BY <1>5
<1> QED
  BY <1>1, <1>2, <1>3, <1>4, <1>5 DEF ScriptNext

\* What the scripts report of the ring are nodes, or none.
LEMMA KeyOwnershipType ==
    ASSUME nodes \in SUBSET Node
    PROVE  KeyOwnership \in Report
BY RoutesAreNodes DEF KeyOwnership, Report

\* The scripts start with the types.
LEMMA ScriptTypeInit ==
    ASSUME ScriptInit
    PROVE  TypeOK /\ ScriptTypeOK
<1>1. /\ nodes \in SUBSET Node /\ Budget \in [Limited -> Nat]
  BY ServiceAssumption DEF ScriptInit
<1>2. Empty \in Entries
  BY DEF Empty, Entries
<1>3. op \in [Client -> CallState] /\ \A c \in Client : CallOK(op[c])
  BY IdleOK DEF ScriptInit, CallOK
<1>4. work \in Seq(ReplicaWrite \cup RebalanceJob)
  BY EmptySeq DEF ScriptInit
<1>5. TypeOK
  BY <1>1, <1>2, <1>3, <1>4 DEF ScriptInit, TypeOK
<1>6. NoReport \in Report
  BY DEF NoReport, Report
<1>7. ScriptTypeOK
  BY <1>6, ScriptConstants DEF ScriptInit, ScriptTypeOK, Line
<1> QED
  BY <1>5, <1>7

\* Every line leaves the script's variables their types.
LEMMA ScriptTypeNext ==
    ASSUME nodes \in SUBSET Node, ScriptTypeOK, [ScriptNext]_<<vars, scriptVars>>
    PROVE  ScriptTypeOK'
<1> USE DEF ScriptTypeOK, Line
<1>1. CASE UNCHANGED scriptVars
  BY <1>1 DEF scriptVars
<1>2. CASE PutNext
  BY <1>2 DEF PutNext
<1>3. CASE ReportBefore \/ ReportAfter
  BY <1>3, KeyOwnershipType DEF ReportBefore, ReportAfter, Reached
<1>4. CASE AddNewNode \/ WaitForRebalance \/ RemoveOldNode
  BY <1>4 DEF AddNewNode, WaitForRebalance, RemoveOldNode, Reached
<1>5. CASE PutKey
  BY <1>5, KeyOwnershipType DEF PutKey, Reached
<1>6. CASE GetBefore \/ GetFromReplica \/ GetAfterRecovery
  BY <1>6 DEF GetBefore, GetFromReplica, GetAfterRecovery, Ask, Reached
<1>7. CASE PrimaryFails \/ PutDuringFailover \/ PrimaryRecovers \/ Finish \/ KeyError
  BY <1>7 DEF PrimaryFails, PutDuringFailover, PrimaryRecovers, Finish, KeyError, Reached
<1> QED
  BY <1>1, <1>2, <1>3, <1>4, <1>5, <1>6, <1>7 DEF ScriptNext, Main

\* The scripts change the members by nodes only.
LEMMA ScriptNodesNext ==
    ASSUME nodes \in SUBSET Node, ScriptTypeOK, [ScriptNext]_<<vars, scriptVars>>
    PROVE  nodes' \in SUBSET Node
<1>1. CASE PrimaryFails \/ PrimaryRecovers
  BY <1>1 DEF PrimaryFails, PrimaryRecovers
<1>2. CASE [Next]_vars
  <2>1. \/ UNCHANGED nodes
        \/ \E n \in Node : nodes' = nodes \cup {n} \/ nodes' = nodes \ {n}
    BY <1>2, NodesNext
  <2> QED
    BY <2>1
<1> QED
  BY <1>1, <1>2, ScriptStep

\* The scripts that remove no node have none leaving.
LEMMA NoneLeaves ==
    ASSUME script # "verify_node_removal", ~Leaving, [ScriptNext]_<<vars, scriptVars>>
    PROVE  ~Leaving'
<1>1. listed = nodes /\ ~SortKeys /\ ~RemoveOldNode
  BY DEF Leaving, SortKeys, RemoveOldNode, Reached
<1>2. CASE AddNewNode
  BY <1>2 DEF AddNewNode, AddNode, Leaving
<1>3. ASSUME Main, ~AddNewNode PROVE UNCHANGED <<nodes, listed>>
  BY <1>1, <1>3 DEF Main, PutNext, ReportBefore, WaitForRebalance, ReportAfter, PutKey,
     GetBefore, PrimaryFails, GetFromReplica, PutDuringFailover, PrimaryRecovers,
     GetAfterRecovery, Ask, Finish, KeyError, BeginPut, BeginGet, Begin, vars, membership
<1>4. ASSUME Call(main) \/ Background PROVE UNCHANGED <<nodes, listed>>
  BY <1>4 DEF Call, PutAtTarget, PutReply, GetAtTarget, GetAtReplica, DeleteAtTarget,
     DeleteAtReplica, CallFails, Background, Replicate, ReplicateFails, RebCopyDict,
     RebCopyList, RebListNodes, RebSnapshot, RebSnapshotFails, RebPlan, RebRaises, RebPut,
     RebDelete, RebCallFails, membership
<1> QED
  BY <1>1, <1>2, <1>3, <1>4 DEF ScriptNext, Leaving, vars

\* The lines of a script follow each other, and what it reports are nodes: a report comes
\* after all puts (print_key_ownership).
THEOREM ScriptTypeCorrect == ScriptSpec => []ScriptTypeOK
<1>1. ScriptInit => nodes \in SUBSET Node /\ ScriptTypeOK
  BY ScriptTypeInit DEF TypeOK
<1>2. nodes \in SUBSET Node /\ ScriptTypeOK /\ [ScriptNext]_<<vars, scriptVars>>
         => (nodes \in SUBSET Node /\ ScriptTypeOK)'
  BY ScriptTypeNext, ScriptNodesNext
<1> QED
  BY <1>1, <1>2, PTL DEF ScriptSpec

-----------------------------------------------------------------------------
(***************************************************************************)
(* What a script's call does                                               *)
(***************************************************************************)

\* The heartbeat of a node that is alive changes nothing.
LEMMA RecordedAlive ==
    ASSUME TypeOK, NEW n \in Alive, last_heartbeat' = Recorded(n)
    PROVE  Alive' = Alive
BY DEF TypeOK, Alive, Recorded

\* A call that has its answer makes no step; one under way lets no line pass.
LEMMA OnlyUnderWay == Call(main) => ~Replied(main)
BY DEF Call, PutAtTarget, PutReply, GetAtTarget, GetAtReplica, DeleteAtTarget, DeleteAtReplica,
   CallFails, Resumes, At, Replied

\* A line begins a call.
LEMMA CallBegins ==
    ASSUME TypeOK, NEW kind, NEW k, NEW v, Begin(main, kind, k, v)
    PROVE  /\ op'[main] = [kind |-> kind, step |-> "target", key |-> k, value |-> v,
                           target |-> ServedBy(k), replica |-> Replica(nodes, k)]
           /\ ServedBy(k) # NoNode
           /\ UNCHANGED <<nodes, last_heartbeat, store, work, expected>> /\ Alive' = Alive
BY ScriptConstants DEF TypeOK, Begin, membership, Alive

\* An awaited put reaches its target.
LEMMA PutArrives ==
    ASSUME TypeOK, NEW k, NEW v, NEW n, NEW r,
           op[main] = [kind |-> "put", step |-> "target", key |-> k, value |-> v,
                       target |-> n, replica |-> r],
           Call(main)
    PROVE  /\ op'[main] = [kind |-> "put", step |-> "applied", key |-> k, value |-> v,
                           target |-> n, replica |-> r]
           /\ store' = Stored(n, k, v)
           /\ UNCHANGED <<nodes, last_heartbeat, work, written, expected>> /\ Alive' = Alive
<1>1. ~CallFails(main)
  BY ScriptConstants DEF CallFails, Unreached
<1>2. PutAtTarget(main)
  BY <1>1 DEF Call, PutReply, GetAtTarget, GetAtReplica, DeleteAtTarget, DeleteAtReplica,
     Resumes, At
<1>3. op'[main] = [op[main] EXCEPT !.step = "applied"]
  BY <1>2, ScriptConstants DEF PutAtTarget, Goto, TypeOK
<1> QED
  BY <1>2, <1>3 DEF PutAtTarget, membership, ghosts, Alive

\* An awaited put returns: its replica write is left to the background loop.
LEMMA PutReturns ==
    ASSUME TypeOK, NEW k, NEW v, NEW n, NEW r,
           op[main] = [kind |-> "put", step |-> "applied", key |-> k, value |-> v,
                       target |-> n, replica |-> r],
           Call(main)
    PROVE  /\ op'[main].step = "replied" /\ op'[main].kind = "put"
           /\ last_heartbeat' = Recorded(n)
           /\ UNCHANGED <<nodes, store, written>>
           /\ expected' = [expected EXCEPT ![k] = {v}]
           /\ r \in Alive \ {n} => work' = Append(work, Replication(r, k, v))
           /\ r \notin Alive \ {n} => work' = work
<1>1. ~CallFails(main)
  BY ScriptConstants DEF CallFails, Unreached
<1>2. PutReply(main)
  BY <1>1 DEF Call, PutAtTarget, GetAtTarget, GetAtReplica, DeleteAtTarget, DeleteAtReplica,
     Resumes, At
<1>3. op'[main] = [op[main] EXCEPT !.step = "replied", !.value = Absent,
                                   !.target = NoNode, !.replica = NoNode]
  BY <1>2, ScriptConstants DEF PutReply, Answer, TypeOK
<1> QED
  BY <1>2, <1>3 DEF PutReply, ReplicaUsable

\* The steps of an awaited get, when no replica can be asked or none need be.
LEMMA GetSteps ==
    ASSUME TypeOK, NEW k, NEW n \in Alive, NEW r,
           op[main] = [kind |-> "get", step |-> "target", key |-> k, value |-> Absent,
                       target |-> n, replica |-> r],
           store[n][k] # Absent \/ r = n, Call(main)
    PROVE  /\ op'[main].step = "replied" /\ op'[main].value = store[n][k]
           /\ Alive' = Alive
           /\ UNCHANGED <<nodes, store, work, written, expected>>
<1>1. ~CallFails(main)
  BY ScriptConstants DEF CallFails, Unreached
<1>2. GetAtTarget(main)
  BY <1>1 DEF Call, PutAtTarget, PutReply, GetAtReplica, DeleteAtTarget, DeleteAtReplica,
     Resumes, At
<1>3. op[main] \in CallState /\ main \in Client /\ op \in [Client -> CallState]
  BY ScriptConstants DEF TypeOK
<1>4. store[n][k] = Absent => ~ReplicaUsable(main)
  BY DEF ReplicaUsable
<1>5. Answer(main, store[n][k])
  BY <1>2, <1>4 DEF GetAtTarget
<1>6. op'[main] = [op[main] EXCEPT !.step = "replied", !.value = store[n][k],
                                   !.target = NoNode, !.replica = NoNode]
  BY <1>3, <1>5 DEF Answer
<1>7. Alive' = Alive
  <2>1. last_heartbeat' = last_heartbeat \/ last_heartbeat' = Recorded(n)
    BY <1>2 DEF GetAtTarget
  <2> QED
    BY <2>1, RecordedAlive DEF Alive
<1> QED
  BY <1>2, <1>3, <1>6, <1>7 DEF GetAtTarget, ghosts, CallState

-----------------------------------------------------------------------------
(***************************************************************************)
(* failover_mapping_explained.py                                           *)
(***************************************************************************)

\* The two nodes that the script read, as the ring routes the key.
LEMMA RoutedTo ==
    ASSUME TypeOK, Mapped
    PROVE  /\ P = Primary(nodes, TheKey) /\ R = Replica(nodes, TheKey)
           /\ P \in nodes /\ P \in Node /\ R \in (nodes \ {P}) \cup {NoNode}
           /\ NoNode \notin Node /\ nodes \in SUBSET Node
           /\ D \in Value /\ D # Absent
<1>1. P = Primary(nodes, TheKey) /\ R = Replica(nodes, TheKey)
  BY ScriptConstants DEF Mapped, KeyOwnership, Routed, P, R
<1>2. nodes \in SUBSET Node /\ nodes # {}
  BY DEF TypeOK, Mapped
<1>3. Primary(nodes, TheKey) \in nodes
      /\ Replica(nodes, TheKey) \in (nodes \ {Primary(nodes, TheKey)}) \cup {NoNode}
  BY <1>2, ScriptConstants, Routes
<1> QED
  BY <1>1, <1>2, <1>3, ScriptConstants, NoNodeAssumption DEF D

\* Who serves the key.
LEMMA WhoServes ==
    ASSUME TypeOK, Mapped, ServedBy(TheKey) # NoNode
    PROVE  /\ P \in Alive => ServedBy(TheKey) = P
           /\ P \notin Alive => ServedBy(TheKey) = R /\ R \in Alive
BY RoutedTo DEF ServedBy

\* The members and the routing that the script read stay.
LEMMA MappedStays ==
    ASSUME Mapped, UNCHANGED <<nodes, before>>
    PROVE  Mapped' /\ P' = P /\ R' = R
BY DEF Mapped, KeyOwnership, P, R, Routed

\* A store takes one entry.
LEMMA StoredEntry ==
    ASSUME TypeOK, NEW n \in Node, NEW v, store' = Stored(n, TheKey, v)
    PROVE  \A m \in Node : store'[m][TheKey] = IF m = n THEN v ELSE store[m][TheKey]
BY ScriptConstants DEF TypeOK, Stored, Entries

\* The background loop makes the replica write of the first put, or nothing.
LEMMA FirstPutReplicated ==
    ASSUME TypeOK, Mapped, FirstPut, Background, UNCHANGED before
    PROVE  /\ FirstPut' /\ work # <<>> /\ work' = <<>>
           /\ UNCHANGED <<nodes, op, written>> /\ Alive' = Alive
<1>1. work = <<Replication(R, TheKey, D)>> /\ R \in nodes
  BY DEF FirstPut, Background
<1>2. /\ store' = Stored(R, TheKey, D) /\ work' = <<>>
      /\ UNCHANGED <<nodes, op, written, last_heartbeat>>
  BY <1>1, ScriptConstants, OnlyReplication DEF membership, ghosts
<1>3. store'[P][TheKey] = D
  BY <1>1, <1>2, RoutedTo, StoredEntry DEF FirstPut
<1> QED
  BY <1>1, <1>2, <1>3, MappedStays DEF FirstPut, Alive

\* The lines of the script, and what runs beside it.
LEMMA FailoverSteps ==
    ASSUME script = "failover_mapping", ~Leaving, ScriptNext
    PROVE  /\ UNCHANGED script
           /\ \/ Call(main) /\ ~Replied(main) /\ UNCHANGED scriptVars
              \/ Background /\ UNCHANGED scriptVars
              \/ /\ Replied(main)
                 /\ \/ line = "load" /\ PutKey
                    \/ UNCHANGED before /\ \/ line = "written" /\ GetBefore
                                           \/ line = "read" /\ PrimaryFails
                                           \/ line = "failed" /\ GetFromReplica
                                           \/ line = "failed_over" /\ PutDuringFailover
                                           \/ line = "rewritten" /\ PrimaryRecovers
                                           \/ line = "recovered" /\ GetAfterRecovery
                                           \/ line = "reread" /\ Finish
                                           \/ KeyError
<1>1. ~Verifying
  BY DEF Verifying
<1>2. /\ ~PutNext /\ ~ReportBefore /\ ~ReportAfter
      /\ ~AddNewNode /\ ~WaitForRebalance /\ ~RemoveOldNode
  BY <1>1 DEF PutNext, ReportBefore, ReportAfter, AddNewNode, WaitForRebalance, RemoveOldNode,
     Reached
<1>3. CASE Main
  BY <1>2, <1>3 DEF Main, PutKey, GetBefore, PrimaryFails, GetFromReplica, PutDuringFailover,
     PrimaryRecovers, GetAfterRecovery, Finish, KeyError, Ask, Reached
<1>4. CASE ~Main
  BY <1>4, OnlyUnderWay DEF ScriptNext, scriptVars, SortKeys
<1> QED
  BY <1>3, <1>4

\* A get is begun: the node that serves is asked.
LEMMA GetBegins ==
    ASSUME TypeOK, Mapped, BeginGet(main, TheKey), UNCHANGED before
    PROVE  /\ UNCHANGED <<nodes, store, work, written>> /\ Alive' = Alive
           /\ Mapped' /\ P' = P /\ R' = R
           /\ P \in Alive => Awaits("get", "target", Absent, P)'
           /\ P \notin Alive => R \in Alive /\ Awaits("get", "target", Absent, R)'
<1>1. Begin(main, "get", TheKey, Absent) /\ UNCHANGED written
  BY DEF BeginGet
<1>2. /\ op'[main] = [kind |-> "get", step |-> "target", key |-> TheKey, value |-> Absent,
                      target |-> ServedBy(TheKey), replica |-> Replica(nodes, TheKey)]
      /\ ServedBy(TheKey) # NoNode
      /\ UNCHANGED <<nodes, last_heartbeat, store, work, expected>> /\ Alive' = Alive
  BY <1>1, CallBegins
<1>3. Mapped' /\ P' = P /\ R' = R
  BY <1>2, MappedStays
<1>4. R = Replica(nodes, TheKey)
  BY RoutedTo
<1> QED
  BY <1>1, <1>2, <1>3, <1>4, WhoServes DEF Awaits

\* The script loads.
LEMMA LoadingNext ==
    ASSUME TypeOK, script = "failover_mapping", ~Leaving, Loading, ScriptNext
    PROVE  Written' /\ D' \in written'[TheKey]
<1>1. PutKey
  BY FailoverSteps DEF Loading, Background, KeyError, Reached
<1>2. /\ BeginPut(main, TheKey, D) /\ before' = KeyOwnership /\ line' = "written"
  BY <1>1 DEF PutKey, D
<1>3. /\ op'[main] = [kind |-> "put", step |-> "target", key |-> TheKey, value |-> D,
                      target |-> ServedBy(TheKey), replica |-> Replica(nodes, TheKey)]
      /\ ServedBy(TheKey) # NoNode
      /\ UNCHANGED <<nodes, last_heartbeat, store, work, expected>> /\ Alive' = Alive
  BY <1>2, CallBegins DEF BeginPut
<1>4. nodes # {} /\ nodes \in SUBSET Node
  BY <1>3 DEF Loading, ServedBy, TypeOK
<1>5. Mapped'
  BY <1>2, <1>3, <1>4 DEF Mapped, KeyOwnership
<1>6. P' = Primary(nodes, TheKey) /\ R' = Replica(nodes, TheKey)
  BY <1>2, ScriptConstants DEF P, R, Routed, KeyOwnership
<1>7. ServedBy(TheKey) = Primary(nodes, TheKey)
  BY <1>4, ScriptConstants, Routes DEF Loading, ServedBy
<1>8. Awaits("put", "target", D, P)'
  BY <1>3, <1>6, <1>7 DEF Awaits, D
<1>9. work' = <<>> /\ (R' \in nodes' => store'[R'][TheKey] = Absent)
  BY <1>3, <1>4 DEF Loading
<1>10. D' \in written'[TheKey]
  BY <1>2, ScriptConstants DEF BeginPut, TypeOK, D
<1> QED
  BY <1>2, <1>3, <1>5, <1>8, <1>9, <1>10 DEF Written, Loading

\* The script waits for its first put, or asks for the key.
LEMMA WrittenNext ==
    ASSUME TypeOK, script = "failover_mapping", ~Leaving, Written, ScriptNext
    PROVE  (Written' \/ Read') /\ written' = written
<1>1. /\ line = "written" /\ Mapped /\ Alive = nodes
  BY DEF Written
<1>2. /\ P \in nodes /\ P \in Node /\ R \in (nodes \ {P}) \cup {NoNode}
      /\ NoNode \notin Node /\ nodes \in SUBSET Node /\ D \in Value /\ D # Absent
  BY <1>1, RoutedTo
<1>3. CASE Call(main) /\ ~Replied(main) /\ UNCHANGED scriptVars
  <2>1. UNCHANGED <<line, before>>
    BY <1>3 DEF scriptVars
  <2>2. CASE Awaits("put", "target", D, P)
    <3>1. /\ work = <<>> /\ (R \in nodes => store[R][TheKey] = Absent)
      BY <1>3, <2>2 DEF Written, Awaits
    <3>2. /\ op'[main] = [kind |-> "put", step |-> "applied", key |-> TheKey, value |-> D,
                          target |-> P, replica |-> R]
          /\ store' = Stored(P, TheKey, D)
          /\ UNCHANGED <<nodes, work, written>> /\ Alive' = Alive
      BY <1>3, <2>2, PutArrives DEF Awaits
    <3>3. Mapped' /\ P' = P /\ R' = R
      BY <1>1, <2>1, <3>2, MappedStays
    <3>4. store'[P][TheKey] = D /\ (R \in nodes => store'[R][TheKey] = Absent)
      BY <1>2, <3>1, <3>2, StoredEntry
    <3>5. Awaits("put", "applied", D, P)'
      BY <3>2, <3>3 DEF Awaits, D
    <3> QED
      BY <1>1, <2>1, <3>1, <3>2, <3>3, <3>4, <3>5 DEF Written, D
  <2>3. CASE Awaits("put", "applied", D, P)
    <3>1. /\ work = <<>> /\ store[P][TheKey] = D /\ (R \in nodes => store[R][TheKey] = Absent)
      BY <1>3, <2>3 DEF Written, Awaits
    <3>2. /\ op'[main].step = "replied" /\ last_heartbeat' = Recorded(P)
          /\ UNCHANGED <<nodes, written, store>>
          /\ R \in Alive \ {P} => work' = Append(work, Replication(R, TheKey, D))
          /\ R \notin Alive \ {P} => work' = work
      BY <1>3, <2>3, PutReturns DEF Awaits
    <3>3. Mapped' /\ P' = P /\ R' = R
      BY <1>1, <2>1, <3>2, MappedStays
    <3>4. Alive' = Alive
      BY <1>1, <1>2, <3>2, RecordedAlive
    <3>5. \/ work' = <<>>
          \/ work' = <<Replication(R, TheKey, D)>> /\ R \in nodes
      BY <1>1, <3>1, <3>2
    <3>6. FirstPut'
      BY <3>1, <3>2, <3>3, <3>5 DEF FirstPut, D
    <3> QED
      BY <1>1, <2>1, <3>2, <3>3, <3>4, <3>6 DEF Written, Replied
  <2> QED
    BY <1>3, <2>2, <2>3 DEF Written
<1>4. CASE Background /\ UNCHANGED scriptVars
  <2>1. UNCHANGED <<line, before>> /\ work # <<>>
    BY <1>4 DEF scriptVars, Background
  <2>2. Replied(main) /\ FirstPut
    BY <2>1 DEF Written
  <2>3. FirstPut' /\ UNCHANGED <<nodes, op, written>> /\ Alive' = Alive
    BY <1>1, <1>4, <2>1, <2>2, FirstPutReplicated
  <2> QED
    BY <1>1, <2>1, <2>2, <2>3, MappedStays DEF Written, Replied
<1>5. CASE Replied(main) /\ GetBefore /\ UNCHANGED before
  <2>1. BeginGet(main, TheKey) /\ line' = "read"
    BY <1>5 DEF GetBefore, Ask
  <2>2. FirstPut
    BY <1>5 DEF Written, Awaits, Replied
  <2>3. /\ UNCHANGED <<nodes, store, work, written>> /\ Alive' = Alive
        /\ Mapped' /\ P' = P /\ R' = R /\ Awaits("get", "target", Absent, P)'
    BY <1>1, <1>2, <1>5, <2>1, GetBegins
  <2>4. FirstPut'
    BY <2>2, <2>3 DEF FirstPut, D
  <2> QED
    BY <1>1, <2>1, <2>3, <2>4 DEF Read
<1> QED
  BY <1>1, <1>3, <1>4, <1>5, FailoverSteps DEF KeyError, Reached

\* It has read the key, or the primary fails.
LEMMA ReadNext ==
    ASSUME TypeOK, script = "failover_mapping", ~Leaving, Read, ScriptNext
    PROVE  (Read' \/ Failed' \/ line' = "error") /\ written' = written
<1>1. /\ line = "read" /\ Mapped /\ Alive = nodes /\ FirstPut
  BY DEF Read
<1>2. /\ P \in nodes /\ P \in Node /\ R \in (nodes \ {P}) \cup {NoNode}
      /\ NoNode \notin Node /\ nodes \in SUBSET Node /\ D \in Value /\ D # Absent
  BY <1>1, RoutedTo
<1>3. CASE Call(main) /\ ~Replied(main) /\ UNCHANGED scriptVars
  <2>1. UNCHANGED <<line, before>>
    BY <1>3 DEF scriptVars
  <2>2. Awaits("get", "target", Absent, P)
    BY <1>3 DEF Read
  <2>3. /\ op'[main].step = "replied" /\ Alive' = Alive
        /\ UNCHANGED <<nodes, store, work, written>>
    BY <1>1, <1>2, <1>3, <2>2, GetSteps DEF Awaits, FirstPut
  <2>4. Mapped' /\ FirstPut'
    BY <1>1, <2>1, <2>3, MappedStays DEF FirstPut, D
  <2> QED
    BY <1>1, <2>1, <2>3, <2>4 DEF Read, Replied
<1>4. CASE Background /\ UNCHANGED scriptVars
  <2>1. UNCHANGED <<line, before>>
    BY <1>4 DEF scriptVars
  <2>2. FirstPut' /\ UNCHANGED <<nodes, op, written>> /\ Alive' = Alive
    BY <1>1, <1>4, <2>1, FirstPutReplicated
  <2>3. Mapped' /\ P' = P /\ R' = R
    BY <1>1, <2>1, <2>2, MappedStays
  <2> QED
    BY <1>1, <2>1, <2>2, <2>3 DEF Read, Replied, Awaits
<1>5. CASE Replied(main) /\ PrimaryFails /\ UNCHANGED before
  <2>1. /\ last_heartbeat' = [last_heartbeat EXCEPT ![P] = "stale"] /\ line' = "failed"
        /\ UNCHANGED <<nodes, store, op, work, written>>
    BY <1>5 DEF PrimaryFails, P, ghosts
  <2>2. Alive' = Alive \ {P}
    BY <1>2, <2>1 DEF Alive, TypeOK
  <2>3. Mapped' /\ P' = P /\ FirstPut'
    BY <1>1, <1>5, <2>1, MappedStays DEF FirstPut, D
  <2>4. Failed'
    BY <1>1, <1>5, <2>1, <2>2, <2>3 DEF Failed, Replied
  <2> QED
    BY <2>1, <2>4
<1>6. CASE KeyError
  BY <1>6 DEF KeyError, vars
<1> QED
  BY <1>1, <1>3, <1>4, <1>5, <1>6, FailoverSteps

\* The primary is presumed dead.
LEMMA FailedNext ==
    ASSUME TypeOK, script = "failover_mapping", ~Leaving, Failed, ScriptNext
    PROVE  (Failed' \/ FailedOver') /\ written' = written
<1>1. /\ line = "failed" /\ Mapped /\ Alive = nodes \ {P} /\ FirstPut /\ Replied(main)
  BY DEF Failed
<1>2. CASE Background /\ UNCHANGED scriptVars
  <2>1. UNCHANGED <<line, before>>
    BY <1>2 DEF scriptVars
  <2>2. FirstPut' /\ UNCHANGED <<nodes, op, written>> /\ Alive' = Alive
    BY <1>1, <1>2, <2>1, FirstPutReplicated
  <2>3. Mapped' /\ P' = P
    BY <1>1, <2>1, <2>2, MappedStays
  <2> QED
    BY <1>1, <2>1, <2>2, <2>3 DEF Failed, Replied
<1>3. CASE GetFromReplica /\ UNCHANGED before
  <2>1. BeginGet(main, TheKey) /\ line' = "failed_over"
    BY <1>3 DEF GetFromReplica, Ask
  <2>2. /\ UNCHANGED <<nodes, store, work, written>> /\ Alive' = Alive
        /\ Mapped' /\ P' = P /\ R' = R /\ R \in Alive /\ Awaits("get", "target", Absent, R)'
    BY <1>1, <1>3, <2>1, GetBegins
  <2>3. FirstPut'
    BY <1>1, <2>2 DEF FirstPut, D
  <2> QED
    BY <1>1, <2>1, <2>2, <2>3 DEF FailedOver
<1> QED
  BY <1>1, <1>2, <1>3, FailoverSteps DEF KeyError, Reached

\* The replica is asked: what it has is what it got before anything else is left to do.
LEMMA FailedOverNext ==
    ASSUME TypeOK, script = "failover_mapping", ~Leaving, FailedOver,
           D \in written[TheKey], ScriptNext
    PROVE  (FailedOver' \/ Rewritten' \/ line' = "error") /\ D' \in written'[TheKey]
<1>1. /\ line = "failed_over" /\ Mapped /\ Alive = nodes \ {P} /\ R \in Alive /\ FirstPut
  BY DEF FailedOver
<1>2. /\ P \in nodes /\ P \in Node /\ R \in (nodes \ {P}) \cup {NoNode}
      /\ NoNode \notin Node /\ nodes \in SUBSET Node /\ D \in Value /\ D # Absent
  BY <1>1, RoutedTo
<1>3. CASE Call(main) /\ ~Replied(main) /\ UNCHANGED scriptVars
  <2>1. UNCHANGED <<line, before>>
    BY <1>3 DEF scriptVars
  <2>2. Awaits("get", "target", Absent, R)
    BY <1>3 DEF FailedOver
  <2>3. /\ op'[main].step = "replied" /\ op'[main].value = store[R][TheKey] /\ Alive' = Alive
        /\ UNCHANGED <<nodes, store, work, written>>
    BY <1>1, <1>3, <2>2, GetSteps DEF Awaits
  <2>4. Mapped' /\ P' = P /\ R' = R
    BY <1>1, <2>1, <2>3, MappedStays
  <2>5. FirstPut'
    BY <1>1, <2>3, <2>4 DEF FirstPut, D
  <2>6. Found' => work' = <<>>
    BY <1>1, <2>3 DEF Found, FirstPut
  <2> QED
    BY <1>1, <2>1, <2>3, <2>4, <2>5, <2>6 DEF FailedOver, Replied, D
<1>4. CASE Background /\ UNCHANGED scriptVars
  <2>1. UNCHANGED <<line, before>>
    BY <1>4 DEF scriptVars
  <2>2. FirstPut' /\ work' = <<>> /\ UNCHANGED <<nodes, op, written>> /\ Alive' = Alive
    BY <1>1, <1>4, <2>1, FirstPutReplicated
  <2>3. Mapped' /\ P' = P /\ R' = R
    BY <1>1, <2>1, <2>2, MappedStays
  <2> QED
    BY <1>1, <2>1, <2>2, <2>3 DEF FailedOver, Replied, Awaits, D
<1>5. CASE Replied(main) /\ PutDuringFailover /\ UNCHANGED before
  <2>1. BeginPut(main, TheKey, NewData) /\ line' = "rewritten" /\ work = <<>>
    BY <1>5 DEF PutDuringFailover, FailedOver, Awaits, Replied
  <2>2. /\ op'[main] = [kind |-> "put", step |-> "target", key |-> TheKey, value |-> NewData,
                        target |-> ServedBy(TheKey), replica |-> Replica(nodes, TheKey)]
        /\ ServedBy(TheKey) # NoNode
        /\ UNCHANGED <<nodes, last_heartbeat, store, work, expected>> /\ Alive' = Alive
    BY <2>1, CallBegins DEF BeginPut
  <2>3. Mapped' /\ P' = P /\ R' = R
    BY <1>1, <1>5, <2>2, MappedStays
  <2>4. ServedBy(TheKey) = R /\ Replica(nodes, TheKey) = R
    BY <1>1, <2>2, WhoServes, RoutedTo
  <2>5. Awaits("put", "target", NewData, R)'
    BY <2>2, <2>3, <2>4 DEF Awaits
  <2>6. NewData # D
    BY <2>1, ScriptConstants DEF BeginPut
  <2>7. D' \in written'[TheKey]
    BY <2>1, ScriptConstants DEF BeginPut, TypeOK, D
  <2>8. store'[P'][TheKey] = D'
    BY <1>1, <2>2, <2>3 DEF FirstPut, D
  <2> QED
    BY <1>1, <2>1, <2>2, <2>3, <2>5, <2>6, <2>7, <2>8 DEF Rewritten, D
<1>6. CASE KeyError
  BY <1>6 DEF KeyError, vars, D
<1> QED
  BY <1>1, <1>3, <1>4, <1>5, <1>6, FailoverSteps

\* The write of the failover goes to the replica; then the primary is revived.
LEMMA RewrittenNext ==
    ASSUME TypeOK, script = "failover_mapping", ~Leaving, Rewritten, ScriptNext
    PROVE  (Rewritten' \/ Recovered') /\ written' = written
<1>1. /\ line = "rewritten" /\ Mapped /\ Alive = nodes \ {P} /\ R \in Alive /\ work = <<>>
      /\ store[P][TheKey] = D /\ NewData # D
  BY DEF Rewritten, SecondPut
<1>2. /\ P \in nodes /\ P \in Node /\ R \in (nodes \ {P}) \cup {NoNode}
      /\ NoNode \notin Node /\ nodes \in SUBSET Node
  BY <1>1, RoutedTo
<1>3. R \in Node /\ R # P
  BY <1>1, <1>2
<1>4. CASE Call(main) /\ ~Replied(main) /\ UNCHANGED scriptVars
  <2>1. UNCHANGED <<line, before>>
    BY <1>4 DEF scriptVars
  <2>2. CASE Awaits("put", "target", NewData, R)
    <3>1. /\ op'[main] = [kind |-> "put", step |-> "applied", key |-> TheKey,
                          value |-> NewData, target |-> R, replica |-> R]
          /\ store' = Stored(R, TheKey, NewData)
          /\ UNCHANGED <<nodes, work, written>> /\ Alive' = Alive
      BY <1>4, <2>2, PutArrives DEF Awaits
    <3>2. Mapped' /\ P' = P /\ R' = R
      BY <1>1, <2>1, <3>1, MappedStays
    <3>3. store'[P][TheKey] = D /\ store'[R][TheKey] = NewData
      BY <1>1, <1>2, <1>3, <3>1, StoredEntry
    <3>4. Awaits("put", "applied", NewData, R)'
      BY <3>1, <3>2 DEF Awaits
    <3>5. SecondPut'
      BY <1>1, <3>1, <3>2, <3>3 DEF SecondPut, D
    <3> QED
      BY <1>1, <2>1, <3>1, <3>2, <3>4, <3>5 DEF Rewritten
  <2>3. CASE Awaits("put", "applied", NewData, R) /\ SecondPut
    <3>1. /\ op'[main].step = "replied" /\ last_heartbeat' = Recorded(R)
          /\ UNCHANGED <<nodes, written, store>>
          /\ R \notin Alive \ {R} => work' = work
      BY <1>4, <2>3, PutReturns DEF Awaits
    <3>2. Alive' = Alive
      BY <1>1, <3>1, RecordedAlive
    <3>3. Mapped' /\ P' = P /\ R' = R
      BY <1>1, <2>1, <3>1, MappedStays
    <3>4. SecondPut'
      BY <2>3, <3>1, <3>3 DEF SecondPut, D
    <3> QED
      BY <1>1, <2>1, <3>1, <3>2, <3>3, <3>4 DEF Rewritten, Replied
  <2> QED
    BY <1>4, <2>2, <2>3 DEF Rewritten
<1>5. CASE Replied(main) /\ PrimaryRecovers /\ UNCHANGED before
  <2>1. /\ last_heartbeat' = [last_heartbeat EXCEPT ![P] = last_heartbeat[R]]
        /\ line' = "recovered" /\ UNCHANGED <<nodes, store, op, work, written>>
    BY <1>5 DEF PrimaryRecovers, P, R, ghosts
  <2>2. Alive' = nodes
    <3>1. last_heartbeat[R] = "fresh"
      BY <1>1 DEF Alive
    <3>2. \A n \in Node :
            last_heartbeat'[n] = IF n = P THEN "fresh" ELSE last_heartbeat[n]
      BY <2>1, <3>1 DEF TypeOK
    <3>3. Alive' = Alive \cup {P}
      BY <1>2, <3>2 DEF Alive
    <3> QED
      BY <1>1, <1>2, <3>3
  <2>3. Mapped' /\ P' = P /\ R' = R
    BY <1>1, <1>5, <2>1, MappedStays
  <2>4. SecondPut
    BY <1>5 DEF Rewritten, Awaits, Replied
  <2>5. SecondPut'
    BY <2>1, <2>3, <2>4 DEF SecondPut, D
  <2>6. Recovered'
    BY <1>1, <1>2, <1>5, <2>1, <2>2, <2>3, <2>5 DEF Recovered, Replied
  <2> QED
    BY <2>1, <2>6
<1> QED
  BY <1>1, <1>4, <1>5, FailoverSteps DEF KeyError, Reached, Background

\* The primary is back, and answers with what it has.
LEMMA RecoveredNext ==
    ASSUME TypeOK, script = "failover_mapping", ~Leaving, Recovered, ScriptNext
    PROVE  (Recovered' \/ line' = "error") /\ written' = written
<1>1. /\ line \in {"recovered", "reread", "done"} /\ Mapped /\ Alive = nodes /\ R \in nodes
      /\ SecondPut /\ work = <<>>
  BY DEF Recovered, SecondPut
<1>2. P \in nodes /\ D # Absent
  BY <1>1, RoutedTo
<1>3. CASE Call(main) /\ ~Replied(main) /\ UNCHANGED scriptVars
  <2>1. UNCHANGED <<line, before>>
    BY <1>3 DEF scriptVars
  <2>2. line = "reread" /\ Awaits("get", "target", Absent, P)
    BY <1>3 DEF Recovered
  <2>3. /\ op'[main].step = "replied" /\ op'[main].value = D /\ Alive' = Alive
        /\ UNCHANGED <<nodes, store, work, written>>
    BY <1>1, <1>2, <1>3, <2>2, GetSteps DEF Awaits, SecondPut
  <2>4. Mapped' /\ P' = P /\ R' = R
    BY <1>1, <2>1, <2>3, MappedStays
  <2>5. SecondPut'
    BY <1>1, <2>3, <2>4 DEF SecondPut, D
  <2> QED
    BY <1>1, <2>1, <2>2, <2>3, <2>4, <2>5 DEF Recovered, Replied, D
<1>4. CASE line = "recovered" /\ Replied(main) /\ GetAfterRecovery /\ UNCHANGED before
  <2>1. BeginGet(main, TheKey) /\ line' = "reread"
    BY <1>4 DEF GetAfterRecovery, Ask
  <2>2. /\ UNCHANGED <<nodes, store, work, written>> /\ Alive' = Alive
        /\ Mapped' /\ P' = P /\ R' = R /\ Awaits("get", "target", Absent, P)'
    BY <1>1, <1>2, <1>4, <2>1, GetBegins
  <2>3. SecondPut'
    BY <1>1, <2>2 DEF SecondPut, D
  <2> QED
    BY <1>1, <2>1, <2>2, <2>3 DEF Recovered
<1>5. CASE line = "reread" /\ Replied(main) /\ Finish /\ UNCHANGED before
  <2>1. UNCHANGED vars /\ line' = "done"
    BY <1>5 DEF Finish
  <2>2. op[main].value = D
    BY <1>5 DEF Recovered, Awaits, Replied
  <2>3. Mapped'
    BY <1>1, <1>5, <2>1, MappedStays DEF vars
  <2>4. SecondPut' /\ Alive' = Alive /\ R' = R
    BY <1>1, <1>5, <2>1 DEF vars, SecondPut, D, P, R, Routed, Alive
  <2> QED
    BY <1>1, <1>5, <2>1, <2>2, <2>3, <2>4 DEF Recovered, vars, Replied, D
<1>6. CASE KeyError
  BY <1>6 DEF KeyError, vars
<1> QED
  BY <1>1, <1>3, <1>4, <1>5, <1>6, FailoverSteps DEF Background

\* Once it has ended with an error, the script does nothing more.
LEMMA ErrorNext ==
    ASSUME script = "failover_mapping", ~Leaving, line = "error", ScriptNext
    PROVE  line' = "error"
BY FailoverSteps DEF scriptVars, KeyError, Reached

\* A script stays what it is.
LEMMA ScriptStays ==
    ASSUME ScriptNext
    PROVE  UNCHANGED script
BY DEF ScriptNext, Main, scriptVars, PutNext, ReportBefore, AddNewNode, WaitForRebalance,
   RemoveOldNode, ReportAfter, PutKey, GetBefore, PrimaryFails, GetFromReplica,
   PutDuringFailover, PrimaryRecovers, GetAfterRecovery, Ask, Finish, KeyError

\* The lines of the failover follow each other.
LEMMA FailoverNext ==
    ASSUME TypeOK, FailoverInv, [ScriptNext]_<<vars, scriptVars>>
    PROVE  FailoverInv'
<1>1. CASE UNCHANGED <<vars, scriptVars>>
  <2>1. UNCHANGED <<nodes, last_heartbeat, store, op, work, written, script, line, before>>
    BY <1>1 DEF vars, scriptVars
  <2>2. UNCHANGED <<Alive, KeyOwnership, P, R, D, Found>> /\ Replied(main)' = Replied(main)
    BY <2>1 DEF Alive, KeyOwnership, P, R, Routed, D, Found, Replied
  <2>3. Mapped' = Mapped /\ FirstPut' = FirstPut /\ SecondPut' = SecondPut
    BY <2>1, <2>2 DEF Mapped, FirstPut, SecondPut
  <2>4. Leaving' <=> Leaving
    BY <1>1 DEF Leaving, vars
  <2> QED
    BY <2>1, <2>2, <2>3, <2>4 DEF FailoverInv, Loading, Written, Read, Failed, FailedOver,
       Rewritten, Recovered, Awaits
<1>2. CASE ScriptNext /\ script = "failover_mapping"
  <2> ~Leaving /\ ~Leaving'
    BY <1>2, NoneLeaves DEF FailoverInv
  <2>1. /\ D' \in written'[TheKey]
        /\ Written' \/ Read' \/ Failed' \/ FailedOver' \/ Rewritten' \/ Recovered'
        => FailoverInv'
    BY DEF FailoverInv
  <2>2. line' = "error" => FailoverInv'
    BY DEF FailoverInv
  <2>3. CASE Loading
    BY <1>2, <2>1, <2>3, LoadingNext
  <2>4. CASE line = "error"
    BY <1>2, <2>2, <2>4, ErrorNext
  <2>5. CASE Written \/ Read \/ Failed \/ FailedOver \/ Rewritten \/ Recovered
    <3>1. D \in written[TheKey] /\ D' = D
      BY <1>2, <2>5 DEF FailoverInv, Written, Read, Failed, FailedOver, Rewritten, Recovered, D
    <3> QED
      BY <1>2, <2>1, <2>2, <2>5, <3>1, WrittenNext, ReadNext, FailedNext, FailedOverNext,
         RewrittenNext, RecoveredNext
  <2> QED
    BY <1>2, <2>3, <2>4, <2>5 DEF FailoverInv
<1>3. CASE ScriptNext /\ script # "failover_mapping"
  BY <1>3, ScriptStays DEF FailoverInv
<1> QED
  BY <1>1, <1>2, <1>3

\* At the start nothing is stored.
LEMMA FailoverInit ==
    ASSUME ScriptInit
    PROVE  FailoverInv
<1>1. \A n \in Node : store[n][TheKey] = Absent
  BY ScriptConstants DEF ScriptInit, Empty
<1>2. line = "load" /\ Replied(main) /\ work = <<>>
  BY ScriptConstants DEF ScriptInit, Replied, Idle
<1>3. Alive = nodes /\ ~Leaving
  BY ServiceAssumption DEF ScriptInit, Alive, Leaving
<1> QED
  BY <1>1, <1>2, <1>3 DEF FailoverInv, Loading

\* The service keeps its types under a script: the primary is revived with the heartbeat
\* of a node, since a replica answered before.
LEMMA ScriptKeepsType ==
    ASSUME TypeOK, ScriptTypeOK, FailoverInv, [ScriptNext]_<<vars, scriptVars>>
    PROVE  TypeOK'
<1>1. CASE [Next]_vars
  BY <1>1, TypeNext
<1>2. CASE PrimaryFails
  BY <1>2 DEF PrimaryFails, TypeOK, ghosts
<1>3. CASE PrimaryRecovers
  <2>1. Rewritten
    BY <1>3 DEF FailoverInv, PrimaryRecovers, Reached, Loading, Written, Read, Failed,
       FailedOver, Recovered
  <2>2. R \in Node
    BY <2>1 DEF Rewritten, Alive
  <2>3. last_heartbeat[R] \in {"none", "fresh", "stale"}
    BY <2>2 DEF TypeOK
  <2> QED
    BY <1>3, <2>3 DEF PrimaryRecovers, TypeOK, ghosts, R
<1> QED
  BY <1>1, <1>2, <1>3, ScriptStep

\* What the lines of failover_mapping_explained.py have in common.
LEMMA ScriptKeeps == ScriptSpec => [](TypeOK /\ ScriptTypeOK /\ FailoverInv)
<1>1. ScriptInit => TypeOK /\ ScriptTypeOK /\ FailoverInv
  BY ScriptTypeInit, FailoverInit
<1>2. TypeOK /\ ScriptTypeOK /\ FailoverInv /\ [ScriptNext]_<<vars, scriptVars>>
         => (TypeOK /\ ScriptTypeOK /\ FailoverInv)'
  <2> SUFFICES ASSUME TypeOK, ScriptTypeOK, FailoverInv, [ScriptNext]_<<vars, scriptVars>>
               PROVE  (TypeOK /\ ScriptTypeOK /\ FailoverInv)'
    OBVIOUS
  <2> QED
    BY ScriptKeepsType, ScriptTypeNext, FailoverNext DEF TypeOK
<1> QED
  BY <1>1, <1>2, PTL DEF ScriptSpec

\* Once failover_mapping_explained.py has read the key from the replica, what it then
\* puts there stays: the replica write of its first put is done, or the read would have
\* found nothing and ended the script.
THEOREM FailoverWriteIsKept == ScriptSpec => []FailoverWriteKept
<1>1. FailoverInv => FailoverWriteKept
  BY DEF FailoverInv, FailoverWriteKept, Loading, Written, Read, Failed, FailedOver, Rewritten,
     Recovered, SecondPut, Awaits, Replied, R
<1> QED
  BY <1>1, ScriptKeeps, PTL

\* The script's note on recovery: the primary serves again, with its old data, and the
\* acknowledged write of the failover is left on the replica, behind it.
THEOREM RecoveredAlwaysServesOldData == ScriptSpec => []RecoveredServesOldData
<1>1. FailoverInv => RecoveredServesOldData
  BY DEF FailoverInv, RecoveredServesOldData, Loading, Written, Read, Failed, FailedOver,
     Rewritten, Recovered, SecondPut, D, R
<1> QED
  BY <1>1, ScriptKeeps, PTL

-----------------------------------------------------------------------------
(***************************************************************************)
(* verify_rebalancing.py                                                   *)
(***************************************************************************)

\* The lines of the script, and what runs beside it.
LEMMA VerifySteps ==
    ASSUME script = "verify_rebalancing", ~Leaving, ScriptNext
    PROVE  /\ UNCHANGED <<script, subject>>
           /\ \/ Call(main) /\ ~Replied(main) /\ UNCHANGED scriptVars
              \/ Background /\ UNCHANGED scriptVars
              \/ /\ Replied(main)
                 /\ \/ line = "load" /\ (PutNext \/ ReportBefore)
                    \/ line = "change" /\ AddNewNode
                    \/ line = "wait" /\ WaitForRebalance
                    \/ line = "report" /\ ReportAfter
<1>1. /\ ~PutKey /\ ~PrimaryFails /\ ~PutDuringFailover /\ ~PrimaryRecovers /\ ~Finish
      /\ ~KeyError /\ ~GetBefore /\ ~GetFromReplica /\ ~GetAfterRecovery /\ ~RemoveOldNode
  BY DEF PutKey, PrimaryFails, PutDuringFailover, PrimaryRecovers, Finish, KeyError, GetBefore,
     GetFromReplica, GetAfterRecovery, Ask, RemoveOldNode, Reached
<1>2. PutNext => Replied(main)
  BY DEF PutNext, BeginPut, Begin
<1>3. CASE Main
  BY <1>1, <1>2, <1>3 DEF Main, PutNext, ReportBefore, AddNewNode, WaitForRebalance, ReportAfter,
     Reached
<1>4. CASE ~Main
  BY <1>4, OnlyUnderWay DEF ScriptNext, scriptVars, SortKeys
<1> QED
  BY <1>3, <1>4

\* The first coroutine leaves the loop.
LEMMA HeadRemoved ==
    ASSUME TypeOK, 1 \in DOMAIN work
    PROVE  /\ Len(work) \in Nat /\ DOMAIN work = 1 .. Len(work)
           /\ Len(RemoveAt(work, 1)) = Len(work) - 1
           /\ DOMAIN RemoveAt(work, 1) = 1 .. Len(work) - 1
           /\ \A i \in 1 .. Len(work) - 1 : RemoveAt(work, 1)[i] = work[i + 1]
<1>1. PICK J : work \in Seq(J)
  BY DEF TypeOK
<1>2. Len(work) \in Nat /\ DOMAIN work = 1 .. Len(work) /\ Len(work) >= 1
  BY <1>1, LenProperties
<1> DEFINE rest == SubSeq(work, 2, Len(work))
<1>3. /\ rest \in Seq(J) /\ Len(rest) = Len(work) - 1
      /\ \A i \in 1 .. Len(work) - 1 : rest[i] = work[i + 1]
  BY <1>1, <1>2
<1>4. RemoveAt(work, 1) = SubSeq(work, 1, 0) \o rest
  BY <1>2 DEF RemoveAt
<1>5. SubSeq(work, 1, 0) = <<>>
  BY <1>1
<1> HIDE DEF rest
<1>6. <<>> \o rest = rest
  BY <1>3
<1>7. DOMAIN rest = 1 .. Len(work) - 1
  BY <1>3, LenProperties
<1> QED
  BY <1>2, <1>3, <1>4, <1>5, <1>6, <1>7

\* A replica write at the head of the loop is made: it is done then, for its key, and the
\* other keys are as they were.
LEMMA WriteIsMade ==
    ASSUME TypeOK, NEW M \in SUBSET nodes, M # {}, NEW k \in Key, 1 \in DOMAIN work,
           WriteOf(M, k, work[1]), Background, PutDone(M, k)
    PROVE  /\ work' = RemoveAt(work, 1)
           /\ UNCHANGED <<nodes, op, expected>> /\ Alive' = Alive
           /\ \A l \in Key : PutDone(M, l) => PutDone(M, l)'
           /\ \A l \in Key \ {k} : \A n \in nodes : store'[n][l] = store[n][l]
<1>1. PICK r, p : r = Replica(M, k) /\ p = Primary(M, k)
  OBVIOUS
<1>2. r \in M /\ work[1] = Replication(r, k, Data[k])
  BY <1>1 DEF WriteOf
<1>3. /\ store' = Stored(r, k, Data[k]) /\ work' = RemoveAt(work, 1)
      /\ UNCHANGED <<nodes, op, expected, last_heartbeat>>
  BY <1>2, ScriptConstants, HeadReplicated DEF membership, ghosts
<1>4. nodes \in SUBSET Node /\ M \in SUBSET Node
  BY DEF TypeOK
<1>5. \A n \in Node, l \in Key :
         store'[n][l] = IF n = r /\ l = k THEN Data[k] ELSE store[n][l]
  BY <1>2, <1>3, <1>4 DEF Stored, TypeOK, Entries
<1>6. ASSUME NEW l \in Key, PutDone(M, l) PROVE PutDone(M, l)'
  <2>1. PICK q, s : q = Primary(M, l) /\ s = Replica(M, l)
    OBVIOUS
  <2>2. q \in M /\ s \in (M \ {q}) \cup {NoNode} /\ NoNode \notin M
        /\ Owners(M, l) = {q, s} \ {NoNode}
    BY <1>4, <2>1, Routes, NoNodeAssumption
  <2>3. store'[q][l] = Data[l]
    BY <1>4, <1>5, <1>6, <2>1, <2>2 DEF PutDone
  <2>4. \A n \in nodes \ Owners(M, l) : store'[n][l] = Absent
    <3> SUFFICES ASSUME NEW n \in nodes \ Owners(M, l) PROVE store'[n][l] = Absent
      OBVIOUS
    <3>1. store[n][l] = Absent
      BY <1>6 DEF PutDone
    <3>2. ~(n = r /\ l = k)
      BY <1>1, <1>2, <2>1, <2>2
    <3> QED
      BY <1>4, <1>5, <3>1, <3>2
  <2>5. ASSUME s \in M
        PROVE  \/ store'[s][l] = Data[l]
               \/ store'[s][l] = Absent /\ \E i \in DOMAIN work' : WriteOf(M, l, work'[i])
    <3>1. CASE l = k
      BY <1>1, <1>4, <1>5, <2>1, <2>5, <3>1
    <3>2. CASE l # k
      <4>1. store'[s][l] = store[s][l]
        BY <1>4, <1>5, <2>5, <3>2
      <4>2. CASE store[s][l] = Data[l]
        BY <4>1, <4>2
      <4>3. CASE store[s][l] # Data[l]
        <5>1. PICK i \in DOMAIN work : WriteOf(M, l, work[i])
          BY <1>6, <2>1, <2>5, <4>3 DEF PutDone
        <5>2. work[i].key = l /\ work[1].key = k
          BY <1>2, <5>1 DEF WriteOf, Replication
        <5>3. i # 1
          BY <3>2, <5>2
        <5>4. /\ i - 1 \in 1 .. Len(work) - 1 /\ (i - 1) + 1 = i
          BY <5>3, HeadRemoved
        <5>5. i - 1 \in DOMAIN work' /\ work'[i - 1] = work[i]
          BY <1>3, <5>4, HeadRemoved
        <5>6. store[s][l] = Absent
          BY <1>6, <2>1, <2>5, <4>3 DEF PutDone
        <5> QED
          BY <4>1, <5>1, <5>5, <5>6
      <4> QED
        BY <4>2, <4>3
    <3> QED
      BY <3>1, <3>2
  <2> QED
    BY <1>3, <1>6, <2>1, <2>3, <2>4, <2>5 DEF PutDone
<1>7. \A l \in Key \ {k} : \A n \in nodes : store'[n][l] = store[n][l]
  BY <1>4, <1>5
<1> QED
  BY <1>3, <1>6, <1>7 DEF Alive

\* The routing of a key among the members.
LEMMA FillingRoutes ==
    ASSUME TypeOK, nodes # {}, NEW k \in Key
    PROVE  /\ Primary(nodes, k) \in nodes /\ Primary(nodes, k) \in Node
           /\ Primary(nodes, k) \in Owners(nodes, k)
           /\ Replica(nodes, k) \in (nodes \ {Primary(nodes, k)}) \cup {NoNode}
           /\ NoNode \notin nodes /\ nodes \in SUBSET Node
BY Routes, NoNodeAssumption DEF TypeOK

\* A put that is done stays done while its stores and its replica write stay.
LEMMA PutDoneStays ==
    ASSUME NEW M, NEW k, PutDone(M, k), UNCHANGED nodes, expected'[k] = expected[k],
           \A n \in nodes : store'[n][k] = store[n][k],
           M \subseteq nodes, Primary(M, k) \in M,
           \A i \in DOMAIN work : i \in DOMAIN work' /\ work'[i] = work[i]
    PROVE  PutDone(M, k)'
<1>1. PICK p, r : p = Primary(M, k) /\ r = Replica(M, k)
  OBVIOUS
<1>2. store'[p][k] = Data[k] /\ \A n \in nodes \ Owners(M, k) : store'[n][k] = Absent
  BY <1>1 DEF PutDone
<1>3. (\E i \in DOMAIN work : WriteOf(M, k, work[i]))
         => \E i \in DOMAIN work' : WriteOf(M, k, work'[i])
  OBVIOUS
<1>4. r \in M => store'[r][k] = store[r][k]
  OBVIOUS
<1> QED
  BY <1>1, <1>2, <1>3, <1>4 DEF PutDone

\* A put begins.
LEMMA FillingPut ==
    ASSUME TypeOK, ScriptTypeOK, Filling, PutNext
    PROVE  Filling'
<1>1. PICK k \in to_put :
         /\ BeginPut(main, k, Data[k]) /\ to_put' = to_put \ {k}
         /\ UNCHANGED <<subject, line>> /\ line = "load"
  BY DEF PutNext
<1>2. k \in Key /\ to_put \subseteq Key /\ Begin(main, "put", k, Data[k]) /\ Replied(main)
  BY <1>1 DEF ScriptTypeOK, BeginPut, Begin
<1>3. /\ op'[main] = [kind |-> "put", step |-> "target", key |-> k, value |-> Data[k],
                      target |-> ServedBy(k), replica |-> Replica(nodes, k)]
      /\ ServedBy(k) # NoNode
      /\ UNCHANGED <<nodes, last_heartbeat, store, work, expected>> /\ Alive' = Alive
  BY <1>2, CallBegins
<1>4. Alive = nodes
  BY DEF Filling
<1>5. nodes # {}
  BY <1>3, <1>4 DEF ServedBy
<1>6. ServedBy(k) = Primary(nodes, k)
  BY <1>2, <1>4, <1>5, FillingRoutes DEF ServedBy
<1>7. ~Replied(main)' /\ op'[main].key = k
  BY <1>3 DEF Replied
<1>8. \A l \in Key \ {k} : Acked(l)' <=> Acked(l)
  BY <1>1, <1>2, <1>7 DEF Acked
<1>9. ~Acked(k) /\ ~Acked(k)'
  BY <1>1, <1>7 DEF Acked
<1>10. \A i \in DOMAIN work : \E l \in Key : Acked(l)' /\ WriteOf(nodes, l, work[i])
  BY <1>8, <1>9 DEF Filling
<1>11. PutUnderWay(k)'
  <2>1. \A n \in nodes : store[n][k] = Absent
    BY <1>1 DEF Filling
  <2> QED
    BY <1>3, <1>6, <2>1 DEF PutUnderWay
<1>12. ASSUME NEW l \in Key \ to_put PROVE Acked(l)' /\ PutDone(nodes, l)'
  <2>1. Acked(l) /\ l # k
    BY <1>1, <1>2, <1>12 DEF Acked
  <2>2. PutDone(nodes, l)
    BY <1>12, <2>1 DEF Filling
  <2> QED
    BY <1>2, <1>3, <1>8, <2>1, <2>2 DEF PutDone
<1>13. \A l \in Key \ to_put' : IF Acked(l)' THEN PutDone(nodes, l)' ELSE PutUnderWay(l)'
  BY <1>1, <1>9, <1>11, <1>12
<1>14. \A l \in to_put' : \A n \in nodes' : store'[n][l] = Absent
  BY <1>1, <1>3 DEF Filling
<1>15. op'[main].key \in Key \ to_put'
  BY <1>1, <1>2, <1>7
<1>16. \A i \in DOMAIN work' : (\E l \in Key : Acked(l) /\ WriteOf(nodes, l, work[i]))'
  BY <1>3, <1>10
<1> QED
  BY <1>1, <1>3, <1>4, <1>5, <1>13, <1>14, <1>15, <1>16 DEF Filling

\* The put under way is at its primary, or returns with its replica write still to be made.
LEMMA FillingCall ==
    ASSUME TypeOK, ScriptTypeOK, Filling, Call(main), ~Replied(main), UNCHANGED scriptVars
    PROVE  Filling'
<1>1. UNCHANGED <<subject, line, to_put>> /\ line = "load" /\ to_put \subseteq Key
      /\ Alive = nodes /\ subject \in Node \ nodes
  BY DEF scriptVars, Filling, ScriptTypeOK
<1>2. PICK k \in Key \ to_put : k = op[main].key
  BY DEF Filling
<1>3. ~Acked(k) /\ nodes # {} /\ PutUnderWay(k) /\ \A l \in Key \ (to_put \cup {k}) : Acked(l)
  BY <1>2 DEF Filling, Acked
<1>4. PICK step, p, r :
         /\ step \in {"target", "applied"}
         /\ p = Primary(nodes, k) /\ r = Replica(nodes, k)
         /\ op[main] = [kind |-> "put", step |-> step, key |-> k, value |-> Data[k],
                        target |-> p, replica |-> r]
         /\ \A n \in nodes : store[n][k] = IF n = p /\ step = "applied" THEN Data[k] ELSE Absent
  BY <1>3 DEF PutUnderWay
<1>5. /\ p \in nodes /\ p \in Node /\ p \in Owners(nodes, k)
      /\ r \in (nodes \ {p}) \cup {NoNode} /\ NoNode \notin nodes /\ nodes \in SUBSET Node
  BY <1>3, <1>4, FillingRoutes
<1>6. \A l \in Key \ (to_put \cup {k}) : PutDone(nodes, l)
  BY <1>3 DEF Filling
<1>7. CASE step = "target"
  <2>1. /\ op'[main] = [kind |-> "put", step |-> "applied", key |-> k, value |-> Data[k],
                        target |-> p, replica |-> r]
        /\ store' = Stored(p, k, Data[k])
        /\ UNCHANGED <<nodes, work, expected>> /\ Alive' = Alive
    BY <1>4, <1>7, PutArrives
  <2>2. \A n \in Node, l \in Key :
           store'[n][l] = IF n = p /\ l = k THEN Data[k] ELSE store[n][l]
    BY <1>5, <2>1 DEF Stored, TypeOK, Entries
  <2>3. PutUnderWay(k)'
    BY <1>4, <1>5, <2>1, <2>2 DEF PutUnderWay
  <2>4. ~Replied(main)' /\ op'[main].key = k
    BY <2>1 DEF Replied
  <2>5. \A l \in Key : Acked(l)' <=> Acked(l)
    BY <1>1, <1>2, <2>4 DEF Acked
  <2>6. ASSUME NEW l \in Key \ (to_put \cup {k}) PROVE PutDone(nodes, l)'
    <3>1. \A n \in nodes : store'[n][l] = store[n][l]
      BY <1>5, <2>2
    <3>2. Primary(nodes, l) \in nodes
      BY <1>3, FillingRoutes
    <3> QED
      BY <1>6, <2>1, <3>1, <3>2, PutDoneStays
  <2>7. \A l \in Key \ to_put : IF Acked(l)' THEN PutDone(nodes, l)' ELSE PutUnderWay(l)'
    BY <1>3, <2>3, <2>5, <2>6
  <2>8. \A l \in to_put : \A n \in nodes : store'[n][l] = Absent
    BY <1>1, <1>2, <1>5, <2>2 DEF Filling
  <2>9. \A i \in DOMAIN work' : (\E l \in Key : Acked(l) /\ WriteOf(nodes, l, work[i]))'
    BY <2>1, <2>5 DEF Filling
  <2> QED
    BY <1>1, <1>2, <1>3, <2>1, <2>4, <2>7, <2>8, <2>9 DEF Filling
<1>8. CASE step = "applied"
  <2>1. /\ op'[main].step = "replied" /\ last_heartbeat' = Recorded(p)
        /\ UNCHANGED <<nodes, store>>
        /\ expected' = [expected EXCEPT ![k] = {Data[k]}]
        /\ r \in Alive \ {p} => work' = Append(work, Replication(r, k, Data[k]))
        /\ r \notin Alive \ {p} => work' = work
    BY <1>4, <1>8, PutReturns
  <2>2. Alive' = Alive
    BY <1>1, <1>5, <2>1, RecordedAlive
  <2>3. Replied(main)' /\ \A l \in Key : Acked(l)' <=> l \notin to_put
    BY <1>1, <2>1 DEF Replied, Acked
  <2>4. \A l \in Key : expected'[l] = IF l = k THEN {Data[k]} ELSE expected[l]
    BY <1>2, <2>1 DEF TypeOK
  <2>5. \A i \in DOMAIN work : i \in DOMAIN work' /\ work'[i] = work[i]
    <3>1. CASE r \in Alive \ {p}
      <4>1. work' = Append(work, Replication(r, k, Data[k]))
        BY <2>1, <3>1
      <4>2. /\ DOMAIN work = 1 .. Len(work) /\ DOMAIN work' = 1 .. Len(work) + 1
            /\ Len(work) \in Nat /\ \A i \in 1 .. Len(work) : work'[i] = work[i]
        BY <4>1 DEF TypeOK
      <4> QED
        BY <4>2
    <3>2. CASE r \notin Alive \ {p}
      BY <2>1, <3>2
    <3> QED
      BY <3>1, <3>2
  <2>6. ASSUME r \in nodes
        PROVE  \E i \in DOMAIN work' : work'[i] = Replication(r, k, Data[k])
    <3>1. work' = Append(work, Replication(r, k, Data[k]))
      BY <1>1, <1>5, <2>1, <2>6
    <3>2. Len(work) + 1 \in DOMAIN work' /\ work'[Len(work) + 1] = Replication(r, k, Data[k])
      BY <3>1 DEF TypeOK
    <3> QED
      BY <3>2
  <2>7. PutDone(nodes, k)'
    <3>1. store'[p][k] = Data[k] /\ \A n \in nodes \ {p} : store'[n][k] = Absent
      BY <1>4, <1>5, <1>8, <2>1
    <3>2. r \in nodes => store'[r][k] = Absent
                           /\ \E i \in DOMAIN work' : WriteOf(nodes, k, work'[i])
      BY <1>4, <1>5, <2>6, <3>1 DEF WriteOf
    <3> QED
      BY <1>4, <1>5, <2>1, <2>4, <3>1, <3>2 DEF PutDone, WriteOf
  <2>8. ASSUME NEW l \in Key \ (to_put \cup {k}) PROVE PutDone(nodes, l)'
    <3>1. Primary(nodes, l) \in nodes
      BY <1>3, FillingRoutes
    <3> QED
      BY <1>6, <2>1, <2>4, <2>5, <3>1, PutDoneStays
  <2>9. \A l \in Key \ to_put : PutDone(nodes, l)'
    BY <2>7, <2>8
  <2>10. ASSUME NEW i \in DOMAIN work'
         PROVE  \E l \in Key : l \notin to_put /\ WriteOf(nodes, l, work'[i])
    <3>1. CASE i \in DOMAIN work
      BY <1>2, <2>5, <3>1 DEF Filling, Acked
    <3>2. CASE i \notin DOMAIN work
      <4>1. /\ r \in Alive \ {p} /\ work' = Append(work, Replication(r, k, Data[k]))
        BY <2>1, <2>10, <3>2
      <4>2. work'[i] = Replication(r, k, Data[k])
        BY <2>10, <3>2, <4>1 DEF TypeOK
      <4> QED
        BY <1>1, <1>2, <1>4, <4>1, <4>2 DEF WriteOf
    <3> QED
      BY <3>1, <3>2
  <2>11. \A l \in to_put : \A n \in nodes : store'[n][l] = Absent
    BY <2>1 DEF Filling
  <2>12. \A i \in DOMAIN work' : (\E l \in Key : Acked(l) /\ WriteOf(nodes, l, work[i]))'
    BY <2>1, <2>3, <2>10 DEF WriteOf
  <2> QED
    BY <1>1, <1>3, <2>1, <2>2, <2>3, <2>9, <2>11, <2>12 DEF Filling
<1> QED
  BY <1>4, <1>7, <1>8

\* A replica write of an acknowledged put is made.
LEMMA FillingBackground ==
    ASSUME TypeOK, ScriptTypeOK, Filling, Background, UNCHANGED scriptVars
    PROVE  Filling'
<1>1. UNCHANGED <<subject, line, to_put>> /\ to_put \subseteq Key
  BY DEF scriptVars, ScriptTypeOK
<1>2. 1 \in DOMAIN work
  <2>1. \E i : i \in DOMAIN work
    BY DEF Background
  <2> QED
    BY <2>1, LenProperties DEF TypeOK
<1>3. PICK k \in Key : Acked(k) /\ WriteOf(nodes, k, work[1])
  BY <1>2 DEF Filling
<1>4. PutDone(nodes, k) /\ nodes # {} /\ k \notin to_put
  BY <1>3 DEF Filling, Acked
<1>5. PICK M : M = nodes
  OBVIOUS
<1>6. /\ work' = RemoveAt(work, 1)
      /\ UNCHANGED <<nodes, op, expected>> /\ Alive' = Alive
      /\ \A l \in Key : PutDone(M, l) => PutDone(M, l)'
      /\ \A l \in Key \ {k} : \A n \in nodes : store'[n][l] = store[n][l]
  BY <1>2, <1>3, <1>4, <1>5, WriteIsMade
<1>7. \A l \in Key : (Acked(l)' <=> Acked(l)) /\ (PutDone(nodes, l) => PutDone(nodes, l)')
  BY <1>1, <1>5, <1>6 DEF Acked, Replied, PutDone
<1>8. \A l \in Key \ {k} : PutUnderWay(l) => PutUnderWay(l)'
  BY <1>6 DEF PutUnderWay
<1>9. \A l \in Key \ to_put : IF Acked(l)' THEN PutDone(nodes, l)' ELSE PutUnderWay(l)'
  BY <1>3, <1>7, <1>8 DEF Filling
<1>10. \A l \in to_put : \A n \in nodes : store'[n][l] = Absent
  BY <1>1, <1>4, <1>6 DEF Filling
<1>11. ASSUME NEW i \in DOMAIN work' PROVE \E l \in Key : Acked(l)' /\ WriteOf(nodes, l, work'[i])
  <2>1. i \in 1 .. Len(work) - 1 /\ work'[i] = work[i + 1] /\ Len(work) \in Nat
    BY <1>2, <1>6, <1>11, HeadRemoved
  <2>2. i + 1 \in DOMAIN work
    BY <1>2, <2>1, HeadRemoved
  <2> QED
    BY <1>7, <2>1, <2>2 DEF Filling
<1>12. \A i \in DOMAIN work' : (\E l \in Key : Acked(l) /\ WriteOf(nodes, l, work[i]))'
  BY <1>6, <1>11
<1>13. Replied(main)' \/ op'[main].key \in Key \ to_put'
  BY <1>1, <1>6 DEF Filling, Replied
<1> QED
  BY <1>1, <1>6, <1>9, <1>10, <1>12, <1>13 DEF Filling, Replied

\* The node joins: the rebalance is behind the replica writes.
LEMMA JoinQueues ==
    ASSUME TypeOK, ScriptTypeOK, Filling, line = "change", AddNewNode
    PROVE  Queued'
<1>1. /\ AddNode(subject) /\ line' = "wait" /\ UNCHANGED subject /\ to_put = {}
      /\ subject \in Node \ nodes
  BY DEF AddNewNode, ScriptTypeOK, Filling
<1>2. Replied(main)
  BY DEF Filling
<1>3. /\ store' = [store EXCEPT ![subject] = Empty]
      /\ nodes' = nodes \cup {subject}
      /\ work' = Append(work, Rebalancing("add", nodes))
      /\ UNCHANGED <<op, expected>>
  BY <1>1, ScriptConstants DEF AddNode, ghosts
<1>4. nodes # {} /\ nodes \in SUBSET Node
  BY <1>1, ServiceAssumption DEF Filling, TypeOK
<1>5. PICK M : M = nodes
  OBVIOUS
<1>6. \A k \in Key : PutDone(M, k)
  BY <1>1, <1>2, <1>5 DEF Filling, Acked
<1>7. \A i \in DOMAIN work : \E k \in Key : WriteOf(M, k, work[i])
  BY <1>5 DEF Filling
<1>8. /\ Len(work) \in Nat /\ DOMAIN work = 1 .. Len(work)
      /\ Len(work') = Len(work) + 1 /\ DOMAIN work' = 1 .. Len(work) + 1
      /\ work'[Len(work')] = Rebalancing("add", M)
      /\ \A i \in 1 .. Len(work) : work'[i] = work[i]
  BY <1>3, <1>5 DEF TypeOK
<1>9. ASSUME NEW k \in Key PROVE PutDone(M, k)'
  <2>1. PICK p, r : p = Primary(M, k) /\ r = Replica(M, k)
    OBVIOUS
  <2>2. p \in M /\ r \in (M \ {p}) \cup {NoNode}
    BY <1>4, <1>5, <2>1, FillingRoutes
  <2>3. \A n \in nodes : store'[n][k] = store[n][k]
    BY <1>1, <1>3 DEF TypeOK
  <2>4. store'[subject][k] = Absent
    BY <1>1, <1>3 DEF TypeOK, Empty
  <2>5. \A n \in nodes' \ Owners(M, k) : store'[n][k] = Absent
    BY <1>3, <1>5, <1>6, <2>3, <2>4 DEF PutDone
  <2>6. (\E i \in DOMAIN work : WriteOf(M, k, work[i]))
           => \E i \in DOMAIN work' : WriteOf(M, k, work'[i])
    BY <1>8
  <2>7. store'[p][k] = Data[k] /\ expected'[k] = {Data[k]}
    BY <1>3, <1>5, <1>6, <2>1, <2>2, <2>3 DEF PutDone
  <2> QED
    BY <1>5, <1>6, <2>1, <2>3, <2>5, <2>6, <2>7 DEF PutDone
<1>10. \A i \in 1 .. Len(work') - 1 : \E k \in Key : WriteOf(M, k, work'[i])
  BY <1>7, <1>8
<1>11. Replied(main)'
  BY <1>2, <1>3 DEF Replied
<1> QED
  BY <1>1, <1>3, <1>4, <1>5, <1>8, <1>9, <1>10, <1>11 DEF Queued

\* The rebalance is alone on the loop: it has still to start.
LEMMA QueuedAlone ==
    ASSUME TypeOK, Queued, Len(work) = 1
    PROVE  Shifting
<1>1. PICK M \in SUBSET Node :
         /\ M # {} /\ subject \in Node \ M /\ nodes = M \cup {subject}
         /\ work[1] = Rebalancing("add", M)
         /\ \A k \in Key : PutDone(M, k)
  BY DEF Queued
<1>2. PICK job : job = Rebalancing("add", M)
  OBVIOUS
<1>3. work = <<job>> /\ DOMAIN work = {1}
  BY <1>1, <1>2 DEF TypeOK
<1>4. job \in RebalanceJob
  BY <1>2, JobTypes
<1>5. /\ job.step = "submitted" /\ job.prev = M /\ job.kind = "add" /\ DOMAIN job.snaps = {}
  BY <1>2 DEF Rebalancing
<1>6. ASSUME NEW k \in Key PROVE Held(M, k) /\ expected[k] = {Data[k]}
  <2>1. PICK p, r : p = Primary(M, k) /\ r = Replica(M, k)
    OBVIOUS
  <2>2. Owners(M, k) = {p, r} \ {NoNode} /\ p \in M /\ r \in M \cup {NoNode}
    BY <1>1, <2>1, Routes
  <2>3. \A i \in DOMAIN work : ~WriteOf(M, k, work[i])
    BY <1>1, <1>3 DEF WriteOf, Replication, Rebalancing
  <2>4. /\ store[p][k] = Data[k] /\ (r \in M => store[r][k] = Data[k])
        /\ \A n \in nodes \ Owners(M, k) : store[n][k] = Absent
        /\ expected[k] = {Data[k]}
    BY <1>1, <2>1, <2>3 DEF PutDone
  <2> QED
    BY <2>2, <2>4 DEF Held, Has, Lacks
<1>7. ChangeOf(job)
  BY <1>1, <1>5 DEF ChangeOf
<1>8. Moving(job)
  BY <1>1, <1>4, <1>5, <1>6, <1>7 DEF Moving, Deciding
<1>9. job \in {work[i] : i \in DOMAIN work}
  BY <1>3
<1> QED
  BY <1>1, <1>3, <1>6, <1>8, <1>9 DEF Queued, Shifting

\* The replica writes before the rebalance are made, one by one.
LEMMA QueuedNext ==
    ASSUME TypeOK, Queued, Len(work) # 1, Background, UNCHANGED scriptVars
    PROVE  Queued'
<1>1. PICK M \in SUBSET Node :
         /\ M # {} /\ subject \in Node \ M /\ nodes = M \cup {subject}
         /\ Len(work) > 0 /\ work[Len(work)] = Rebalancing("add", M)
         /\ \A i \in 1 .. Len(work) - 1 : \E k \in Key : WriteOf(M, k, work[i])
         /\ \A k \in Key : PutDone(M, k)
  BY DEF Queued
<1>2. 1 \in DOMAIN work /\ 1 \in 1 .. Len(work) - 1 /\ Len(work) \in Nat
  <2>1. Len(work) \in Nat /\ DOMAIN work = 1 .. Len(work)
    BY LenProperties DEF TypeOK
  <2>2. Len(work) > 1
    BY <1>1, <2>1
  <2> QED
    BY <2>1, <2>2
<1>3. PICK k \in Key : WriteOf(M, k, work[1])
  BY <1>1, <1>2
<1>4. /\ work' = RemoveAt(work, 1)
      /\ UNCHANGED <<nodes, op, expected>>
      /\ \A l \in Key : PutDone(M, l) => PutDone(M, l)'
  BY <1>1, <1>2, <1>3, WriteIsMade
<1>5. /\ Len(work') = Len(work) - 1
      /\ \A i \in 1 .. Len(work) - 1 : work'[i] = work[i + 1]
  BY <1>2, <1>4, HeadRemoved
<1>6. Len(work') > 0 /\ work'[Len(work')] = Rebalancing("add", M)
  BY <1>1, <1>2, <1>5
<1>7. \A i \in 1 .. Len(work') - 1 : \E l \in Key : WriteOf(M, l, work'[i])
  <2> SUFFICES ASSUME NEW i \in 1 .. Len(work') - 1
               PROVE  \E l \in Key : WriteOf(M, l, work'[i])
    OBVIOUS
  <2>1. i + 1 \in 1 .. Len(work) - 1 /\ work'[i] = work[i + 1]
    BY <1>2, <1>5
  <2> QED
    BY <1>1, <2>1
<1>8. UNCHANGED <<line, subject>> /\ Replied(main)'
  BY <1>4 DEF Queued, Replied, scriptVars
<1> QED
  BY <1>1, <1>4, <1>6, <1>7, <1>8 DEF Queued

\* The rebalance goes on, or ends with every key at its owners.
LEMMA ShiftingNext ==
    ASSUME TypeOK, ~Leaving, Shifting, Background, UNCHANGED scriptVars
    PROVE  Shifting' \/ Rebalanced'
<1>1. PICK job : work = <<job>> /\ Moving(job)
  BY DEF Shifting
<1>2. Certain
  BY ScriptConstants DEF Shifting, Certain
<1>3. Advanced /\ UNCHANGED <<nodes, op, expected>>
  BY <1>1, <1>2, ScriptConstants, RebalanceAdvances DEF Shifting, membership, ghosts
<1>4. /\ line' = "wait" /\ Replied(main)' /\ nodes' # {}
      /\ \A k \in Key : expected'[k] = {Data[k]}
  BY <1>3 DEF Shifting, Replied, scriptVars
<1>5. CASE work' = <<>> /\ \A k \in Key : Held(nodes, k)'
  BY <1>4, <1>5 DEF Rebalanced
<1>6. CASE \E next \in RebalanceJob : work' = <<next>> /\ Moving(next)'
  <2>1. PICK next \in RebalanceJob : work' = <<next>> /\ Moving(next)'
    BY <1>6
  <2>2. next \in {work'[i] : i \in DOMAIN work'}
    BY <2>1
  <2>3. Shifting'
    BY <1>4, <2>1, <2>2 DEF Shifting
  <2> QED
    BY <2>3
<1> QED
  BY <1>3, <1>5, <1>6 DEF Advanced

\* What the lines leave when nothing is stored, called or scheduled.
LEMMA RebalancedStays ==
    ASSUME Rebalanced, UNCHANGED vars, line' \in {"wait", "report", "done"},
           line' = "done" => after' = KeyOwnership
    PROVE  Rebalanced'
<1>1. UNCHANGED <<nodes, store, op, work, expected>> /\ KeyOwnership' = KeyOwnership
  BY DEF vars, KeyOwnership
<1>2. \A k \in Key : Held(nodes, k)'
  BY <1>1, StoresFrame DEF Rebalanced
<1> QED
  BY <1>1, <1>2 DEF Rebalanced, Replied

\* The rebalance is not waited for while it is on the loop.
LEMMA RebalanceOnLoop ==
    ASSUME TypeOK, Queued \/ Shifting
    PROVE  \E i \in DOMAIN work : IsRebalance(work[i]) /\ work[i].step # "orphaned"
<1>1. CASE Queued
  <2>1. /\ Len(work) \in DOMAIN work /\ IsRebalance(work[Len(work)])
        /\ work[Len(work)].step = "submitted"
    BY <1>1 DEF Queued, TypeOK, IsRebalance, Rebalancing
  <2> QED
    BY <2>1
<1>2. CASE Shifting
  <2>1. PICK job : work = <<job>> /\ Moving(job)
    BY <1>2 DEF Shifting
  <2>2. 1 \in DOMAIN work /\ work[1] = job /\ job \in RebalanceJob
    BY <2>1 DEF Moving
  <2>3. job.step # "orphaned"
    BY <2>1 DEF Moving, Deciding, Gathering
  <2> QED
    BY <2>2, <2>3 DEF IsRebalance, RebalanceJob
<1> QED
  BY <1>1, <1>2

\* The lines of verify_rebalancing.py follow each other.
LEMMA VerifyNext ==
    ASSUME TypeOK, ScriptTypeOK, VerifyInv, [ScriptNext]_<<vars, scriptVars>>
    PROVE  VerifyInv'
<1>1. CASE script # "verify_rebalancing"
  BY <1>1, ScriptStays DEF VerifyInv, scriptVars
<1>2. CASE UNCHANGED <<vars, scriptVars>> /\ script = "verify_rebalancing"
  <2>1. /\ UNCHANGED <<nodes, last_heartbeat, store, op, work, expected>>
        /\ UNCHANGED <<script, subject, line, to_put, after>>
    BY <1>2 DEF vars, scriptVars
  <2>2. Alive' = Alive /\ Replied(main)' = Replied(main) /\ KeyOwnership' = KeyOwnership
    BY <2>1 DEF Alive, Replied, KeyOwnership
  <2>3. /\ \A k : Acked(k)' <=> Acked(k)
        /\ \A M, k : PutDone(M, k)' <=> PutDone(M, k)
        /\ \A k : PutUnderWay(k)' <=> PutUnderWay(k)
        /\ \A k : Held(nodes, k)' <=> Held(nodes, k)
        /\ \A job : Moving(job)' <=> Moving(job)
    BY <2>1, <2>2, StoresFrame DEF Acked, PutDone, PutUnderWay
  <2>4. (Filling => Filling') /\ (Queued => Queued') /\ (Shifting => Shifting')
        /\ (Rebalanced => Rebalanced')
    BY <2>1, <2>2, <2>3 DEF Filling, Queued, Shifting, Rebalanced
  <2>5. Leaving' <=> Leaving
    BY <1>2 DEF Leaving, vars
  <2> QED
    BY <1>2, <2>1, <2>4, <2>5 DEF VerifyInv
<1>3. CASE ScriptNext /\ script = "verify_rebalancing"
  <2> ~Leaving /\ ~Leaving'
    BY <1>3, NoneLeaves DEF VerifyInv
  <2> SUFFICES Filling' \/ Queued' \/ Shifting' \/ Rebalanced'
    BY DEF VerifyInv
  <2>1. CASE Filling
    <3>1. CASE ReportBefore
      <4>1. UNCHANGED <<nodes, last_heartbeat, store, op, work, expected, subject, to_put>>
            /\ line' = "change" /\ Replied(main)
        BY <3>1 DEF ReportBefore, Reached, vars
      <4>2. Alive' = Alive /\ Replied(main)'
        BY <4>1 DEF Alive, Replied
      <4>3. /\ \A k : Acked(k)' <=> Acked(k)
            /\ \A M, k : PutDone(M, k)' <=> PutDone(M, k)
            /\ \A k : PutUnderWay(k)' <=> PutUnderWay(k)
        BY <4>1, <4>2 DEF Acked, PutDone, PutUnderWay
      <4> QED
        BY <2>1, <4>1, <4>2, <4>3 DEF Filling
    <3>2. line \in {"load", "change"}
      BY <2>1 DEF Filling
    <3> QED
      BY <1>3, <2>1, <3>1, <3>2, VerifySteps, FillingPut, FillingCall, FillingBackground,
         JoinQueues
  <2>2. CASE Queued \/ Shifting
    <3>1. line = "wait" /\ Replied(main)
      BY <2>2 DEF Queued, Shifting
    <3>2. ~WaitForRebalance
      BY <2>2, RebalanceOnLoop DEF WaitForRebalance
    <3>3. Background /\ UNCHANGED scriptVars
      BY <1>3, <3>1, <3>2, VerifySteps
    <3> QED
      BY <2>2, <3>3, QueuedAlone, QueuedNext, ShiftingNext
  <2>3. CASE Rebalanced
    <3>1. ~Background /\ Replied(main) /\ line \in {"wait", "report", "done"}
      BY <2>3 DEF Rebalanced, Background
    <3>2. CASE line = "wait" /\ WaitForRebalance
      BY <2>3, <3>2, RebalancedStays DEF WaitForRebalance
    <3>3. CASE line = "report" /\ ReportAfter
      BY <2>3, <3>3, RebalancedStays DEF ReportAfter
    <3> QED
      BY <1>3, <3>1, <3>2, <3>3, VerifySteps
  <2> QED
    BY <1>3, <2>1, <2>2, <2>3 DEF VerifyInv
<1> QED
  BY <1>1, <1>2, <1>3

\* At the start the keys are still to be put.
LEMMA VerifyInit ==
    ASSUME ScriptInit
    PROVE  VerifyInv
<1> SUFFICES ASSUME script = "verify_rebalancing" PROVE Filling
  BY DEF VerifyInv, ScriptInit, Leaving
<1>1. line = "load" /\ Replied(main) /\ work = <<>> /\ to_put = Key
  BY ScriptConstants DEF ScriptInit, Replied, Idle
<1>2. Alive = nodes /\ subject \in Node \ nodes /\ nodes \in SUBSET Node
  BY ServiceAssumption DEF ScriptInit, Alive
<1>3. \A k \in Key : \A n \in nodes : store[n][k] = Absent
  BY <1>2 DEF ScriptInit, Empty
<1> QED
  BY <1>1, <1>2, <1>3 DEF Filling

\* What verify_rebalancing.py reports after the join is where the data is: the primary and
\* the replica it prints hold each key, no other node does, although it waits for the
\* rebalance only: the replica writes of its puts are before it on the background loop.
THEOREM ReportedOwnersAlwaysHoldKeys == ScriptSpec => []ReportedOwnersHoldKeys
<1>1. TypeOK /\ VerifyInv => ReportedOwnersHoldKeys
  <2> SUFFICES ASSUME TypeOK, VerifyInv, script = "verify_rebalancing", line = "done",
                      NEW k \in Key, NEW n \in nodes
               PROVE  store[n][k] = IF n \in {after[k].primary, after[k].replica}
                                    THEN Data[k] ELSE Absent
    BY DEF ReportedOwnersHoldKeys, HeldBy
  <2>1. Rebalanced
    BY DEF VerifyInv, Filling, Queued, Shifting
  <2>2. after[k].primary = Primary(nodes, k) /\ after[k].replica = Replica(nodes, k)
    BY <2>1 DEF Rebalanced, KeyOwnership
  <2>3. n \in Owners(nodes, k) <=> n \in {Primary(nodes, k), Replica(nodes, k)}
    <3>1. nodes \in SUBSET Node /\ nodes # {} /\ NoNode \notin nodes
      BY <2>1, NoNodeAssumption DEF Rebalanced, TypeOK
    <3>2. Owners(nodes, k) = {Primary(nodes, k), Replica(nodes, k)} \ {NoNode}
      BY <3>1, Routes
    <3> QED
      BY <3>1, <3>2
  <2>4. Held(nodes, k) /\ expected[k] = {Data[k]}
    BY <2>1 DEF Rebalanced
  <2> QED
    BY <2>2, <2>3, <2>4 DEF Held, Has, Lacks
<1>2. ScriptInit => VerifyInv
  BY VerifyInit
<1>3. TypeOK /\ ScriptTypeOK /\ VerifyInv /\ [ScriptNext]_<<vars, scriptVars>> => VerifyInv'
  BY VerifyNext
<1> QED
  BY <1>1, <1>2, <1>3, ScriptKeeps, PTL DEF ScriptSpec

=============================================================================
