-------------------------------- MODULE Scripts --------------------------------
(***************************************************************************)
(* The demonstrations of src/scripts that run a cluster in their process:  *)
(* verify_rebalancing.py, verify_node_removal.py and                       *)
(* failover_mapping_explained.py.  Each main() is a coroutine, the only    *)
(* client of a ClusterService with the in-process transport; the           *)
(* background loop of the service runs beside it on its own thread, which  *)
(* is a daemon: it ends with the process, once main() has returned.        *)
(*                                                                         *)
(* Init picks the script, and the place on the ring of the node that it    *)
(* adds or removes.  The scripts end well within the heartbeat timeout:    *)
(* no heartbeat grows old but the one failover_mapping_explained.py sets.  *)
(***************************************************************************)
EXTENDS ClusterService

CONSTANTS
    main,      \* the client that the script is
    Data,      \* key -> the value the script puts first
    NewData    \* the value failover_mapping_explained.py puts during the failover

ASSUME ScriptAssumption ==
    /\ main \in Client
    /\ Data \in [Key -> Value]
    /\ NewData \in Value
    /\ ~Http

Script == {"verify_rebalancing", "verify_node_removal", "failover_mapping"}

VARIABLES
    script,   \* the script that runs
    subject,  \* the node it adds or removes
    line,     \* how far its main() is
    to_put,   \* the keys it has still to put
    before,   \* ownership_before; in failover_mapping, the routing of the key
    after     \* ownership_after

scriptVars == <<script, subject, line, to_put, before, after>>

\* print_key_ownership: the primary and the replica of every key.
KeyOwnership == [k \in Key |-> [primary |-> Primary(nodes, k), replica |-> Replica(nodes, k)]]

NoReport == [k \in Key |-> [primary |-> NoNode, replica |-> NoNode]]

\* failover_mapping_explained.py has one key.
TheKey == CHOOSE k \in Key : TRUE

ScriptInit ==
    /\ script \in Script
    /\ subject \in InitialNodes
    /\ line = "load"
    /\ to_put = IF script = "failover_mapping" THEN {TheKey} ELSE Key
    /\ before = NoReport
    /\ after = NoReport
    /\ nodes = IF script = "verify_rebalancing" THEN InitialNodes \ {subject} ELSE InitialNodes
    /\ listed = nodes
    /\ last_heartbeat = [n \in Node |-> IF n \in nodes THEN "fresh" ELSE "none"]
    /\ store = [n \in Node |-> Empty]
    /\ up = Node
    /\ op = [c \in Client |-> Idle]
    /\ work = <<>>
    /\ pings = {}
    /\ budget = Budget
    /\ written = [k \in Key |-> {}]
    /\ expected = [k \in Key |-> {Absent}]

-----------------------------------------------------------------------------
\* The script is at line l and the call it awaits there has returned.
Reached(s, l) == script = s /\ line = l /\ Replied(main) /\ ~Leaving

Verifying == script \in {"verify_rebalancing", "verify_node_removal"}

\* The test data goes in, one awaited put after the other.
PutNext ==
    \E k \in to_put :
        /\ line = "load" /\ Verifying
        /\ BeginPut(main, k, Data[k])
        /\ to_put' = to_put \ {k}
        /\ UNCHANGED <<script, subject, line, before, after>>

\* Mutant of ReportBefore: the last put is still awaited.
ReportEarly ==
    /\ Verifying /\ Reached(script, "load")
    /\ Cardinality(to_put) < 2
    /\ before' = KeyOwnership
    /\ line' = "change"
    /\ UNCHANGED <<vars, script, subject, to_put, after>>

ReportBefore ==
    /\ Verifying /\ Reached(script, "load")
    /\ to_put = {}
    /\ before' = KeyOwnership
    /\ line' = "change"
    /\ UNCHANGED <<vars, script, subject, to_put, after>>

AddNewNode ==
    /\ Reached("verify_rebalancing", "change")
    /\ AddNode(subject)
    /\ line' = "wait"
    /\ UNCHANGED <<script, subject, to_put, before, after>>

\* Mutant of WaitForRebalance: the script does not wait, as verify_node_removal.py.
DoNotWait ==
    /\ Reached("verify_rebalancing", "wait")
    /\ line' = "report"
    /\ UNCHANGED <<vars, script, subject, to_put, before, after>>

\* await cluster.wait_for_rebalance(): neither replica writes nor the calls of a
\* rebalance that raised are waited for.
WaitForRebalance ==
    /\ Reached("verify_rebalancing", "wait")
    /\ \A i \in DOMAIN work : IsRebalance(work[i]) => work[i].step = "orphaned"
    /\ line' = "report"
    /\ UNCHANGED <<vars, script, subject, to_put, before, after>>

\* verify_node_removal.py does not wait for the rebalance.
RemoveOldNode ==
    /\ Reached("verify_node_removal", "change")
    /\ RemoveNode(subject)
    /\ line' = "report"
    /\ UNCHANGED <<script, subject, to_put, before, after>>

ReportAfter ==
    /\ Verifying /\ Reached(script, "report")
    /\ after' = KeyOwnership
    /\ line' = "done"
    /\ UNCHANGED <<vars, script, subject, to_put, before>>

-----------------------------------------------------------------------------
\* failover_mapping_explained.py.  A call is begun at one line and its result
\* used at the next; a result without the entry "served_by" ends the script.

Routed == before[TheKey]

Ask(l, next) ==
    /\ Reached("failover_mapping", l)
    /\ BeginGet(main, TheKey)
    /\ line' = next
    /\ UNCHANGED <<script, subject, to_put, before, after>>

Found == op[main].value # Absent

PutKey ==
    /\ Reached("failover_mapping", "load")
    /\ before' = KeyOwnership
    /\ BeginPut(main, TheKey, Data[TheKey])
    /\ to_put' = {}
    /\ line' = "written"
    /\ UNCHANGED <<script, subject, after>>

GetBefore == Ask("written", "read")

\* manager._last_heartbeat[primary] = 0.0
PrimaryFails ==
    /\ Reached("failover_mapping", "read") /\ Found
    /\ last_heartbeat' = [last_heartbeat EXCEPT ![Routed.primary] = "stale"]
    /\ line' = "failed"
    /\ UNCHANGED <<nodes, listed, store, up, op, work, pings, budget, ghosts>>
    /\ UNCHANGED <<script, subject, to_put, before, after>>

GetFromReplica == Ask("failed", "failed_over")

\* Mutant of PutDuringFailover: the script goes on when the replica had nothing.
PutRegardless ==
    /\ Reached("failover_mapping", "failed_over")
    /\ BeginPut(main, TheKey, NewData)
    /\ line' = "rewritten"
    /\ UNCHANGED <<script, subject, to_put, before, after>>

PutDuringFailover ==
    /\ Reached("failover_mapping", "failed_over") /\ Found
    /\ BeginPut(main, TheKey, NewData)
    /\ line' = "rewritten"
    /\ UNCHANGED <<script, subject, to_put, before, after>>

\* Mutant of PrimaryRecovers: the heartbeat is not recorded.
StaysFailed ==
    /\ Reached("failover_mapping", "rewritten")
    /\ line' = "recovered"
    /\ UNCHANGED <<vars, script, subject, to_put, before, after>>

\* The primary is given the heartbeat of the replica.
PrimaryRecovers ==
    /\ Reached("failover_mapping", "rewritten")
    /\ last_heartbeat' = [last_heartbeat EXCEPT ![Routed.primary] = last_heartbeat[Routed.replica]]
    /\ line' = "recovered"
    /\ UNCHANGED <<nodes, listed, store, up, op, work, pings, budget, ghosts>>
    /\ UNCHANGED <<script, subject, to_put, before, after>>

GetAfterRecovery == Ask("recovered", "reread")

Finish ==
    /\ Reached("failover_mapping", "reread") /\ Found
    /\ line' = "done"
    /\ UNCHANGED <<vars, script, subject, to_put, before, after>>

\* get_result["served_by"] of a call that answered 404.
KeyError ==
    /\ \E l \in {"read", "failed_over", "reread"} : Reached("failover_mapping", l)
    /\ ~Found
    /\ line' = "error"
    /\ UNCHANGED <<vars, script, subject, to_put, before, after>>

-----------------------------------------------------------------------------
Main ==
    \/ PutNext \/ ReportBefore \/ AddNewNode \/ WaitForRebalance \/ RemoveOldNode \/ ReportAfter
    \/ PutKey \/ GetBefore \/ PrimaryFails \/ GetFromReplica \/ PutDuringFailover
    \/ PrimaryRecovers \/ GetAfterRecovery \/ Finish \/ KeyError

ScriptNext ==
    \/ Main
    \/ Call(main) /\ UNCHANGED scriptVars
    \/ SortKeys /\ UNCHANGED scriptVars
    \/ Background /\ UNCHANGED scriptVars

Running == line \notin {"done", "error"}

\* The script runs to its end, and the background loop as long as the script does:
\* after that it may stop anywhere.
ScriptSpec ==
    /\ ScriptInit
    /\ [][ScriptNext]_<<vars, scriptVars>>
    /\ WF_<<vars, scriptVars>>(Main)
    /\ WF_<<vars, scriptVars>>(Call(main) /\ UNCHANGED scriptVars)
    /\ WF_<<vars, scriptVars>>(SortKeys /\ UNCHANGED scriptVars)
    /\ WF_<<vars, scriptVars>>(Running /\ Background /\ UNCHANGED scriptVars)

-----------------------------------------------------------------------------
(***************************************************************************)
(* Properties                                                              *)
(***************************************************************************)

Line == {"load", "change", "wait", "report", "done", "written", "read", "failed",
         "failed_over", "rewritten", "recovered", "reread", "error"}

Report == [Key -> [primary : Node \cup {NoNode}, replica : Node \cup {NoNode}]]

\* Type invariant of the script's own variables; a report comes after all puts.
ScriptTypeOK ==
    /\ script \in Script /\ subject \in InitialNodes /\ line \in Line
    /\ to_put \subseteq Key
    /\ before \in Report /\ after \in Report
    /\ line # "load" => to_put = {}

HeldBy(owners, k) == \A n \in nodes : store[n][k] = IF n \in owners THEN Data[k] ELSE Absent

\* What verify_rebalancing.py reports after the join is where the data is: the
\* primary and the replica it prints hold each key, no other node does, although
\* it waits for the rebalance only and not for the replica writes of its puts.
ReportedOwnersHoldKeys ==
    script = "verify_rebalancing" /\ line = "done" =>
        \A k \in Key : HeldBy({after[k].primary, after[k].replica}, k)

\* Once failover_mapping_explained.py has read the key from the replica, what it then
\* puts there stays: the replica write of its first put can no longer come after
\* it (the read would have found nothing, and ended the script).
FailoverWriteKept ==
    (script = "failover_mapping" /\ Replied(main)
        /\ line \in {"rewritten", "recovered", "reread", "done"}) =>
            store[Routed.replica][TheKey] = NewData

\* The script's note on recovery: the primary serves again, with its old data, and the
\* acknowledged write of the failover is left on the replica, behind it.
RecoveredServesOldData ==
    script = "failover_mapping" /\ line = "done" =>
        /\ op[main].value = Data[TheKey]
        /\ store[Routed.replica][TheKey] # op[main].value

RepairsRemoval == script = "verify_node_removal" /\ line \in {"report", "done"}

\* Once everything that verify_node_removal.py set going has run, every key is with
\* its owners and nowhere else: the removal catches up with the replica writes
\* that were still queued when the node went, and a key that lost one of its
\* copies with it has two again.
RemovalRepairsKeys ==
    RepairsRemoval /\ Quiet => \A k \in Key : HeldBy(Owners(nodes, k), k)

\* verify_node_removal.py says at its end that the keys of the removed node "have
\* been repaired".
RepairedWhenReported ==
    RepairsRemoval /\ line = "done" => \A k \in Key : HeldBy(Owners(nodes, k), k)

\* Every script ends: wait_for_rebalance returns and every call does.
ScriptEnds == <>(line \in {"done", "error"})

=============================================================================
