------------------------------- MODULE Heartbeat -------------------------------
(***************************************************************************)
(* The heartbeat loop of api/app.py against the clock: who is presumed     *)
(* dead, and when.  The loop asks the nodes one after the other, waits for *)
(* each answer, at most for the timeout of HttpNodeTransport, and sleeps.  *)
(* The manager counts a node as alive while its last heartbeat is at most  *)
(* heartbeat_timeout_seconds old.                                          *)
(*                                                                         *)
(* Time advances in ticks.  Only ages matter, so there is no clock: Tick   *)
(* makes every heartbeat, and what the loop waits for, one tick older.     *)
(* The membership is fixed, as it is behind the API (entrypoint.py).       *)
(* httpx applies its timeout to each phase of a request (connect, send,    *)
(* receive); RequestTimeout bounds the whole request.                      *)
(***************************************************************************)
EXTENDS Integers, Sequences, FiniteSets

CONSTANTS
    Node,              \* the nodes
    Members,           \* get_all_nodes(): the nodes in the order of the dict
    HeartbeatTimeout,  \* heartbeat_timeout_seconds (3.0)
    RequestTimeout,    \* the timeout of HttpNodeTransport (2.0)
    SleepTime,         \* the pause between two rounds (1.0)
    Latency,           \* how long the answer of a node that runs may take
    MaxAge             \* bound of the model: older heartbeats are not told apart

N == Len(Members)

ASSUME MembersAssumption ==
    /\ Members \in Seq(Node) /\ N > 0
    /\ \A i, j \in 1 .. N : i # j => Members[i] # Members[j]
    /\ \A n \in Node : \E i \in 1 .. N : Members[i] = n

ASSUME TimeAssumption ==
    /\ {HeartbeatTimeout, RequestTimeout, SleepTime, Latency, MaxAge} \subseteq Nat
    /\ Latency < RequestTimeout
    /\ HeartbeatTimeout < MaxAge

VARIABLES
    health,    \* node -> "running", "hung" (accepts, does not answer) or "down" (refuses)
    age,       \* node -> the age of its entry in _last_heartbeat
    step,      \* the loop: "ask" or "sleep"
    at,        \* the place in Members of the node it asks
    waited,    \* for how long it has waited for the answer, or slept
    serving,   \* the nodes with a put or get of the service under way
    steady,    \* ghost: the nodes that run, and have answered the loop since they do
    slow       \* ghost: node -> slow requests of the loop since its last answer

vars == <<health, age, step, at, waited, serving, steady, slow>>

loop   == <<step, at, waited>>
ghosts == <<steady, slow>>

\* is_alive
Alive(n) == age[n] <= HeartbeatTimeout

\* The manager is built at startup, and lifespan starts the loop: there are nodes.
Init ==
    /\ health \in [Node -> {"running", "hung", "down"}]
    /\ age = [n \in Node |-> 0]
    /\ step = "ask" /\ at = 1 /\ waited = 0
    /\ serving = {}
    /\ steady = {}
    /\ slow = [n \in Node |-> 0]

-----------------------------------------------------------------------------
(***************************************************************************)
(* heartbeat_loop                                                          *)
(***************************************************************************)

Asked == Members[at]

\* Mutant of Advance: one timeout for the whole round.
AdvanceOnOneTimeout ==
    /\ UNCHANGED waited
    /\ IF at < N THEN at' = at + 1 /\ UNCHANGED step
                 ELSE at' = 1 /\ step' = "sleep"

\* On to the next node of the round, or to sleep after the last.
Advance ==
    /\ waited' = 0
    /\ IF at < N THEN at' = at + 1 /\ UNCHANGED step
                 ELSE at' = 1 /\ step' = "sleep"

\* Requests that take longer than Latency hold up the round for everyone.
\* (Bounded by N: more of them are not told apart.)
Slowed == IF waited <= Latency THEN slow
          ELSE [n \in Node |-> IF slow[n] < N THEN slow[n] + 1 ELSE N]

\* Mutant of Answer: the answer is not recorded.
AnswerUnrecorded ==
    /\ step = "ask" /\ health[Asked] = "running"
    /\ steady' = steady \cup {Asked}
    /\ slow' = [Slowed EXCEPT ![Asked] = 0]
    /\ Advance
    /\ UNCHANGED <<health, age, serving>>

Answer ==
    /\ step = "ask" /\ health[Asked] = "running"
    /\ age' = [age EXCEPT ![Asked] = 0]
    /\ steady' = steady \cup {Asked}
    /\ slow' = [Slowed EXCEPT ![Asked] = 0]
    /\ Advance
    /\ UNCHANGED <<health, serving>>

\* Mutant of Fails: a node that cannot be reached is asked again, without a pause.
AskAgain ==
    /\ step = "ask"
    /\ health[Asked] = "down" \/ waited = RequestTimeout
    /\ waited' = 0
    /\ slow' = Slowed
    /\ UNCHANGED <<health, age, step, at, serving, steady>>

\* The request is refused, or times out: except Exception: continue.
Fails ==
    /\ step = "ask"
    /\ health[Asked] = "down" \/ waited = RequestTimeout
    /\ slow' = Slowed
    /\ Advance
    /\ UNCHANGED <<health, age, serving, steady>>

\* asyncio.sleep(1.0) ends; the next round begins with the first node.
Wake ==
    /\ step = "sleep" /\ waited = SleepTime
    /\ step' = "ask" /\ at' = 1 /\ waited' = 0
    /\ UNCHANGED <<health, age, serving, ghosts>>

Loop == Answer \/ Fails \/ Wake

-----------------------------------------------------------------------------
(***************************************************************************)
(* The other users of record_heartbeat: put and get of the service, which  *)
(* are sent to nodes that count as alive only, and the heartbeat endpoint. *)
(***************************************************************************)

Serve(n) ==
    /\ Alive(n)
    /\ serving' = serving \cup {n}
    /\ UNCHANGED <<health, age, loop, ghosts>>

Served(n) ==
    /\ n \in serving
    /\ serving' = serving \ {n}
    /\ \/ health[n] = "running" /\ age' = [age EXCEPT ![n] = 0]
       \/ UNCHANGED age
    /\ UNCHANGED <<health, loop, ghosts>>

\* Mutant of HeartbeatEndpoint: the node is not asked.
HeartbeatUnasked(n) ==
    /\ age' = [age EXCEPT ![n] = 0]
    /\ UNCHANGED <<health, loop, serving, ghosts>>

\* POST /internal/heartbeat/{node_id}
HeartbeatEndpoint(n) ==
    /\ health[n] = "running"
    /\ age' = [age EXCEPT ![n] = 0]
    /\ UNCHANGED <<health, loop, serving, ghosts>>

-----------------------------------------------------------------------------
(***************************************************************************)
(* Nodes and time                                                          *)
(***************************************************************************)

Change(n) ==
    /\ \E h \in {"running", "hung", "down"} \ {health[n]} : health' = [health EXCEPT ![n] = h]
    /\ steady' = steady \ {n}
    /\ UNCHANGED <<age, loop, serving, slow>>

Older(a) == IF a < MaxAge THEN a + 1 ELSE MaxAge

\* A tick passes unless something is due: the answer of a node that runs, the
\* refusal of one that is down, the end of a timeout or of the pause.
Tick ==
    /\ step = "ask" => /\ waited < RequestTimeout
                       /\ health[Asked] = "running" => waited < Latency
                       /\ health[Asked] # "down"
    /\ step = "sleep" => waited < SleepTime
    /\ age' = [n \in Node |-> Older(age[n])]
    /\ waited' = waited + 1
    /\ UNCHANGED <<health, step, at, serving, ghosts>>

Next ==
    \/ Loop
    \/ Tick
    \/ \E n \in Node : Serve(n) \/ Served(n) \/ HeartbeatEndpoint(n) \/ Change(n)

Spec == Init /\ [][Next]_vars

\* The event loop of the gateway runs, and time passes.
FairSpec == Spec /\ WF_vars(Loop) /\ SF_vars(Tick)

-----------------------------------------------------------------------------
(***************************************************************************)
(* Properties                                                              *)
(***************************************************************************)

\* Type invariant.
TypeOK ==
    /\ health \in [Node -> {"running", "hung", "down"}]
    /\ age \in [Node -> 0 .. MaxAge]
    /\ step \in {"ask", "sleep"}
    /\ at \in 1 .. N
    /\ waited \in 0 .. (IF step = "ask" THEN RequestTimeout ELSE SleepTime)
    /\ serving \in SUBSET Node
    /\ steady \in SUBSET Node
    /\ slow \in [Node -> 0 .. N]

\* The heartbeat of a node that runs gets no older than one round in which all
\* the other nodes hang: the loop asks each node once per round, and a request
\* costs no more than its timeout.  (With heartbeat_timeout_seconds above
\* this sum, a node that runs would never be presumed dead.)
WorstRound == SleepTime + (N - 1) * RequestTimeout + Latency

SteadyAgesBounded == \A n \in steady : age[n] <= WorstRound

\* A node that runs and has answered is presumed dead only while, or after, the loop
\* has been held up by a node that did not answer in time since: with three
\* nodes and the timeouts of entrypoint.py, one hung node is enough, none is not.
PresumedDeadOnlyIfSlowed ==
    SleepTime + N * Latency <= HeartbeatTimeout =>
        \A n \in steady : ~Alive(n) => slow[n] > 0 \/ (step = "ask" /\ waited > Latency)

\* A node that hangs or is down for good is presumed dead for good in the end:
\* no request still under way brings it back.
FailuresDetected ==
    \A n \in Node : <>[](health[n] # "running") => <>[]~Alive(n)

\* A node that runs for good counts as alive again and again, whatever the
\* others do, and for good if in the end no node hangs.
RunningNodesServe ==
    \A n \in Node : <>[](health[n] = "running") =>
        /\ []<>Alive(n)
        /\ <>[](\A m \in Node : health[m] # "hung") /\ SleepTime + N * Latency <= HeartbeatTimeout
              => <>[]Alive(n)

=============================================================================
