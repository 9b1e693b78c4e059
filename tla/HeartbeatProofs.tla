---------------------------- MODULE HeartbeatProofs ----------------------------
(***************************************************************************)
(* For any number of nodes and any timeouts: how old the heartbeat of a    *)
(* node gets that runs and has answered.  Between two of its answers the   *)
(* loop completes one request for every other node, and one pause.  The    *)
(* inductive invariant counts them from the place where the loop is: so    *)
(* many requests, each no longer than the timeout (than Latency, as long   *)
(* as none was slow), the pause if the loop has made it, and what it waits *)
(* for now.                                                                *)
(***************************************************************************)
EXTENDS Heartbeat, TLAPS

\* How many requests the loop has completed since that of the node at place p,
\* and how long it has slept.
Done(p) == CASE step = "sleep"           -> N - p
             [] step = "ask" /\ at > p   -> at - p - 1
             [] step = "ask" /\ at <= p  -> N - p + at - 1

Slept(p) == IF step = "ask" /\ at <= p THEN SleepTime ELSE 0

\* The age of its heartbeat if no request took longer than b.
AgeWithin(b, p) == age[Members[p]] <= Done(p) * b + Slept(p) + waited

SteadyRun == \A n \in steady : health[n] = "running"

\* The loop has been waiting for a steady node only as long as it may take.
SteadyAnswer == step = "ask" /\ Asked \in steady => waited <= Latency

AgesCounted ==
    \A p \in 1 .. N : Members[p] \in steady =>
        /\ AgeWithin(RequestTimeout, p)
        /\ slow[Members[p]] = 0 => AgeWithin(Latency, p)

\* The inductive invariant.
AgeInv == TypeOK /\ SteadyRun /\ SteadyAnswer /\ AgesCounted

-----------------------------------------------------------------------------
\* The types of the constants.
LEMMA Constants ==
    /\ N \in Nat \ {0}
    /\ \A i \in 1 .. N : Members[i] \in Node
    /\ HeartbeatTimeout \in Nat /\ RequestTimeout \in Nat /\ SleepTime \in Nat
    /\ Latency \in Nat /\ MaxAge \in Nat /\ Latency < RequestTimeout
BY MembersAssumption, TimeAssumption DEF N

\* The loop is somewhere, and its counts are numbers.
LEMMA Counts ==
    ASSUME TypeOK, NEW p \in 1 .. N
    PROVE  Done(p) \in Nat /\ Done(p) <= N - 1 /\ Slept(p) \in Nat
<1>1. at \in 1 .. N /\ step \in {"ask", "sleep"} /\ N \in Nat \ {0} /\ SleepTime \in Nat
  BY Constants DEF TypeOK
<1>2. Slept(p) \in Nat
  BY <1>1 DEF Slept
<1>3. CASE step = "sleep"
  BY <1>1, <1>2, <1>3 DEF Done
<1>4. CASE step = "ask" /\ at > p
  BY <1>1, <1>2, <1>4 DEF Done
<1>5. CASE step = "ask" /\ at <= p
  BY <1>1, <1>2, <1>5 DEF Done
<1> QED
  BY <1>1, <1>3, <1>4, <1>5

\* Products of numbers.
LEMMA Times ==
    ASSUME NEW x \in Nat, NEW b \in Nat
    PROVE  x * b \in Nat /\ (x + 1) * b = x * b + b
OBVIOUS

\* A product grows with its factor.
LEMMA TimesMonotone ==
    ASSUME NEW x \in Nat, NEW y \in Nat, NEW b \in Nat, x <= y
    PROVE  x * b <= y * b
<1>1. PICK d \in Nat : y = x + d
  <2>1. y - x \in Nat /\ y = x + (y - x)
    OBVIOUS
  <2> QED
    BY <2>1
<1>2. (x + d) * b = x * b + d * b
  OBVIOUS
<1>3. x * b \in Nat /\ d * b \in Nat
  BY Times
<1> QED
  BY <1>1, <1>2, <1>3

-----------------------------------------------------------------------------
\* When the loop goes on to the next node, one more request is completed for
\* all nodes but the one it has asked.
LEMMA AdvanceCounts ==
    ASSUME TypeOK, TypeOK', step = "ask", Advance, NEW p \in 1 .. N, p # at
    PROVE  Done(p)' = Done(p) + 1 /\ Slept(p)' = Slept(p)
<1>1. at \in 1 .. N /\ N \in Nat \ {0}
  BY Constants DEF TypeOK
<1>2. CASE at < N
  <2>1. step' = "ask" /\ at' = at + 1
    BY <1>2 DEF Advance
  <2>2. CASE at > p
    BY <1>1, <2>1, <2>2 DEF Done, Slept
  <2>3. CASE at < p
    BY <1>1, <2>1, <2>3 DEF Done, Slept
  <2> QED
    BY <1>1, <2>2, <2>3
<1>3. CASE at = N
  <2>1. step' = "sleep" /\ at > p
    BY <1>1, <1>3 DEF Advance
  <2> QED
    BY <1>1, <1>3, <2>1 DEF Done, Slept
<1> QED
  BY <1>1, <1>2, <1>3

\* So a heartbeat that is within the bound stays so, if the request took no longer.
LEMMA AdvanceWithin ==
    ASSUME TypeOK, TypeOK', step = "ask", Advance, NEW p \in 1 .. N, p # at,
           age'[Members[p]] = age[Members[p]],
           NEW b \in Nat, waited <= b, AgeWithin(b, p)
    PROVE  AgeWithin(b, p)'
<1>1. Done(p)' = Done(p) + 1 /\ Slept(p)' = Slept(p)
  BY AdvanceCounts
<1>2. Done(p) \in Nat /\ Slept(p) \in Nat
  BY Counts
<1>3. Done(p) * b \in Nat /\ (Done(p) + 1) * b = Done(p) * b + b
  BY <1>2, Times
<1>4. waited' = 0 /\ waited \in Nat /\ age[Members[p]] \in Nat
  BY Constants DEF Advance, TypeOK
<1>5. age[Members[p]] <= Done(p) * b + Slept(p) + waited
  BY DEF AgeWithin
<1>6. age[Members[p]] <= (Done(p) + 1) * b + Slept(p) + 0
  BY <1>2, <1>3, <1>4, <1>5
<1> QED
  BY <1>1, <1>4, <1>6 DEF AgeWithin

\* A heartbeat just received is within every bound.
LEMMA FreshWithin ==
    ASSUME TypeOK', NEW p \in 1 .. N, age'[Members[p]] = 0, NEW b \in Nat
    PROVE  AgeWithin(b, p)'
<1>1. Done(p)' \in Nat /\ Slept(p)' \in Nat
  <2>1. at' \in 1 .. N /\ step' \in {"ask", "sleep"} /\ N \in Nat \ {0} /\ SleepTime \in Nat
    BY Constants DEF TypeOK
  <2> QED
    BY <2>1 DEF Done, Slept
<1>2. Done(p)' * b \in Nat
  BY <1>1, Times
<1>3. waited' \in Nat
  BY Constants DEF TypeOK
<1> QED
  BY <1>1, <1>2, <1>3 DEF AgeWithin

\* What does not touch the loop changes no count.
LEMMA LoopKept ==
    ASSUME UNCHANGED loop, NEW p \in 1 .. N
    PROVE  Done(p)' = Done(p) /\ Slept(p)' = Slept(p) /\ waited' = waited
BY DEF loop, Done, Slept

-----------------------------------------------------------------------------
\* The type invariant, one action at a time.
LEMMA TypeInit == Init => TypeOK
BY Constants DEF Init, TypeOK

\* Every step keeps the types.
LEMMA TypeNext == TypeOK /\ [Next]_vars => TypeOK'
<1> SUFFICES ASSUME TypeOK, [Next]_vars PROVE TypeOK'
  OBVIOUS
<1> USE Constants
<1>1. Asked \in Node
  BY DEF TypeOK, Asked
<1>2. ASSUME step = "ask" PROVE Slowed \in [Node -> 0 .. N]
  BY DEF Slowed, TypeOK
<1>3. ASSUME step = "ask", Advance
      PROVE  at' \in 1 .. N /\ step' \in {"ask", "sleep"}
             /\ waited' \in 0 .. (IF step' = "ask" THEN RequestTimeout ELSE SleepTime)
  BY <1>3 DEF Advance, TypeOK
<1>4. CASE Answer
  BY <1>1, <1>2, <1>3, <1>4 DEF Answer, TypeOK
<1>5. CASE Fails
  BY <1>2, <1>3, <1>5 DEF Fails, TypeOK
<1>6. CASE Wake
  BY <1>6 DEF Wake, ghosts, TypeOK
<1>7. CASE Tick
  <2>1. \A n \in Node : Older(age[n]) \in 0 .. MaxAge
    BY DEF Older, TypeOK
  <2>2. waited' \in 0 .. (IF step' = "ask" THEN RequestTimeout ELSE SleepTime)
    BY <1>7 DEF Tick, TypeOK
  <2> QED
    BY <1>7, <2>1, <2>2 DEF Tick, ghosts, TypeOK
<1>8. ASSUME NEW n \in Node, Serve(n) PROVE TypeOK'
  BY <1>8 DEF Serve, loop, ghosts, TypeOK
<1>9. ASSUME NEW n \in Node, Served(n) PROVE TypeOK'
  BY <1>9 DEF Served, loop, ghosts, TypeOK
<1>10. ASSUME NEW n \in Node, HeartbeatEndpoint(n) PROVE TypeOK'
  BY <1>10 DEF HeartbeatEndpoint, loop, ghosts, TypeOK
<1>11. ASSUME NEW n \in Node, Change(n) PROVE TypeOK'
  BY <1>11 DEF Change, loop, TypeOK
<1>12. CASE UNCHANGED vars
  BY <1>12 DEF vars, TypeOK
<1> QED
  BY <1>4, <1>5, <1>6, <1>7, <1>8, <1>9, <1>10, <1>11, <1>12 DEF Next, Loop

\* The state of the loop keeps its type: places, waits and ages stay in their ranges.
THEOREM TypeCorrect == Spec => []TypeOK
BY TypeInit, TypeNext, PTL DEF Spec

-----------------------------------------------------------------------------
\* At the start nobody has answered yet.
LEMMA AgeInvInit == Init => AgeInv
BY TypeInit DEF Init, AgeInv, SteadyRun, SteadyAnswer, AgesCounted

\* Members are listed once.
LEMMA PlacesDiffer ==
    ASSUME NEW p \in 1 .. N, NEW q \in 1 .. N, p # q
    PROVE  Members[p] # Members[q]
BY MembersAssumption DEF N

\* An answer: the node's own heartbeat is new, those of the others are one
\* request older.
LEMMA AgeInvAnswer ==
    ASSUME AgeInv, TypeOK', Answer
    PROVE  SteadyRun' /\ SteadyAnswer' /\ AgesCounted'
<1> USE Constants
<1>1. /\ TypeOK /\ step = "ask" /\ at \in 1 .. N /\ Advance /\ Asked \in Node
      /\ waited \in Nat /\ waited <= RequestTimeout
  BY DEF Answer, AgeInv, TypeOK, Asked
<1>2. age' = [age EXCEPT ![Asked] = 0] /\ age \in [Node -> 0 .. MaxAge]
  BY <1>1 DEF Answer, TypeOK
<1>3. slow' = [Slowed EXCEPT ![Asked] = 0]
  BY DEF Answer
<1>4. SteadyRun'
  BY DEF AgeInv, SteadyRun, Answer
<1>5. SteadyAnswer'
  BY <1>1 DEF Advance, SteadyAnswer
<1>6. ASSUME NEW p \in 1 .. N, Members[p] \in steady'
      PROVE  /\ AgeWithin(RequestTimeout, p)'
             /\ slow'[Members[p]] = 0 => AgeWithin(Latency, p)'
  <2>1. CASE p = at
    <3>1. age'[Members[p]] = 0
      BY <1>1, <1>2, <2>1 DEF Asked
    <3> QED
      BY <3>1, FreshWithin
  <2>2. CASE p # at
    <3>1. Members[p] # Asked /\ Members[p] \in steady /\ Members[p] \in Node
      BY <1>1, <1>6, <2>2, PlacesDiffer DEF Asked, Answer
    <3>2. age'[Members[p]] = age[Members[p]]
      BY <1>2, <3>1
    <3>3. AgeWithin(RequestTimeout, p)
      BY <3>1 DEF AgeInv, AgesCounted
    <3>4. AgeWithin(RequestTimeout, p)'
      BY <1>1, <2>2, <3>2, <3>3, AdvanceWithin
    <3>5. ASSUME slow'[Members[p]] = 0 PROVE AgeWithin(Latency, p)'
      <4>1. Slowed[Members[p]] = 0
        BY <1>3, <3>1, <3>5 DEF Slowed, AgeInv, TypeOK
      <4>2. waited <= Latency /\ slow[Members[p]] = 0
        BY <1>1, <3>1, <4>1 DEF Slowed, TypeOK
      <4>3. AgeWithin(Latency, p)
        BY <3>1, <4>2 DEF AgeInv, AgesCounted
      <4> QED
        BY <1>1, <2>2, <3>2, <4>2, <4>3, AdvanceWithin
    <3> QED
      BY <3>4, <3>5
  <2> QED
    BY <2>1, <2>2
<1> QED
  BY <1>4, <1>5, <1>6 DEF AgesCounted

\* A failed request: the node asked was not a steady one.
LEMMA AgeInvFails ==
    ASSUME AgeInv, TypeOK', Fails
    PROVE  SteadyRun' /\ SteadyAnswer' /\ AgesCounted'
<1> USE Constants
<1>1. /\ TypeOK /\ step = "ask" /\ at \in 1 .. N /\ Advance
      /\ waited \in Nat /\ waited <= RequestTimeout
  BY DEF Fails, AgeInv, TypeOK
<1>2. Asked \notin steady
  BY <1>1 DEF Fails, AgeInv, SteadyRun, SteadyAnswer
<1>3. age' = age /\ steady' = steady /\ slow' = Slowed /\ health' = health
  BY DEF Fails
<1>4. SteadyRun'
  BY <1>3 DEF AgeInv, SteadyRun
<1>5. SteadyAnswer'
  BY <1>1 DEF Advance, SteadyAnswer
<1>6. ASSUME NEW p \in 1 .. N, Members[p] \in steady'
      PROVE  /\ AgeWithin(RequestTimeout, p)'
             /\ slow'[Members[p]] = 0 => AgeWithin(Latency, p)'
  <2>1. p # at /\ Members[p] \in steady /\ Members[p] \in Node
    BY <1>2, <1>3, <1>6 DEF Asked
  <2>2. AgeWithin(RequestTimeout, p)
    BY <2>1 DEF AgeInv, AgesCounted
  <2>3. AgeWithin(RequestTimeout, p)'
    BY <1>1, <1>3, <2>1, <2>2, AdvanceWithin
  <2>4. ASSUME slow'[Members[p]] = 0 PROVE AgeWithin(Latency, p)'
    <3>1. waited <= Latency /\ slow[Members[p]] = 0
      BY <1>1, <1>3, <2>1, <2>4 DEF Slowed, TypeOK
    <3>2. AgeWithin(Latency, p)
      BY <2>1, <3>1 DEF AgeInv, AgesCounted
    <3> QED
      BY <1>1, <1>3, <2>1, <3>1, <3>2, AdvanceWithin
  <2> QED
    BY <2>3, <2>4
<1> QED
  BY <1>4, <1>5, <1>6 DEF AgesCounted

\* The pause ends: from now on it counts as made.
LEMMA AgeInvWake ==
    ASSUME AgeInv, TypeOK', Wake
    PROVE  SteadyRun' /\ SteadyAnswer' /\ AgesCounted'
<1> USE Constants
<1>1. /\ TypeOK /\ step = "sleep" /\ waited = SleepTime
      /\ step' = "ask" /\ at' = 1 /\ waited' = 0
      /\ age' = age /\ steady' = steady /\ slow' = slow /\ health' = health
  BY DEF Wake, ghosts, AgeInv
<1>2. SteadyRun' /\ SteadyAnswer'
  BY <1>1 DEF AgeInv, SteadyRun, SteadyAnswer
<1>3. ASSUME NEW p \in 1 .. N, NEW b \in Nat, AgeWithin(b, p)
      PROVE  AgeWithin(b, p)'
  <2>1. Done(p)' = Done(p) /\ Slept(p) = 0 /\ Slept(p)' = SleepTime
    BY <1>1 DEF Done, Slept
  <2>2. Done(p) * b \in Nat
    BY <1>1, Counts, Times
  <2>3. age[Members[p]] <= Done(p) * b + SleepTime
    BY <1>1, <1>3, <2>1, <2>2 DEF AgeWithin
  <2> QED
    BY <1>1, <2>1, <2>2, <2>3 DEF AgeWithin
<1>4. AgesCounted'
  BY <1>1, <1>3 DEF AgeInv, AgesCounted
<1> QED
  BY <1>2, <1>4

\* A tick: the heartbeats and the wait grow older together.
LEMMA AgeInvTick ==
    ASSUME AgeInv, TypeOK', Tick
    PROVE  SteadyRun' /\ SteadyAnswer' /\ AgesCounted'
<1> USE Constants
<1>1. /\ TypeOK /\ step' = step /\ at' = at /\ waited' = waited + 1 /\ waited \in Nat
      /\ steady' = steady /\ slow' = slow /\ health' = health
      /\ age' = [n \in Node |-> Older(age[n])]
  BY DEF Tick, ghosts, AgeInv, TypeOK
<1>2. SteadyRun'
  BY <1>1 DEF AgeInv, SteadyRun
<1>3. SteadyAnswer'
  BY <1>1 DEF Tick, AgeInv, SteadyRun, SteadyAnswer, Asked
<1>4. ASSUME NEW p \in 1 .. N, NEW b \in Nat, AgeWithin(b, p)
      PROVE  AgeWithin(b, p)'
  <2>1. Done(p)' = Done(p) /\ Slept(p)' = Slept(p)
    BY <1>1 DEF Done, Slept
  <2>2. Done(p) * b \in Nat /\ Slept(p) \in Nat
    BY <1>1, Counts, Times
  <2>3. age'[Members[p]] <= age[Members[p]] + 1 /\ age[Members[p]] \in Nat /\ age'[Members[p]] \in Nat
    BY <1>1 DEF Older, TypeOK
  <2>4. age[Members[p]] <= Done(p) * b + Slept(p) + waited
    BY <1>4 DEF AgeWithin
  <2>5. age'[Members[p]] <= Done(p) * b + Slept(p) + (waited + 1)
    BY <1>1, <2>2, <2>3, <2>4
  <2> QED
    BY <1>1, <2>1, <2>5 DEF AgeWithin
<1>5. AgesCounted'
  BY <1>1, <1>4 DEF AgeInv, AgesCounted
<1> QED
  BY <1>2, <1>3, <1>5

\* A heartbeat received outside of the loop, or not received.
LEMMA AgeInvServed ==
    ASSUME AgeInv, TypeOK', UNCHANGED loop, UNCHANGED <<health, ghosts>>,
           NEW n \in Node, age' = age \/ age' = [age EXCEPT ![n] = 0]
    PROVE  SteadyRun' /\ SteadyAnswer' /\ AgesCounted'
<1> USE Constants
<1>1. TypeOK /\ steady' = steady /\ slow' = slow
  BY DEF AgeInv, ghosts
<1>2. SteadyRun' /\ SteadyAnswer'
  BY <1>1 DEF AgeInv, SteadyRun, SteadyAnswer, loop, Asked
<1>3. ASSUME NEW p \in 1 .. N, NEW b \in Nat, AgeWithin(b, p)
      PROVE  AgeWithin(b, p)'
  <2>1. age'[Members[p]] = 0 \/ age'[Members[p]] = age[Members[p]]
    BY <1>1 DEF TypeOK
  <2>2. CASE age'[Members[p]] = 0
    BY <2>2, FreshWithin
  <2>3. CASE age'[Members[p]] = age[Members[p]]
    BY <1>3, <2>3, LoopKept DEF AgeWithin
  <2> QED
    BY <2>1, <2>2, <2>3
<1>4. AgesCounted'
  BY <1>1, <1>3 DEF AgeInv, AgesCounted
<1> QED
  BY <1>2, <1>4

\* A node that changes is steady no longer.
LEMMA AgeInvChange ==
    ASSUME AgeInv, TypeOK', NEW n \in Node, Change(n)
    PROVE  SteadyRun' /\ SteadyAnswer' /\ AgesCounted'
<1> USE Constants
<1>1. /\ TypeOK /\ UNCHANGED loop /\ age' = age /\ slow' = slow
      /\ steady' = steady \ {n} /\ health \in [Node -> {"running", "hung", "down"}]
      /\ \A m \in Node \ {n} : health'[m] = health[m]
  BY DEF Change, AgeInv, TypeOK
<1>2. steady \subseteq Node
  BY <1>1 DEF TypeOK
<1>3. SteadyRun'
  BY <1>1, <1>2 DEF AgeInv, SteadyRun
<1>4. SteadyAnswer'
  BY <1>1 DEF AgeInv, SteadyAnswer, loop, Asked
<1>5. \A p \in 1 .. N, b \in Nat : AgeWithin(b, p)' <=> AgeWithin(b, p)
  BY <1>1, LoopKept DEF AgeWithin
<1>6. AgesCounted'
  BY <1>1, <1>5 DEF AgeInv, AgesCounted
<1> QED
  BY <1>3, <1>4, <1>6

\* Every step keeps the invariant.
LEMMA AgeInvNext == AgeInv /\ [Next]_vars => AgeInv'
<1> SUFFICES ASSUME AgeInv, [Next]_vars PROVE AgeInv'
  OBVIOUS
<1>1. TypeOK'
  BY TypeNext DEF AgeInv
<1>2. CASE Answer
  BY <1>1, <1>2, AgeInvAnswer DEF AgeInv
<1>3. CASE Fails
  BY <1>1, <1>3, AgeInvFails DEF AgeInv
<1>4. CASE Wake
  BY <1>1, <1>4, AgeInvWake DEF AgeInv
<1>5. CASE Tick
  BY <1>1, <1>5, AgeInvTick DEF AgeInv
<1>6. ASSUME NEW n \in Node, Serve(n) PROVE AgeInv'
  BY <1>1, <1>6, AgeInvServed DEF Serve, AgeInv, loop, ghosts
<1>7. ASSUME NEW n \in Node, Served(n) PROVE AgeInv'
  BY <1>1, <1>7, AgeInvServed DEF Served, AgeInv, loop, ghosts
<1>8. ASSUME NEW n \in Node, HeartbeatEndpoint(n) PROVE AgeInv'
  BY <1>1, <1>8, AgeInvServed DEF HeartbeatEndpoint, AgeInv, loop, ghosts
<1>9. ASSUME NEW n \in Node, Change(n) PROVE AgeInv'
  BY <1>1, <1>9, AgeInvChange DEF AgeInv
<1>10. CASE UNCHANGED vars
  <2>1. \A n \in Node : AgeInv'
    BY <1>1, <1>10, AgeInvServed DEF vars, AgeInv, loop, ghosts
  <2> QED
    BY <2>1, Constants
<1> QED
  BY <1>2, <1>3, <1>4, <1>5, <1>6, <1>7, <1>8, <1>9, <1>10 DEF Next, Loop

\* So it holds throughout.
LEMMA AgeInvAlways == Spec => []AgeInv
BY AgeInvInit, AgeInvNext, PTL DEF Spec

-----------------------------------------------------------------------------
\* What the counts come to when the loop is about to get the node's next answer.
LEMMA AgeBound ==
    ASSUME AgeInv, NEW p \in 1 .. N, Members[p] \in steady, NEW b \in Nat,
           AgeWithin(b, p), Latency <= b, step = "ask" => waited <= b
    PROVE  age[Members[p]] <= SleepTime + (N - 1) * b + Latency
<1> USE Constants
<1>1. /\ TypeOK /\ at \in 1 .. N /\ step \in {"ask", "sleep"} /\ waited \in Nat
      /\ age[Members[p]] \in Nat
      /\ step = "sleep" => waited <= SleepTime
  BY DEF AgeInv, TypeOK
<1>2. Done(p) \in Nat /\ Done(p) <= N - 1 /\ Slept(p) \in Nat
  BY <1>1, Counts
<1>3. Done(p) * b \in Nat /\ (Done(p) + 1) * b = Done(p) * b + b
  BY <1>2, Times
<1>4. Done(p) * b <= (N - 1) * b /\ (N - 1) * b \in Nat
  <2>1. N - 1 \in Nat
    OBVIOUS
  <2> QED
    BY <1>2, <2>1, Times, TimesMonotone
<1>5. age[Members[p]] <= Done(p) * b + Slept(p) + waited
  BY DEF AgeWithin
<1>6. CASE step = "sleep"
  <2>1. Slept(p) = 0
    BY <1>6 DEF Slept
  <2> QED
    BY <1>1, <1>3, <1>4, <1>5, <1>6, <2>1
<1>7. CASE step = "ask" /\ at = p
  <2>1. Slept(p) = SleepTime
    BY <1>7 DEF Slept
  <2>2. waited <= Latency
    BY <1>7 DEF AgeInv, SteadyAnswer, Asked
  <2> QED
    BY <1>1, <1>3, <1>4, <1>5, <2>1, <2>2
<1>8. CASE step = "ask" /\ at # p
  <2>1. Done(p) + 1 <= N - 1 /\ Slept(p) <= SleepTime
    BY <1>1, <1>8 DEF Done, Slept
  <2>2. (Done(p) + 1) * b <= (N - 1) * b
    <3>1. Done(p) + 1 \in Nat /\ N - 1 \in Nat
      BY <1>2
    <3> QED
      BY <2>1, <3>1, TimesMonotone
  <2>3. waited <= b
    BY <1>8
  <2> QED
    BY <1>1, <1>2, <1>3, <1>4, <1>5, <2>1, <2>2, <2>3
<1> QED
  BY <1>1, <1>6, <1>7, <1>8

\* Every member is somewhere in the list.
LEMMA EveryoneAsked ==
    ASSUME NEW n \in Node
    PROVE  \E p \in 1 .. N : Members[p] = n
BY MembersAssumption

\* The heartbeat of a node that runs and has answered gets no older than one
\* round in which every other request takes its whole timeout (heartbeat_loop).
THEOREM SteadyAgesAreBounded == Spec => []SteadyAgesBounded
<1>1. AgeInv => SteadyAgesBounded
  <2> SUFFICES ASSUME AgeInv, NEW n \in steady PROVE age[n] <= WorstRound
    BY DEF SteadyAgesBounded
  <2>1. n \in Node /\ (step = "ask" => waited <= RequestTimeout)
    BY Constants DEF AgeInv, TypeOK
  <2>2. PICK p \in 1 .. N : Members[p] = n
    BY <2>1, EveryoneAsked
  <2>3. AgeWithin(RequestTimeout, p)
    BY <2>2 DEF AgeInv, AgesCounted
  <2> QED
    BY <2>1, <2>2, <2>3, AgeBound, Constants DEF WorstRound
<1> QED
  BY <1>1, AgeInvAlways, PTL

\* With timeouts that leave room for a round without slow requests, a node that
\* runs is presumed dead only if some request of the loop was slow since it
\* last answered (is_alive).
THEOREM DeadOnlyIfSlowed == Spec => []PresumedDeadOnlyIfSlowed
<1>1. AgeInv => PresumedDeadOnlyIfSlowed
  <2> SUFFICES ASSUME AgeInv, SleepTime + N * Latency <= HeartbeatTimeout,
                      NEW n \in steady, ~(slow[n] > 0),
                      ~(step = "ask" /\ waited > Latency)
               PROVE  Alive(n)
    BY DEF PresumedDeadOnlyIfSlowed
  <2>1. n \in Node /\ slow[n] = 0 /\ age[n] \in Nat /\ (step = "ask" => waited <= Latency)
    BY Constants DEF AgeInv, TypeOK
  <2>2. PICK p \in 1 .. N : Members[p] = n
    BY <2>1, EveryoneAsked
  <2>3. AgeWithin(Latency, p)
    BY <2>1, <2>2 DEF AgeInv, AgesCounted
  <2>4. age[n] <= SleepTime + (N - 1) * Latency + Latency
    BY <2>1, <2>2, <2>3, AgeBound, Constants
  <2>5. (N - 1) * Latency + Latency = N * Latency /\ (N - 1) * Latency \in Nat
    <3>1. N - 1 \in Nat /\ (N - 1) + 1 = N
      BY Constants
    <3> QED
      BY <3>1, Times, Constants
  <2> QED
    BY <2>1, <2>4, <2>5, Constants DEF Alive
<1> QED
  BY <1>1, AgeInvAlways, PTL

=============================================================================
