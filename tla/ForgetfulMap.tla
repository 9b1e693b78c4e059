------------------------------ MODULE ForgetfulMap ------------------------------
(***************************************************************************)
(* What a CacheStore promises to its callers: a map whose entries vanish   *)
(* at their deadline, and which a put may make forget one other key.       *)
(* There is no order of use, no expiration heap and no cleanup thread.     *)
(***************************************************************************)
EXTENDS Integers, FiniteSets

CONSTANTS
    Key,
    Value,
    Absent,   \* no entry, no put under way
    Never,    \* Python's None for a time to live or a deadline
    Ttl,      \* the times to live that callers ask for; 0: zero or less
    Thread    \* the threads that call the store

VARIABLES
    now,       \* monotonic()
    contents,  \* key -> its readable entry or Absent
    pending,   \* thread -> the put it is in, with its deadline, or Absent
    reply      \* key -> the value that the last call gave back for it, or Absent

vars == <<now, contents, pending, reply>>

Entry   == [value : Value, expires_at : Nat \cup {Never}]
Nowhere == [k \in Key |-> Absent]
NoReply == [k \in Key |-> Absent]

DeadlineAt(time, ttl) == IF ttl = Never THEN Never ELSE time + ttl

ExpiredAt(time, e) == e # Absent /\ e.expires_at # Never /\ time >= e.expires_at

\* What is left of the entries m at this time.
ReadableAt(time, m) == [k \in Key |-> IF ExpiredAt(time, m[k]) THEN Absent ELSE m[k]]

Values(m) == [k \in Key |-> IF m[k] = Absent THEN Absent ELSE m[k].value]

-----------------------------------------------------------------------------
Init ==
    /\ now = 0
    /\ contents = Nowhere
    /\ pending = [t \in Thread |-> Absent]
    /\ reply = NoReply

BeginPut(t, k, v, ttl) ==
    /\ pending[t] = Absent
    /\ ttl # 0
    /\ pending' = [pending EXCEPT ![t] = [key |-> k, value |-> v,
                                          expires_at |-> DeadlineAt(now, ttl)]]
    /\ UNCHANGED <<now, contents, reply>>

\* Room is made by forgetting at most one key, never the one that is put.
FinishPut(t) ==
    /\ pending[t] # Absent
    /\ LET p   == pending[t]
           new == [value |-> p.value, expires_at |-> p.expires_at]
       IN  \E lost \in SUBSET (Key \ {p.key}) :
             /\ Cardinality(lost) <= 1
             /\ contents' = ReadableAt(now, [k \in Key |-> CASE k = p.key -> new
                                                             [] k \in lost -> Absent
                                                             [] OTHER -> contents[k]])
    /\ pending' = [pending EXCEPT ![t] = Absent]
    /\ reply' = NoReply
    /\ UNCHANGED now

Get(k) ==
    /\ reply' = [NoReply EXCEPT ![k] = Values(contents)[k]]
    /\ UNCHANGED <<now, contents, pending>>

\* A key that is not readable any more may still be reported as deleted.
Delete(k) ==
    /\ contents' = [contents EXCEPT ![k] = Absent]
    /\ \E removed \in Value \cup {Absent} :
         /\ contents[k] # Absent => removed = contents[k].value
         /\ reply' = [NoReply EXCEPT ![k] = removed]
    /\ UNCHANGED <<now, pending>>

\* A put that is expired at once is a deletion that answers nothing.
PutExpired(k) ==
    /\ 0 \in Ttl
    /\ contents' = [contents EXCEPT ![k] = Absent]
    /\ reply' = NoReply
    /\ UNCHANGED <<now, pending>>

Clear ==
    /\ contents' = Nowhere
    /\ reply' = NoReply
    /\ UNCHANGED <<now, pending>>

Snapshot ==
    /\ reply' = Values(contents)
    /\ UNCHANGED <<now, contents, pending>>

\* Entries vanish the moment their deadline is reached.
Tick ==
    /\ now' = now + 1
    /\ contents' = ReadableAt(now', contents)
    /\ UNCHANGED <<pending, reply>>

Next ==
    \/ \E t \in Thread :
          \/ \E k \in Key, v \in Value, ttl \in Ttl : BeginPut(t, k, v, ttl)
          \/ FinishPut(t)
    \/ \E k \in Key : Get(k) \/ Delete(k) \/ PutExpired(k)
    \/ Clear \/ Snapshot \/ Tick

Spec == Init /\ [][Next]_vars

=============================================================================
