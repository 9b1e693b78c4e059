------------------------------- MODULE CacheStore -------------------------------
(***************************************************************************)
(* distributed_cache/cache/store.py, CacheStore: the entries with the      *)
(* order of an OrderedDict, the expiration heap, and the cleanup thread.   *)
(*                                                                         *)
(* Every method runs under one lock and is one step, except put, which     *)
(* computes the deadline before it takes the lock.  The order of the dict  *)
(* is a set of pairs: <<k, l>> when k was used before l.  Equal records of *)
(* the heap are one record: popping a second one changes nothing.  A loop  *)
(* over the entries looks at the clock once.  size changes nothing, and    *)
(* shutdown is never called.                                               *)
(***************************************************************************)
EXTENDS Integers, FiniteSets

CONSTANTS
    Key,
    Value,
    Absent,    \* no entry, no put under way
    Never,     \* Python's None for a time to live or a deadline
    Ttl,       \* the times to live that callers ask for; 0: zero or less
    Thread,    \* the threads that call the store
    MaxItems,  \* max_items
    MaxTime,   \* the clock stops here
    MaxPuts    \* how many puts there are

ASSUME NeverAssumption    == Never \notin Int
ASSUME TtlAssumption      == Ttl \subseteq Nat \cup {Never}
ASSUME MaxItemsAssumption == MaxItems \in Nat \ {0}
ASSUME BoundsAssumption   == MaxTime \in Nat /\ MaxPuts \in Nat

VARIABLES
    now,      \* monotonic()
    entries,  \* _entries: key -> entry or Absent
    order,    \* the order of _entries
    heap,     \* _expiration_heap
    pending,  \* thread -> the put that waits for the lock, or Absent
    reply,    \* key -> the value that the last call gave back for it, or Absent
    puts,     \* how many puts are left
    recency,  \* ghost: the keys in the order in which they were last put or read
    latest    \* ghost: key -> what was last put under it, Absent once deleted

vars == <<now, entries, order, heap, pending, reply, puts, recency, latest>>

Entry   == [value : Value, expires_at : Nat \cup {Never}]
Waiting == [key : Key, value : Value, expires_at : Nat \cup {Never}]
Nowhere == [k \in Key |-> Absent]

ASSUME AbsentAssumption == Absent \notin Value \cup Entry \cup Waiting

Held == {k \in Key : entries[k] # Absent}

\* _is_expired
Expired(e) == e # Absent /\ e.expires_at # Never /\ now >= e.expires_at

Readable == [k \in Key |-> IF Expired(entries[k]) THEN Absent ELSE entries[k]]

Answer(k, v) == [Nowhere EXCEPT ![k] = v]

-----------------------------------------------------------------------------
(***************************************************************************)
(* The order of use                                                        *)
(***************************************************************************)

Within(ord, S) == ord \cap (S \X S)

\* Mutant of MovedToEnd: the key keeps its old place as well.
AddedAtEnd(ord, S, k) == Within(ord, S) \cup ((S \ {k}) \X {k})

\* k becomes the youngest of the keys S.
MovedToEnd(ord, S, k) == Within(ord, S \ {k}) \cup ((S \ {k}) \X {k})

Younger(ord, k) == {p[2] : p \in {q \in ord : q[1] = k}}

\* Mutant of MoveToEnd: reading a key leaves its place as it is.
StayInPlace(k) == UNCHANGED order

MoveToEnd(k) == order' = MovedToEnd(order, Held, k)

Used(k) == recency' = MovedToEnd(recency, Key, k)

\* Mutant of Evicted: the limit is exceeded by one.
EvictedLate(ord, S) == {k \in S : Cardinality(Younger(ord, k)) > MaxItems}

\* The whole of _evict_lru_locked: all but the MaxItems youngest keys.
Evicted(ord, S) == {k \in S : Cardinality(Younger(ord, k)) >= MaxItems}

-----------------------------------------------------------------------------
Init ==
    /\ now = 0
    /\ entries = Nowhere
    /\ order = {}
    /\ heap = {}
    /\ pending = [t \in Thread |-> Absent]
    /\ reply = Nowhere
    /\ puts = MaxPuts
    /\ recency = {}
    /\ latest = Nowhere

\* The entries of the keys S go, with their places in the order.
Drop(S) ==
    /\ entries' = [k \in Key |-> IF k \in S THEN Absent ELSE entries[k]]
    /\ order' = Within(order, Held \ S)

\* put with a time to live, or none, up to the lock.
BeginPut(t, k, v, ttl) ==
    /\ pending[t] = Absent
    /\ ttl # 0
    /\ puts > 0
    /\ puts' = puts - 1
    /\ pending' = [pending EXCEPT ![t] =
                      [key |-> k, value |-> v,
                       expires_at |-> IF ttl = Never THEN Never ELSE now + ttl]]
    /\ UNCHANGED <<now, entries, order, heap, reply, recency, latest>>

\* Mutant of Pushed: only a new key gets a record.
PushedForNewKeys(p) ==
    IF p.expires_at = Never \/ p.key \in Held THEN {}
    ELSE {[expires_at |-> p.expires_at, key |-> p.key]}

\* The record that a put adds to the heap.
Pushed(p) ==
    IF p.expires_at = Never THEN {} ELSE {[expires_at |-> p.expires_at, key |-> p.key]}

\* put under the lock.
FinishPut(t) ==
    /\ pending[t] # Absent
    /\ LET p    == pending[t]
           new  == [value |-> p.value, expires_at |-> p.expires_at]
           all  == Held \cup {p.key}
           ord  == MovedToEnd(order, all, p.key)
           gone == Evicted(ord, all)
       IN  /\ entries' = [k \in Key |-> CASE k \in gone -> Absent
                                          [] k = p.key /\ k \notin gone -> new
                                          [] OTHER -> entries[k]]
           /\ order' = Within(ord, all \ gone)
           /\ heap' = heap \cup Pushed(p)
           /\ latest' = [latest EXCEPT ![p.key] = new]
           /\ Used(p.key)
    /\ pending' = [pending EXCEPT ![t] = Absent]
    /\ reply' = Nowhere
    /\ UNCHANGED <<now, puts>>

\* Another thread than those that wait for the lock.
SomeoneFree == \E t \in Thread : pending[t] = Absent

Get(k) ==
    /\ SomeoneFree
    /\ \/ /\ entries[k] # Absent /\ ~Expired(entries[k])
          /\ MoveToEnd(k)
          /\ reply' = Answer(k, entries[k].value)
          /\ Used(k)
          /\ UNCHANGED entries
       \/ /\ entries[k] = Absent \/ Expired(entries[k])
          /\ Drop({k})
          /\ reply' = Nowhere
          /\ UNCHANGED recency
    /\ UNCHANGED <<now, heap, pending, puts, latest>>

\* The entry goes, expired or not; its record stays on the heap.  A True answer
\* is shown as the value that was taken out.
Delete(k) ==
    /\ SomeoneFree
    /\ Drop({k})
    /\ reply' = IF entries[k] = Absent THEN Nowhere ELSE Answer(k, entries[k].value)
    /\ latest' = [latest EXCEPT ![k] = Absent]
    /\ UNCHANGED <<now, heap, pending, puts, recency>>

\* put with a time to live of zero or less: it deletes the key and returns.
PutExpired(k) ==
    /\ SomeoneFree
    /\ 0 \in Ttl
    /\ Drop({k})
    /\ reply' = Nowhere
    /\ latest' = [latest EXCEPT ![k] = Absent]
    /\ UNCHANGED <<now, heap, pending, puts, recency>>

Clear ==
    /\ SomeoneFree
    /\ Drop(Key)
    /\ reply' = Nowhere
    /\ latest' = Nowhere
    /\ UNCHANGED <<now, heap, pending, puts, recency>>

\* items and snapshot: the expired entries go on the way.
Snapshot ==
    /\ SomeoneFree
    /\ Drop({k \in Key : Expired(entries[k])})
    /\ reply' = [k \in Key |-> IF Readable[k] = Absent THEN Absent ELSE Readable[k].value]
    /\ UNCHANGED <<now, heap, pending, puts, recency, latest>>

\* Mutant of Reclaimed: what the heap says is not checked against the entry.
ReclaimedUnchecked(due) == {r.key : r \in due}

\* The keys of the popped records whose present entry is expired.
Reclaimed(due) == {k \in {r.key : r \in due} : Expired(entries[k])}

\* One pass of _cleanup_worker, as of its last look at the clock: every due
\* record is popped.
Cleanup ==
    LET due == {r \in heap : now >= r.expires_at}
    IN  /\ due # {}
        /\ heap' = heap \ due
        /\ Drop(Reclaimed(due))
        /\ UNCHANGED <<now, pending, reply, puts, recency, latest>>

Tick ==
    /\ now < MaxTime
    /\ now' = now + 1
    /\ UNCHANGED <<entries, order, heap, pending, reply, puts, recency, latest>>

Next ==
    \/ \E t \in Thread :
          \/ \E k \in Key, v \in Value, ttl \in Ttl : BeginPut(t, k, v, ttl)
          \/ FinishPut(t)
    \/ \E k \in Key : Get(k) \/ Delete(k) \/ PutExpired(k)
    \/ Clear \/ Snapshot
    \/ Cleanup
    \/ Tick

Spec == Init /\ [][Next]_vars

\* The cleanup thread runs for as long as the process does.
FairSpec == Spec /\ WF_vars(Cleanup)

-----------------------------------------------------------------------------
(***************************************************************************)
(* Properties                                                              *)
(***************************************************************************)

Orders(ord, S) ==
    /\ ord \subseteq S \X S
    /\ \A k, l \in S : k # l => (<<k, l>> \in ord <=> <<l, k>> \notin ord)

\* Type invariant, with what an OrderedDict is by itself: its order has exactly
\* its keys, each two of them in one order.
TypeOK ==
    /\ now \in 0 .. MaxTime
    /\ entries \in [Key -> Entry \cup {Absent}]
    /\ Orders(order, Held)
    /\ heap \subseteq [expires_at : Nat, key : Key]
    /\ pending \in [Thread -> Waiting \cup {Absent}]
    /\ reply \in [Key -> Value \cup {Absent}]
    /\ puts \in 0 .. MaxPuts
    /\ recency \subseteq Key \X Key
    /\ latest \in [Key -> Entry \cup {Absent}]

\* The store never holds more than max_items entries, expired ones included, in
\* any order of puts by several threads and of cleanup passes.
WithinLimit == Cardinality(Held) <= MaxItems

\* Eviction never takes what was used recently: a key that was put, not deleted
\* and not expired is in the store, with its latest value and deadline, unless
\* MaxItems other keys were put or read since its own last put or read.  Records
\* left on the heap by earlier puts of the key do not take it away (put, get,
\* _cleanup_worker, _evict_lru_locked).
RecentlyUsedKept ==
    \A k \in Key :
        /\ latest[k] # Absent /\ ~Expired(latest[k])
        /\ Cardinality(Younger(recency, k)) < MaxItems
        => entries[k] = latest[k]

\* No entry with a deadline is out of the cleanup thread's sight: one that is
\* in the store has its record on the heap, whatever was popped, deleted, put
\* again or read meanwhile.
HeapCoversEntries ==
    \A k \in Held :
        entries[k].expires_at # Never =>
            [expires_at |-> entries[k].expires_at, key |-> k] \in heap

\* To its callers the store is a map that forgets at deadlines and, one key at a
\* time, at puts: lazy expiration, the order of use and the cleanup thread do
\* not show.
Promise == INSTANCE ForgetfulMap WITH contents <- Readable

ImplementsForgetfulMap == Promise!Spec

\* An expired entry does not take up room for ever, even if nobody asks for it.
ExpiredIsReclaimed == \A k \in Key : Expired(entries[k]) ~> ~Expired(entries[k])

=============================================================================
