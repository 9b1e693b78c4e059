---------------------------- MODULE CacheStoreProofs ----------------------------
(***************************************************************************)
(* Proofs about CacheStore, for any keys, limits, threads and times to     *)
(* live.  The state keeps its type, and the expiration heap always has the *)
(* record of every entry that can expire.  The store stays within its      *)
(* limit and keeps what was used recently: the orders of the dict and of   *)
(* the last uses are linear and agree on the keys of the dict, so the      *)
(* oldest of too many keys is the one key that a put evicts.  And it       *)
(* implements ForgetfulMap, action by action.                              *)
(***************************************************************************)
EXTENDS CacheStore, FiniteSetTheorems, TLAPS

-----------------------------------------------------------------------------
(***************************************************************************)
(* The order of use                                                        *)
(***************************************************************************)

\* An order of some keys orders each part of them.
LEMMA WithinOrders ==
    ASSUME NEW S, NEW T \in SUBSET S, NEW ord, Orders(ord, S)
    PROVE  Orders(Within(ord, T), T)
BY DEF Orders, Within

\* Moving a key to the end, whether it is new or not, gives an order again.
LEMMA MovedToEndOrders ==
    ASSUME NEW S, NEW k \in S, NEW ord, Orders(ord, S) \/ Orders(ord, S \ {k})
    PROVE  Orders(MovedToEnd(ord, S, k), S)
<1>1. Orders(Within(ord, S \ {k}), S \ {k})
  BY WithinOrders DEF Orders, Within
<1> QED
  BY <1>1 DEF Orders, MovedToEnd

-----------------------------------------------------------------------------
(***************************************************************************)
(* The steps that several actions share                                    *)
(***************************************************************************)

\* What TypeOK says of the dict.
DictOK == entries \in [Key -> Entry \cup {Absent}] /\ Orders(order, Held)

\* Dropping keys keeps a dict a dict, and drops just them.
LEMMA DropDict ==
    ASSUME DictOK, NEW S, Drop(S)
    PROVE  /\ DictOK'
           /\ \A k \in Key : entries'[k] = (IF k \in S THEN Absent ELSE entries[k])
<1>1. entries' = [k \in Key |-> IF k \in S THEN Absent ELSE entries[k]]
  BY DEF Drop
<1>2. entries' \in [Key -> Entry \cup {Absent}]
  BY <1>1 DEF DictOK
<1>3. Held' = Held \ S
  BY <1>1 DEF Held
<1>4. Orders(order', Held')
  BY <1>3, WithinOrders DEF DictOK, Drop
<1> QED
  BY <1>1, <1>2, <1>4 DEF DictOK

\* The entry of a put is one, and its record is that of its deadline.
LEMMA PutEntry ==
    ASSUME NEW p \in Waiting
    PROVE  /\ [value |-> p.value, expires_at |-> p.expires_at] \in Entry
           /\ Pushed(p) \subseteq [expires_at : Nat, key : Key]
BY DEF Waiting, Entry, Pushed

\* Storing under a key, with the eviction that follows.
LEMMA FinishPutDict ==
    ASSUME TypeOK, NEW t \in Thread, FinishPut(t)
    PROVE  /\ DictOK'
           /\ \A k \in Key : \/ entries'[k] = Absent
                             \/ k # pending[t].key /\ entries'[k] = entries[k]
                             \/ /\ k = pending[t].key
                                /\ entries'[k].expires_at = pending[t].expires_at
<1> DEFINE p    == pending[t]
           new  == [value |-> p.value, expires_at |-> p.expires_at]
           all  == Held \cup {p.key}
           ord  == MovedToEnd(order, all, p.key)
           gone == Evicted(ord, all)
<1>1. p \in Waiting /\ p.key \in Key
  BY DEF TypeOK, FinishPut, Waiting
<1>2. new \in Entry /\ new # Absent
  BY <1>1, PutEntry, AbsentAssumption
<1>3. /\ entries' = [k \in Key |-> CASE k \in gone -> Absent
                                     [] k = p.key /\ k \notin gone -> new
                                     [] OTHER -> entries[k]]
      /\ order' = Within(ord, all \ gone)
  BY DEF FinishPut
<1>4. Orders(ord, all)
  <2>1. Orders(order, all) \/ Orders(order, all \ {p.key})
    <3>1. CASE p.key \in Held
      BY <3>1 DEF TypeOK, Orders
    <3>2. CASE p.key \notin Held
      BY <3>2 DEF TypeOK, Orders
    <3> QED
      BY <3>1, <3>2
  <2> QED
    BY <2>1, MovedToEndOrders
<1> HIDE DEF new, ord, gone
<1>5. entries' \in [Key -> Entry \cup {Absent}]
  BY <1>2, <1>3 DEF TypeOK
<1>6. Held' = all \ gone
  <2>1. Held' \subseteq Key /\ all \subseteq Key
    BY <1>1 DEF Held
  <2>2. ASSUME NEW k \in Key
        PROVE  k \in Held' <=> k \in all \ gone
    BY <1>1, <1>2, <1>3 DEF Held
  <2> QED
    BY <2>1, <2>2
<1>7. Orders(order', Held')
  BY <1>3, <1>4, <1>6, WithinOrders
<1>8. ASSUME NEW k \in Key
      PROVE  \/ entries'[k] = Absent
             \/ k # p.key /\ entries'[k] = entries[k]
             \/ k = p.key /\ entries'[k].expires_at = p.expires_at
  <2>1. new.expires_at = p.expires_at
    BY DEF new
  <2> QED
    BY <1>3, <2>1
<1> QED
  BY <1>5, <1>7, <1>8 DEF DictOK

-----------------------------------------------------------------------------
(***************************************************************************)
(* The type invariant                                                      *)
(***************************************************************************)

\* The ghost of the order of use keeps its type.
LEMMA UsedType ==
    ASSUME recency \subseteq Key \X Key, NEW k \in Key, Used(k)
    PROVE  recency' \subseteq Key \X Key
BY DEF Used, MovedToEnd, Within

\* What a call gives back is a value of the store.
LEMMA AnswerType ==
    ASSUME NEW k \in Key, NEW v \in Value \cup {Absent}
    PROVE  Answer(k, v) \in [Key -> Value \cup {Absent}]
BY DEF Answer, Nowhere

\* The empty store has the type.
LEMMA TypeInit == Init => TypeOK
<1> SUFFICES ASSUME Init PROVE TypeOK
  OBVIOUS
<1>1. Held = {}
  BY DEF Init, Held, Nowhere
<1>2. Orders(order, Held)
  BY <1>1 DEF Init, Orders
<1> QED
  BY <1>2, BoundsAssumption DEF Init, TypeOK, Nowhere

\* Every step keeps it.
LEMMA TypeNext == TypeOK /\ [Next]_vars => TypeOK'
<1> SUFFICES ASSUME TypeOK, [Next]_vars PROVE TypeOK'
  OBVIOUS
<1>0. DictOK
  BY DEF TypeOK, DictOK
<1>1. ASSUME UNCHANGED <<entries, order>>
      PROVE  DictOK'
  BY <1>0, <1>1 DEF DictOK, Held, Orders
<1>2. ASSUME NEW t \in Thread, NEW k \in Key, NEW v \in Value, NEW ttl \in Ttl,
             BeginPut(t, k, v, ttl)
      PROVE  TypeOK'
  <2>1. DictOK'
    BY <1>1, <1>2 DEF BeginPut
  <2>2. (IF ttl = Never THEN Never ELSE now + ttl) \in Nat \cup {Never}
    BY TtlAssumption, BoundsAssumption DEF TypeOK
  <2>3. pending' \in [Thread -> Waiting \cup {Absent}]
    BY <1>2, <2>2 DEF TypeOK, BeginPut, Waiting
  <2>4. puts' \in 0 .. MaxPuts
    BY <1>2, BoundsAssumption DEF TypeOK, BeginPut
  <2> QED
    BY <1>2, <2>1, <2>3, <2>4 DEF TypeOK, DictOK, BeginPut
<1>3. ASSUME NEW t \in Thread, FinishPut(t)
      PROVE  TypeOK'
  <2> DEFINE p   == pending[t]
             new == [value |-> p.value, expires_at |-> p.expires_at]
  <2>1. p \in Waiting /\ p.key \in Key
    BY <1>3 DEF TypeOK, FinishPut, Waiting
  <2>2. new \in Entry /\ Pushed(p) \subseteq [expires_at : Nat, key : Key]
    BY <2>1, PutEntry
  <2>3. DictOK'
    BY <1>3, FinishPutDict
  <2>4. heap' \subseteq [expires_at : Nat, key : Key]
    BY <1>3, <2>2 DEF TypeOK, FinishPut
  <2>5. latest' \in [Key -> Entry \cup {Absent}]
    BY <1>3, <2>1, <2>2 DEF TypeOK, FinishPut
  <2>6. recency' \subseteq Key \X Key
    BY <1>3, <2>1, UsedType DEF TypeOK, FinishPut
  <2>7. pending' \in [Thread -> Waiting \cup {Absent}]
    BY <1>3 DEF TypeOK, FinishPut
  <2>8. reply' \in [Key -> Value \cup {Absent}]
    BY <1>3 DEF FinishPut, Nowhere
  <2> QED
    BY <1>3, <2>3, <2>4, <2>5, <2>6, <2>7, <2>8 DEF TypeOK, DictOK, FinishPut
<1>4. ASSUME NEW k \in Key, Get(k)
      PROVE  TypeOK'
  <2>1. CASE entries[k] # Absent /\ ~Expired(entries[k]) /\ MoveToEnd(k) /\ Used(k)
             /\ reply' = Answer(k, entries[k].value) /\ UNCHANGED entries
    <3>1. k \in Held /\ entries[k] \in Entry /\ entries[k].value \in Value
      BY <2>1 DEF TypeOK, Held, Entry
    <3>2. Held' = Held
      BY <2>1 DEF Held
    <3>3. Orders(order', Held')
      BY <2>1, <3>1, <3>2, MovedToEndOrders DEF TypeOK, MoveToEnd
    <3>4. recency' \subseteq Key \X Key
      BY <2>1, UsedType DEF TypeOK
    <3>5. reply' \in [Key -> Value \cup {Absent}]
      BY <2>1, <3>1, AnswerType
    <3> QED
      BY <1>4, <2>1, <3>3, <3>4, <3>5 DEF TypeOK, Get
  <2>2. CASE Drop({k}) /\ reply' = Nowhere /\ UNCHANGED recency
    <3>1. DictOK'
      BY <1>0, <2>2, DropDict
    <3>2. reply' \in [Key -> Value \cup {Absent}]
      BY <2>2 DEF Nowhere
    <3> QED
      BY <1>4, <2>2, <3>1, <3>2 DEF TypeOK, DictOK, Get
  <2> QED
    BY <1>4, <2>1, <2>2 DEF Get
<1>5. ASSUME NEW k \in Key, Delete(k)
      PROVE  TypeOK'
  <2>1. DictOK'
    BY <1>0, <1>5, DropDict DEF Delete
  <2>2. entries[k] # Absent => entries[k].value \in Value
    BY DEF TypeOK, Entry
  <2>3. reply' \in [Key -> Value \cup {Absent}]
    BY <1>5, <2>2, AnswerType DEF Delete, Nowhere
  <2>4. latest' \in [Key -> Entry \cup {Absent}]
    BY <1>5 DEF TypeOK, Delete
  <2> QED
    BY <1>5, <2>1, <2>3, <2>4 DEF TypeOK, DictOK, Delete
<1>6. ASSUME Clear
      PROVE  TypeOK'
  <2>1. DictOK'
    BY <1>0, <1>6, DropDict DEF Clear
  <2> QED
    BY <1>6, <2>1 DEF TypeOK, DictOK, Clear, Nowhere
<1>7. ASSUME Snapshot
      PROVE  TypeOK'
  <2>1. DictOK'
    BY <1>0, <1>7, DropDict DEF Snapshot
  <2>2. \A k \in Key : Readable[k] # Absent => Readable[k].value \in Value
    BY DEF TypeOK, Readable, Entry
  <2>3. reply' \in [Key -> Value \cup {Absent}]
    BY <1>7, <2>2 DEF Snapshot
  <2> QED
    BY <1>7, <2>1, <2>3 DEF TypeOK, DictOK, Snapshot
<1>8. ASSUME Cleanup
      PROVE  TypeOK'
  <2>1. DictOK'
    BY <1>0, <1>8, DropDict DEF Cleanup
  <2> QED
    BY <1>8, <2>1 DEF TypeOK, DictOK, Cleanup
<1>9. ASSUME Tick
      PROVE  TypeOK'
  <2>1. DictOK'
    BY <1>1, <1>9 DEF Tick
  <2> QED
    BY <1>9, <2>1, BoundsAssumption DEF TypeOK, DictOK, Tick
<1>10. ASSUME UNCHANGED vars
       PROVE  TypeOK'
  <2>1. DictOK'
    BY <1>1, <1>10 DEF vars
  <2> QED
    BY <1>10, <2>1 DEF TypeOK, DictOK, vars
<1>11. ASSUME NEW k \in Key, PutExpired(k)
       PROVE  TypeOK'
  <2>1. DictOK'
    BY <1>0, <1>11, DropDict DEF PutExpired
  <2>2. latest' \in [Key -> Entry \cup {Absent}]
    BY <1>11 DEF TypeOK, PutExpired
  <2> QED
    BY <1>11, <2>1, <2>2 DEF TypeOK, DictOK, PutExpired, Nowhere
<1> QED
  BY <1>2, <1>3, <1>4, <1>5, <1>6, <1>7, <1>8, <1>9, <1>10, <1>11 DEF Next

\* Whatever threads do, the state keeps its type; the order of the dict, from
\* which evictions and cleanup passes take keys, stays an order of its keys.
THEOREM TypeCorrect == Spec => []TypeOK
<1>1. Init => TypeOK
  BY TypeInit
<1>2. TypeOK /\ [Next]_vars => TypeOK'
  BY TypeNext
<1> QED
  BY <1>1, <1>2, PTL DEF Spec

-----------------------------------------------------------------------------
(***************************************************************************)
(* The expiration heap                                                     *)
(***************************************************************************)

\* A step that changes no entry and takes no record off the heap is harmless.
LEMMA HeapKept ==
    ASSUME HeapCoversEntries, heap \subseteq heap',
           \A k \in Key : entries'[k] = Absent \/ entries'[k] = entries[k]
    PROVE  HeapCoversEntries'
BY DEF HeapCoversEntries, Held

\* Every step keeps the heap complete.  Only a cleanup pass takes records off
\* it, and it drops the entry of each one that is still the entry's own.
LEMMA HeapNext == TypeOK /\ HeapCoversEntries /\ [Next]_vars => HeapCoversEntries'
<1> SUFFICES ASSUME TypeOK, HeapCoversEntries, [Next]_vars PROVE HeapCoversEntries'
  OBVIOUS
<1>0. DictOK
  BY DEF TypeOK, DictOK
<1>1. ASSUME NEW t \in Thread, FinishPut(t)
      PROVE  HeapCoversEntries'
  <2> SUFFICES ASSUME NEW k \in Key, entries'[k] # Absent, entries'[k].expires_at # Never
               PROVE  [expires_at |-> entries'[k].expires_at, key |-> k] \in heap'
    BY DEF HeapCoversEntries, Held
  <2>1. heap' = heap \cup Pushed(pending[t])
    BY <1>1 DEF FinishPut
  <2>2. CASE k # pending[t].key /\ entries'[k] = entries[k]
    BY <2>1, <2>2 DEF HeapCoversEntries, Held
  <2>3. CASE k = pending[t].key /\ entries'[k].expires_at = pending[t].expires_at
    BY <2>1, <2>3 DEF Pushed
  <2> QED
    BY <1>1, <2>2, <2>3, FinishPutDict
<1>2. ASSUME Cleanup
      PROVE  HeapCoversEntries'
  <2> DEFINE due == {r \in heap : now >= r.expires_at}
  <2>1. heap' = heap \ due /\ Drop(Reclaimed(due))
    BY <1>2 DEF Cleanup
  <2> HIDE DEF due
  <2>2. \A k \in Key : entries'[k] = (IF k \in Reclaimed(due) THEN Absent ELSE entries[k])
    BY <1>0, <2>1, DropDict
  <2> SUFFICES ASSUME NEW k \in Key, entries'[k] # Absent, entries'[k].expires_at # Never
               PROVE  [expires_at |-> entries'[k].expires_at, key |-> k] \in heap'
    BY DEF HeapCoversEntries, Held
  <2> DEFINE r == [expires_at |-> entries[k].expires_at, key |-> k]
  <2>3. entries'[k] = entries[k] /\ k \notin Reclaimed(due) /\ entries[k] # Absent
    BY <2>2
  <2>4. r \in heap
    BY <2>3 DEF HeapCoversEntries, Held
  <2>5. r \notin due
    <3>1. SUFFICES ASSUME r \in due PROVE FALSE
      OBVIOUS
    <3>2. now >= r.expires_at
      BY <3>1 DEF due
    <3>3. Expired(entries[k])
      BY <2>3, <3>2 DEF Expired
    <3>4. k \in Reclaimed(due)
      BY <3>1, <3>3 DEF Reclaimed
    <3> QED
      BY <2>3, <3>4
  <2> QED
    BY <2>1, <2>3, <2>4, <2>5
<1>3. ASSUME NEW S, Drop(S), UNCHANGED heap
      PROVE  HeapCoversEntries'
  <2>1. \A k \in Key : entries'[k] = Absent \/ entries'[k] = entries[k]
    BY <1>0, <1>3, DropDict
  <2> QED
    BY <1>3, <2>1, HeapKept
<1>4. ASSUME UNCHANGED <<entries, heap>>
      PROVE  HeapCoversEntries'
  BY <1>4 DEF HeapCoversEntries, Held
<1>5. ASSUME NEW k \in Key, Get(k)
      PROVE  HeapCoversEntries'
  BY <1>3, <1>4, <1>5 DEF Get
<1>6. ASSUME NEW k \in Key, Delete(k)
      PROVE  HeapCoversEntries'
  BY <1>3, <1>6 DEF Delete
<1>7. Clear \/ Snapshot => HeapCoversEntries'
  BY <1>3 DEF Clear, Snapshot
<1>8. ASSUME NEW t \in Thread, NEW k \in Key, NEW v \in Value, NEW ttl \in Ttl,
             BeginPut(t, k, v, ttl)
      PROVE  HeapCoversEntries'
  BY <1>4, <1>8 DEF BeginPut
<1>9. Tick \/ UNCHANGED vars => HeapCoversEntries'
  BY <1>4 DEF Tick, vars
<1>10. ASSUME NEW k \in Key, PutExpired(k)
       PROVE  HeapCoversEntries'
  BY <1>3, <1>10 DEF PutExpired
<1> QED
  BY <1>1, <1>2, <1>5, <1>6, <1>7, <1>8, <1>9, <1>10 DEF Next

\* The cleanup thread can find every entry that can expire: no interleaving of
\* puts, reads, deletions and cleanup passes leaves one without its record.
THEOREM HeapAlwaysCoversEntries == Spec => []HeapCoversEntries
<1>1. Init => HeapCoversEntries
  BY DEF Init, HeapCoversEntries, Held, Nowhere
<1>2. TypeOK /\ HeapCoversEntries /\ [Next]_vars => HeapCoversEntries'
  BY HeapNext
<1> QED
  BY <1>1, <1>2, TypeCorrect, PTL DEF Spec

-----------------------------------------------------------------------------
(***************************************************************************)
(* Eviction                                                                *)
(***************************************************************************)

Linear(ord) ==
    /\ \A a, b, c : <<a, b>> \in ord /\ <<b, c>> \in ord => <<a, c>> \in ord
    /\ \A a : <<a, a>> \notin ord

\* Taking keys out of an order keeps it linear.
LEMMA WithinLinear ==
    ASSUME NEW ord, Linear(ord), NEW S
    PROVE  Linear(Within(ord, S))
BY DEF Linear, Within

\* So does moving a key to the end: every other key is before it.
LEMMA MovedToEndLinear ==
    ASSUME NEW ord, Linear(ord), NEW S, NEW k
    PROVE  Linear(MovedToEnd(ord, S, k))
<1> DEFINE end == MovedToEnd(ord, S, k)
<1>1. ASSUME NEW a, NEW b
      PROVE  <<a, b>> \in end <=>
                \/ <<a, b>> \in ord /\ a \in S \ {k} /\ b \in S \ {k}
                \/ a \in S \ {k} /\ b = k
  BY DEF MovedToEnd, Within
<1> HIDE DEF end
<1>2. ASSUME NEW a, NEW b, NEW c, <<a, b>> \in end, <<b, c>> \in end PROVE <<a, c>> \in end
  BY <1>1, <1>2 DEF Linear
<1>3. \A a : <<a, a>> \notin end
  BY <1>1 DEF Linear
<1> QED
  BY <1>2, <1>3 DEF Linear, end

\* The younger keys are the second ones of the key's pairs.
LEMMA YoungerMember ==
    ASSUME NEW S, NEW ord \in SUBSET (S \X S)
    PROVE  \A k, l : l \in Younger(ord, k) <=> <<k, l>> \in ord
<1> SUFFICES ASSUME NEW k, NEW l
             PROVE  l \in Younger(ord, k) <=> <<k, l>> \in ord
  OBVIOUS
<1>1. ASSUME l \in Younger(ord, k) PROVE <<k, l>> \in ord
  <2>1. PICK p \in ord : p[1] = k /\ p[2] = l
    BY <1>1 DEF Younger
  <2>2. p = <<p[1], p[2]>>
    OBVIOUS
  <2> QED
    BY <2>1, <2>2
<1>2. ASSUME <<k, l>> \in ord PROVE l \in Younger(ord, k)
  BY <1>2 DEF Younger
<1> QED
  BY <1>1, <1>2

\* Of two keys the older one has more younger ones.
LEMMA OlderHasMore ==
    ASSUME NEW S, IsFiniteSet(S), NEW ord, Orders(ord, S), Linear(ord),
           NEW x \in S, NEW y \in S, <<x, y>> \in ord
    PROVE  /\ Cardinality(Younger(ord, x)) \in Nat /\ Cardinality(Younger(ord, y)) \in Nat
           /\ Cardinality(Younger(ord, y)) < Cardinality(Younger(ord, x))
           /\ Cardinality(Younger(ord, x)) < Cardinality(S)
<1>1. ord \in SUBSET (S \X S)
  BY DEF Orders
<1>2. \A k, l : l \in Younger(ord, k) <=> <<k, l>> \in ord
  BY <1>1, YoungerMember
<1>3. /\ Younger(ord, y) \in SUBSET (Younger(ord, x) \ {y}) /\ y \in Younger(ord, x)
      /\ Younger(ord, x) \in SUBSET (S \ {x})
  <2>1. y \in Younger(ord, x)
    BY <1>2
  <2>2. ASSUME NEW l \in Younger(ord, y) PROVE l \in Younger(ord, x) /\ l # y
    <3>1. <<y, l>> \in ord
      BY <1>2
    <3> QED
      BY <1>2, <3>1 DEF Linear
  <2>3. ASSUME NEW l \in Younger(ord, x) PROVE l \in S /\ l # x
    <3>1. <<x, l>> \in ord
      BY <1>2
    <3>2. <<x, l>> \in S \X S
      BY <1>1, <3>1
    <3> QED
      BY <3>1, <3>2 DEF Linear
  <2> QED
    BY <2>1, <2>2, <2>3
<1>4. IsFiniteSet(S \ {x}) /\ Cardinality(S \ {x}) = Cardinality(S) - 1 /\ Cardinality(S) \in Nat
  BY FS_RemoveElement, FS_CardinalityType
<1>5. IsFiniteSet(Younger(ord, x)) /\ Cardinality(Younger(ord, x)) <= Cardinality(S) - 1
  BY <1>3, <1>4, FS_Subset
<1>6. IsFiniteSet(Younger(ord, x) \ {y})
      /\ Cardinality(Younger(ord, x) \ {y}) = Cardinality(Younger(ord, x)) - 1
  BY <1>3, <1>5, FS_RemoveElement
<1>7. IsFiniteSet(Younger(ord, y))
      /\ Cardinality(Younger(ord, y)) <= Cardinality(Younger(ord, x)) - 1
  BY <1>3, <1>6, FS_Subset
<1>8. Cardinality(Younger(ord, x)) \in Nat /\ Cardinality(Younger(ord, y)) \in Nat
  BY <1>5, <1>7, FS_CardinalityType
<1> QED
  BY <1>4, <1>5, <1>7, <1>8

\* The number of younger keys is a number.
LEMMA YoungerCount ==
    ASSUME NEW S, IsFiniteSet(S), NEW ord, Orders(ord, S), NEW x
    PROVE  Cardinality(Younger(ord, x)) \in Nat /\ IsFiniteSet(Younger(ord, x))
<1>1. ord \in SUBSET (S \X S)
  BY DEF Orders
<1>2. \A l : l \in Younger(ord, x) <=> <<x, l>> \in ord
  BY <1>1, YoungerMember
<1>3. Younger(ord, x) \in SUBSET S
  <2>1. ASSUME NEW l \in Younger(ord, x) PROVE l \in S
    <3>1. <<x, l>> \in ord
      BY <1>2
    <3>2. <<x, l>> \in S \X S
      BY <1>1, <3>1
    <3> QED
      BY <3>2
  <2> QED
    BY <2>1
<1> QED
  BY <1>3, FS_Subset, FS_CardinalityType

\* What eviction keeps is within the limit: no two keys have as many younger ones.
LEMMA KeptWithinLimit ==
    ASSUME NEW S, IsFiniteSet(S), NEW ord, Orders(ord, S), Linear(ord)
    PROVE  IsFiniteSet(S \ Evicted(ord, S)) /\ Cardinality(S \ Evicted(ord, S)) <= MaxItems
<1> DEFINE T == S \ Evicted(ord, S)
           R == 0 .. MaxItems - 1
           f == [k \in T |-> Cardinality(Younger(ord, k))]
<1>1. IsFiniteSet(R) /\ Cardinality(R) = MaxItems
  BY FS_Interval, MaxItemsAssumption
<1>2. f \in [T -> R]
  <2>1. ASSUME NEW k \in T PROVE Cardinality(Younger(ord, k)) \in R
    <3>1. Cardinality(Younger(ord, k)) \in Nat /\ ~(Cardinality(Younger(ord, k)) >= MaxItems)
      BY YoungerCount DEF Evicted
    <3> QED
      BY <3>1, MaxItemsAssumption
  <2> QED
    BY <2>1
<1>3. ASSUME NEW x \in T, NEW y \in T, f[x] = f[y] PROVE x = y
  <2>1. x \in S /\ y \in S /\ Cardinality(Younger(ord, x)) = Cardinality(Younger(ord, y))
    BY <1>3
  <2>2. <<x, y>> \notin ord /\ <<y, x>> \notin ord
    BY <2>1, OlderHasMore
  <2> QED
    BY <2>1, <2>2 DEF Orders
<1>4. f \in Injection(T, R)
  BY <1>2, <1>3 DEF Injection, IsInjective
<1> QED
  BY <1>1, <1>4, FS_Injection

\* One key more than the limit: at most one goes.
LEMMA OneEvicted ==
    ASSUME NEW S, IsFiniteSet(S), NEW ord, Orders(ord, S), Linear(ord),
           Cardinality(S) <= MaxItems + 1,
           NEW x \in Evicted(ord, S), NEW y \in Evicted(ord, S)
    PROVE  x = y
<1>1. /\ x \in S /\ Cardinality(Younger(ord, x)) >= MaxItems
      /\ y \in S /\ Cardinality(Younger(ord, y)) >= MaxItems
  BY DEF Evicted
<1>2. Cardinality(S) \in Nat
  BY FS_CardinalityType
<1>3. <<x, y>> \notin ord
  <2>1. SUFFICES ASSUME <<x, y>> \in ord PROVE FALSE
    OBVIOUS
  <2>2. /\ Cardinality(Younger(ord, x)) \in Nat /\ Cardinality(Younger(ord, y)) \in Nat
        /\ Cardinality(Younger(ord, y)) < Cardinality(Younger(ord, x))
        /\ Cardinality(Younger(ord, x)) < Cardinality(S)
    BY <1>1, <2>1, OlderHasMore
  <2> QED
    BY <1>1, <1>2, <2>2, MaxItemsAssumption
<1>4. <<y, x>> \notin ord
  <2>1. SUFFICES ASSUME <<y, x>> \in ord PROVE FALSE
    OBVIOUS
  <2>2. /\ Cardinality(Younger(ord, x)) \in Nat /\ Cardinality(Younger(ord, y)) \in Nat
        /\ Cardinality(Younger(ord, x)) < Cardinality(Younger(ord, y))
        /\ Cardinality(Younger(ord, y)) < Cardinality(S)
    BY <1>1, <2>1, OlderHasMore
  <2> QED
    BY <1>1, <1>2, <2>2, MaxItemsAssumption
<1> QED
  BY <1>1, <1>3, <1>4 DEF Orders

-----------------------------------------------------------------------------
(***************************************************************************)
(* The limit and the recently used keys                                    *)
(***************************************************************************)

UsedKeys == {p[2] : p \in recency}

\* The order of the dict is the order of use of its keys, and each entry is the
\* latest one that was put under its key.
OrderOfUse ==
    /\ Linear(recency) /\ IsFiniteSet(UsedKeys)
    /\ order = Within(recency, Held)
    /\ \A k \in Held : entries[k] = latest[k]

\* The inductive invariant of eviction.
UseInv == IsFiniteSet(Held) /\ WithinLimit /\ OrderOfUse /\ RecentlyUsedKept

\* Every key has a number of keys that were used later.
LEMMA LaterUsedCount ==
    ASSUME recency \subseteq Key \X Key, IsFiniteSet(UsedKeys), NEW k
    PROVE  IsFiniteSet(Younger(recency, k)) /\ Cardinality(Younger(recency, k)) \in Nat
<1>1. Younger(recency, k) \in SUBSET UsedKeys
  BY DEF Younger, UsedKeys
<1> QED
  BY <1>1, FS_Subset, FS_CardinalityType

\* A use makes its key the youngest, and no key older than it was.
LEMMA UseCounts ==
    ASSUME recency \subseteq Key \X Key, Linear(recency), IsFiniteSet(UsedKeys),
           NEW k \in Key, Used(k)
    PROVE  /\ Linear(recency') /\ IsFiniteSet(UsedKeys') /\ recency' \subseteq Key \X Key
           /\ Cardinality(Younger(recency', k)) = 0
           /\ \A j \in Key \ {k} :
                 Cardinality(Younger(recency, j)) <= Cardinality(Younger(recency', j))
<1>1. recency' = MovedToEnd(recency, Key, k)
  BY DEF Used
<1>2. Linear(recency') /\ recency' \subseteq Key \X Key
  BY <1>1, MovedToEndLinear, UsedType
<1>3. \A a, b : <<a, b>> \in recency' <=>
         \/ <<a, b>> \in recency /\ a \in Key \ {k} /\ b \in Key \ {k}
         \/ a \in Key \ {k} /\ b = k
  BY <1>1 DEF MovedToEnd, Within
<1>4. IsFiniteSet(UsedKeys')
  <2>1. IsFiniteSet(UsedKeys \cup {k})
    BY FS_AddElement
  <2>2. ASSUME NEW l \in UsedKeys' PROVE l \in UsedKeys \cup {k}
    <3>1. PICK p \in recency' : p[2] = l
      BY DEF UsedKeys
    <3>2. p = <<p[1], p[2]>>
      BY <1>2
    <3>3. <<p[1], l>> \in recency \/ l = k
      BY <1>3, <3>1, <3>2
    <3> QED
      BY <3>3 DEF UsedKeys
  <2> QED
    BY <2>1, <2>2, FS_Subset
<1>5. \A j, l : /\ l \in Younger(recency, j) <=> <<j, l>> \in recency
                /\ l \in Younger(recency', j) <=> <<j, l>> \in recency'
  BY <1>2, YoungerMember
<1>6. Younger(recency', k) = {}
  BY <1>3, <1>5
<1>7. ASSUME NEW j \in Key \ {k}
      PROVE  Cardinality(Younger(recency, j)) <= Cardinality(Younger(recency', j))
  <2>1. ASSUME NEW l \in Younger(recency, j) PROVE l \in Younger(recency', j)
    <3>1. <<j, l>> \in recency
      BY <1>5
    <3>2. l \in Key
      BY <3>1
    <3> QED
      BY <1>3, <1>5, <3>1, <3>2
  <2>2. Younger(recency, j) \in SUBSET Younger(recency', j)
    BY <2>1
  <2>3. Younger(recency', j) \in SUBSET UsedKeys'
    BY DEF Younger, UsedKeys
  <2>4. IsFiniteSet(Younger(recency', j))
    BY <1>4, <2>3, FS_Subset
  <2> QED
    BY <2>2, <2>4, FS_Subset
<1> QED
  BY <1>2, <1>4, <1>6, <1>7, FS_EmptySet

\* Keys go that are expired, were deleted or were not there.
LEMMA UseDrop ==
    ASSUME TypeOK, UseInv, NEW S \in SUBSET Key, Drop(S), UNCHANGED <<now, recency>>,
           \A k \in Key \ S : latest'[k] = latest[k],
           \A k \in S : \/ latest'[k] = Absent
                        \/ latest'[k] = latest[k] /\ (entries[k] = Absent \/ Expired(entries[k]))
    PROVE  UseInv'
<1>1. /\ \A k \in Key : entries'[k] = (IF k \in S THEN Absent ELSE entries[k])
      /\ order' = Within(order, Held \ S)
  BY DropDict DEF DictOK, TypeOK, Drop
<1>2. Held' = Held \ S
  BY <1>1 DEF Held
<1>3. IsFiniteSet(Held') /\ WithinLimit'
  <2>1. IsFiniteSet(Held \ S) /\ Cardinality(Held \ S) <= Cardinality(Held)
    BY FS_Subset DEF UseInv
  <2>2. Cardinality(Held \ S) \in Nat /\ Cardinality(Held) \in Nat
    BY <2>1, FS_CardinalityType DEF UseInv
  <2> QED
    BY <1>2, <2>1, <2>2, MaxItemsAssumption DEF UseInv, WithinLimit
<1>4. OrderOfUse'
  <2>1. order' = Within(recency, Held \ S)
    BY <1>1 DEF UseInv, OrderOfUse, Within
  <2>2. \A k \in Held' : entries'[k] = latest'[k]
    BY <1>1, <1>2 DEF UseInv, OrderOfUse, Held
  <2> QED
    BY <1>2, <2>1, <2>2 DEF UseInv, OrderOfUse, UsedKeys, Linear
<1>5. RecentlyUsedKept'
  <2> SUFFICES ASSUME NEW k \in Key, latest'[k] # Absent, ~Expired(latest[k])',
                      Cardinality(Younger(recency, k)) < MaxItems
               PROVE  entries'[k] = latest'[k]
    BY DEF RecentlyUsedKept
  <2>1. latest'[k] = latest[k] /\ ~Expired(latest[k])
    BY DEF Expired
  <2>2. entries[k] = latest[k] /\ entries[k] # Absent /\ ~Expired(entries[k])
    BY <2>1 DEF UseInv, RecentlyUsedKept
  <2>3. k \notin S
    BY <2>2
  <2> QED
    BY <1>1, <2>1, <2>2, <2>3
<1> QED
  BY <1>3, <1>4, <1>5 DEF UseInv

\* A read of an entry makes it the youngest.
LEMMA UseRead ==
    ASSUME TypeOK, UseInv, NEW k \in Key, entries[k] # Absent, MoveToEnd(k), Used(k),
           UNCHANGED <<now, entries, latest>>
    PROVE  UseInv'
<1>1. Held' = Held /\ k \in Held
  BY DEF Held
<1>2. /\ Linear(recency') /\ IsFiniteSet(UsedKeys')
      /\ \A j \in Key \ {k} :
            Cardinality(Younger(recency, j)) <= Cardinality(Younger(recency', j))
      /\ \A j \in Key : Cardinality(Younger(recency, j)) \in Nat
      /\ \A j \in Key : Cardinality(Younger(recency', j)) \in Nat
  <2>1. recency \subseteq Key \X Key /\ Linear(recency) /\ IsFiniteSet(UsedKeys)
    BY DEF TypeOK, UseInv, OrderOfUse
  <2>2. /\ Linear(recency') /\ IsFiniteSet(UsedKeys') /\ recency' \subseteq Key \X Key
        /\ \A j \in Key \ {k} :
              Cardinality(Younger(recency, j)) <= Cardinality(Younger(recency', j))
    BY <2>1, UseCounts
  <2>3. \A j \in Key : Cardinality(Younger(recency', j)) \in Nat
    <3>1. \A j \in Key : Younger(recency', j) \in SUBSET UsedKeys'
      BY DEF Younger, UsedKeys
    <3> QED
      BY <2>2, <3>1, FS_Subset, FS_CardinalityType
  <2> QED
    BY <2>1, <2>2, <2>3, LaterUsedCount
<1>3. order' = Within(recency', Held)
  <2>1. order' = MovedToEnd(order, Held, k) /\ recency' = MovedToEnd(recency, Key, k)
    BY DEF MoveToEnd, Used
  <2>2. order = Within(recency, Held) /\ Held \subseteq Key
    BY DEF UseInv, OrderOfUse, Held
  <2> QED
    BY <1>1, <2>1, <2>2 DEF MovedToEnd, Within
<1>4. OrderOfUse'
  BY <1>1, <1>2, <1>3 DEF UseInv, OrderOfUse
<1>5. RecentlyUsedKept'
  <2> SUFFICES ASSUME NEW j \in Key, latest[j] # Absent, ~Expired(latest[j]),
                      Cardinality(Younger(recency', j)) < MaxItems
               PROVE  entries[j] = latest[j]
    BY DEF RecentlyUsedKept, Expired
  <2>1. CASE j = k
    BY <1>1, <2>1 DEF UseInv, OrderOfUse
  <2>2. CASE j # k
    <3>1. Cardinality(Younger(recency, j)) < MaxItems
      BY <1>2, <2>2, MaxItemsAssumption
    <3> QED
      BY <3>1 DEF UseInv, RecentlyUsedKept
  <2> QED
    BY <2>1, <2>2
<1> QED
  BY <1>1, <1>4, <1>5 DEF UseInv, WithinLimit

\* What a put does to the dict: the new entry goes in, the oldest ones beyond the
\* limit go out, at most one, and not the new one.
LEMMA PutEvicts ==
    ASSUME TypeOK, UseInv, NEW t \in Thread, FinishPut(t)
    PROVE  LET p    == pending[t]
               new  == [value |-> p.value, expires_at |-> p.expires_at]
               all  == Held \cup {p.key}
               ord  == MovedToEnd(order, all, p.key)
               gone == Evicted(ord, all)
           IN  /\ p \in Waiting /\ p.key \in Key /\ new \in Entry /\ new # Absent
               /\ IsFiniteSet(all) /\ Orders(ord, all) /\ Linear(ord)
               /\ ord = Within(recency', all) /\ Used(p.key)
               /\ entries' = [k \in Key |-> CASE k \in gone -> Absent
                                              [] k = p.key /\ k \notin gone -> new
                                              [] OTHER -> entries[k]]
               /\ order' = Within(ord, all \ gone)
               /\ latest' = [latest EXCEPT ![p.key] = new]
               /\ Held' = all \ gone /\ gone \in SUBSET all
               /\ p.key \notin gone
               /\ \A x, y \in gone : x = y
<1> DEFINE p    == pending[t]
           new  == [value |-> p.value, expires_at |-> p.expires_at]
           all  == Held \cup {p.key}
           ord  == MovedToEnd(order, all, p.key)
           gone == Evicted(ord, all)
<1>1. p \in Waiting /\ p.key \in Key
  BY DEF TypeOK, FinishPut, Waiting
<1>2. new \in Entry /\ new # Absent
  BY <1>1, PutEntry, AbsentAssumption
<1>3. /\ entries' = [k \in Key |-> CASE k \in gone -> Absent
                                     [] k = p.key /\ k \notin gone -> new
                                     [] OTHER -> entries[k]]
      /\ order' = Within(ord, all \ gone)
      /\ latest' = [latest EXCEPT ![p.key] = new]
      /\ Used(p.key)
  BY DEF FinishPut
<1>4. IsFiniteSet(all) /\ Cardinality(all) <= MaxItems + 1
  <2>1. IsFiniteSet(Held) /\ Cardinality(Held) <= MaxItems /\ Cardinality(Held) \in Nat
    BY FS_CardinalityType DEF UseInv, WithinLimit
  <2>2. /\ IsFiniteSet(all)
        /\ Cardinality(all) = Cardinality(Held) \/ Cardinality(all) = Cardinality(Held) + 1
    BY <2>1, FS_AddElement
  <2> HIDE DEF all
  <2> QED
    BY <2>1, <2>2, MaxItemsAssumption
<1>5. Orders(ord, all)
  <2>1. Orders(order, all) \/ Orders(order, all \ {p.key})
    <3>1. CASE p.key \in Held
      BY <3>1 DEF TypeOK, Orders
    <3>2. CASE p.key \notin Held
      BY <3>2 DEF TypeOK, Orders
    <3> QED
      BY <3>1, <3>2
  <2> QED
    BY <2>1, MovedToEndOrders
<1>6. Linear(ord)
  BY WithinLinear, MovedToEndLinear DEF UseInv, OrderOfUse
<1>7. ord = Within(recency', all)
  <2>1. recency' = MovedToEnd(recency, Key, p.key)
    BY <1>3 DEF Used
  <2>2. order = Within(recency, Held) /\ all \subseteq Key
    BY <1>1 DEF UseInv, OrderOfUse, Held
  <2> QED
    BY <2>1, <2>2 DEF MovedToEnd, Within
<1>8. p.key \notin gone
  <2>1. ord \in SUBSET (all \X all)
    BY <1>5 DEF Orders
  <2>2. \A l : l \in Younger(ord, p.key) <=> <<p.key, l>> \in ord
    BY <2>1, YoungerMember
  <2>3. \A l : <<p.key, l>> \notin ord
    BY DEF MovedToEnd, Within
  <2>4. Younger(ord, p.key) = {}
    BY <2>2, <2>3
  <2>5. Cardinality(Younger(ord, p.key)) = 0
    BY <2>4, FS_EmptySet
  <2> QED
    BY <2>5, MaxItemsAssumption DEF Evicted
<1>9. \A x, y \in gone : x = y
  BY <1>4, <1>5, <1>6, OneEvicted
<1>10. gone \in SUBSET all
  BY DEF Evicted
<1> HIDE DEF new, ord, gone
<1>11. Held' = all \ gone
  <2>1. Held' \subseteq Key /\ all \subseteq Key
    BY <1>1 DEF Held
  <2>2. ASSUME NEW k \in Key
        PROVE  k \in Held' <=> k \in all \ gone
    BY <1>1, <1>2, <1>3, <1>8 DEF Held
  <2> QED
    BY <2>1, <2>2
<1> QED
  BY <1>1, <1>2, <1>3, <1>4, <1>5, <1>6, <1>7, <1>8, <1>9, <1>10, <1>11 DEF new, ord, gone

\* A put keeps the limit, and evicts no key that was used recently.
LEMMA UsePut ==
    ASSUME TypeOK, UseInv, NEW t \in Thread, FinishPut(t)
    PROVE  UseInv'
<1> DEFINE p    == pending[t]
           new  == [value |-> p.value, expires_at |-> p.expires_at]
           all  == Held \cup {p.key}
           ord  == MovedToEnd(order, all, p.key)
           gone == Evicted(ord, all)
<1>1. /\ p.key \in Key /\ new # Absent
      /\ IsFiniteSet(all) /\ Orders(ord, all) /\ Linear(ord)
      /\ ord = Within(recency', all) /\ Used(p.key)
      /\ entries' = [k \in Key |-> CASE k \in gone -> Absent
                                     [] k = p.key /\ k \notin gone -> new
                                     [] OTHER -> entries[k]]
      /\ order' = Within(ord, all \ gone)
      /\ latest' = [latest EXCEPT ![p.key] = new]
      /\ Held' = all \ gone /\ p.key \notin gone
  BY PutEvicts
<1>2. /\ recency' \subseteq Key \X Key /\ Linear(recency') /\ IsFiniteSet(UsedKeys')
      /\ \A j \in Key \ {p.key} :
            Cardinality(Younger(recency, j)) <= Cardinality(Younger(recency', j))
      /\ \A j \in Key : Cardinality(Younger(recency, j)) \in Nat
      /\ \A j \in Key : IsFiniteSet(Younger(recency', j))
      /\ \A j \in Key : Cardinality(Younger(recency', j)) \in Nat
  <2>1. recency \subseteq Key \X Key /\ Linear(recency) /\ IsFiniteSet(UsedKeys)
    BY DEF TypeOK, UseInv, OrderOfUse
  <2>2. /\ Linear(recency') /\ IsFiniteSet(UsedKeys') /\ recency' \subseteq Key \X Key
        /\ \A j \in Key \ {p.key} :
              Cardinality(Younger(recency, j)) <= Cardinality(Younger(recency', j))
    BY <1>1, <2>1, UseCounts
  <2>3. \A j \in Key : Younger(recency', j) \in SUBSET UsedKeys'
    BY DEF Younger, UsedKeys
  <2>4. \A j \in Key : IsFiniteSet(Younger(recency', j))
                       /\ Cardinality(Younger(recency', j)) \in Nat
    BY <2>2, <2>3, FS_Subset, FS_CardinalityType
  <2> QED
    BY <2>1, <2>2, <2>4, LaterUsedCount
<1>3. IsFiniteSet(Held') /\ WithinLimit'
  BY <1>1, KeptWithinLimit DEF WithinLimit
<1>4. latest \in [Key -> Entry \cup {Absent}]
  BY DEF TypeOK
<1> HIDE DEF new
<1>5. OrderOfUse'
  <2>1. order' = Within(recency', Held')
    BY <1>1 DEF Within
  <2>2. \A k \in Held' : entries'[k] = latest'[k]
    BY <1>1, <1>4 DEF UseInv, OrderOfUse, Held
  <2> QED
    BY <1>2, <2>1, <2>2 DEF OrderOfUse
<1>6. RecentlyUsedKept'
  <2> SUFFICES ASSUME NEW j \in Key, latest'[j] # Absent, ~Expired(latest[j])',
                      Cardinality(Younger(recency', j)) < MaxItems
               PROVE  entries'[j] = latest'[j]
    BY DEF RecentlyUsedKept
  <2>1. CASE j = p.key
    BY <1>1, <1>4, <2>1
  <2>2. CASE j # p.key
    <3>1. Cardinality(Younger(recency, j)) < MaxItems
      BY <1>2, <2>2, MaxItemsAssumption
    <3>2. latest'[j] = latest[j] /\ ~Expired(latest[j])
      <4>1. latest'[j] = latest[j] /\ now' = now
        BY <1>1, <1>4, <2>2 DEF FinishPut
      <4> QED
        BY <4>1 DEF Expired
    <3>3. entries[j] = latest[j] /\ j \in all
      BY <3>1, <3>2 DEF UseInv, RecentlyUsedKept, Held
    <3>4. j \notin gone
      <4>1. ord \in SUBSET (all \X all)
        BY <1>1 DEF Orders
      <4>2. \A l : l \in Younger(ord, j) <=> <<j, l>> \in ord
        BY <4>1, YoungerMember
      <4>3. \A l : l \in Younger(recency', j) <=> <<j, l>> \in recency'
        BY <1>2, YoungerMember
      <4>4. Younger(ord, j) \in SUBSET Younger(recency', j)
        BY <1>1, <4>2, <4>3 DEF Within
      <4>5. Cardinality(Younger(ord, j)) <= Cardinality(Younger(recency', j))
            /\ IsFiniteSet(Younger(ord, j))
        BY <1>2, <4>4, FS_Subset
      <4>6. Cardinality(Younger(ord, j)) \in Nat
        BY <4>5, FS_CardinalityType
      <4>7. ~(Cardinality(Younger(ord, j)) >= MaxItems)
        BY <1>2, <4>5, <4>6, MaxItemsAssumption
      <4> QED
        BY <4>7 DEF Evicted
    <3> QED
      BY <1>1, <2>2, <3>2, <3>3, <3>4
  <2> QED
    BY <2>1, <2>2
<1> QED
  BY <1>3, <1>5, <1>6 DEF UseInv

\* Time passes: what is readable later is readable now.
LEMMA UseTick ==
    ASSUME TypeOK, UseInv, Tick
    PROVE  UseInv'
<1>1. now' = now + 1 /\ now \in Nat /\ UNCHANGED <<entries, order, recency, latest>>
  BY BoundsAssumption DEF Tick, TypeOK
<1>2. ASSUME NEW k \in Key, ~Expired(latest[k])', latest[k] # Absent
      PROVE  ~Expired(latest[k])
  <2>1. latest[k].expires_at \in Nat \cup {Never}
    BY <1>2 DEF TypeOK, Entry
  <2> QED
    BY <1>1, <1>2, <2>1, NeverAssumption DEF Expired
<1>3. RecentlyUsedKept'
  BY <1>1, <1>2 DEF UseInv, RecentlyUsedKept
<1> QED
  BY <1>1, <1>3 DEF UseInv, WithinLimit, OrderOfUse, Held, UsedKeys

\* Every step keeps it.
LEMMA UseNext == TypeOK /\ UseInv /\ [Next]_vars => UseInv'
<1> SUFFICES ASSUME TypeOK, UseInv, [Next]_vars PROVE UseInv'
  OBVIOUS
<1>1. ASSUME UNCHANGED <<now, entries, order, recency, latest>>
      PROVE  UseInv'
  BY <1>1 DEF UseInv, WithinLimit, OrderOfUse, RecentlyUsedKept, Held, UsedKeys, Expired
<1>2. ASSUME NEW k \in Key, Get(k) PROVE UseInv'
  <2>1. CASE entries[k] # Absent /\ MoveToEnd(k) /\ Used(k) /\ UNCHANGED entries
    BY <1>2, <2>1, UseRead DEF Get
  <2>2. CASE (entries[k] = Absent \/ Expired(entries[k])) /\ Drop({k}) /\ UNCHANGED recency
    BY <1>2, <2>2, UseDrop DEF Get
  <2> QED
    BY <1>2, <2>1, <2>2 DEF Get
<1>3. ASSUME NEW k \in Key, Delete(k) PROVE UseInv'
  <2>1. latest' = [latest EXCEPT ![k] = Absent] /\ latest \in [Key -> Entry \cup {Absent}]
    BY <1>3 DEF Delete, TypeOK
  <2>2. latest'[k] = Absent /\ \A j \in Key \ {k} : latest'[j] = latest[j]
    BY <2>1
  <2> QED
    BY <1>3, <2>2, UseDrop DEF Delete
<1>4. ASSUME Clear PROVE UseInv'
  BY <1>4, UseDrop DEF Clear, Nowhere
<1>5. ASSUME Snapshot PROVE UseInv'
  BY <1>5, UseDrop DEF Snapshot
<1>6. ASSUME Cleanup PROVE UseInv'
  <2> DEFINE due == {r \in heap : now >= r.expires_at}
  <2>1. Drop(Reclaimed(due)) /\ UNCHANGED <<now, recency, latest>>
    BY <1>6 DEF Cleanup
  <2>2. Reclaimed(due) \in SUBSET Key /\ \A k \in Reclaimed(due) : Expired(entries[k])
    BY DEF Reclaimed, TypeOK
  <2> QED
    BY <2>1, <2>2, UseDrop
<1>7. Tick => UseInv'
  BY UseTick
<1>8. ASSUME NEW t \in Thread, NEW k \in Key, NEW v \in Value, NEW ttl \in Ttl,
             BeginPut(t, k, v, ttl)
      PROVE  UseInv'
  BY <1>1, <1>8 DEF BeginPut
<1>9. UNCHANGED vars => UseInv'
  BY <1>1 DEF vars
<1>10. ASSUME NEW k \in Key, PutExpired(k) PROVE UseInv'
  <2>1. latest' = [latest EXCEPT ![k] = Absent] /\ latest \in [Key -> Entry \cup {Absent}]
    BY <1>10 DEF PutExpired, TypeOK
  <2>2. latest'[k] = Absent /\ \A j \in Key \ {k} : latest'[j] = latest[j]
    BY <2>1
  <2> QED
    BY <1>10, <2>2, UseDrop DEF PutExpired
<1> QED
  BY <1>2, <1>3, <1>4, <1>5, <1>6, <1>7, <1>8, <1>9, <1>10, UsePut DEF Next

\* The empty store satisfies it, so it holds throughout.
LEMMA UseInvAlways == Spec => [](TypeOK /\ UseInv)
<1>1. Init => UseInv
  <2> SUFFICES ASSUME Init PROVE UseInv
    OBVIOUS
  <2>1. Held = {} /\ UsedKeys = {} /\ recency = {} /\ order = {}
    BY DEF Init, Held, Nowhere, UsedKeys
  <2>2. \A k \in Key : latest[k] = Absent
    BY DEF Init, Nowhere
  <2> QED
    BY <2>1, <2>2, FS_EmptySet, MaxItemsAssumption
    DEF UseInv, WithinLimit, OrderOfUse, RecentlyUsedKept, Linear, Within
<1> QED
  BY <1>1, TypeInit, TypeNext, UseNext, PTL DEF Spec

\* The store never holds more than max_items entries, whatever the threads put,
\* read and delete and however the cleanup thread runs.
THEOREM AlwaysWithinLimit == Spec => []WithinLimit
<1>1. UseInv => WithinLimit
  BY DEF UseInv
<1> QED
  BY <1>1, UseInvAlways, PTL

\* Eviction never takes a key that was used recently.
THEOREM RecentlyUsedAlwaysKept == Spec => []RecentlyUsedKept
<1>1. UseInv => RecentlyUsedKept
  BY DEF UseInv
<1> QED
  BY <1>1, UseInvAlways, PTL

-----------------------------------------------------------------------------
(***************************************************************************)
(* To its callers the store is a forgetful map                             *)
(***************************************************************************)

\* Entries that go when they are expired, or were not there, do not show.
LEMMA DropUnseen ==
    ASSUME TypeOK, NEW S \in SUBSET Key, Drop(S), UNCHANGED now,
           \A k \in S : entries[k] = Absent \/ Expired(entries[k])
    PROVE  Readable' = Readable
<1>1. \A k \in Key : entries'[k] = (IF k \in S THEN Absent ELSE entries[k])
  BY DropDict DEF DictOK, TypeOK
<1>2. ASSUME NEW k \in Key
      PROVE  (IF Expired(entries[k])' THEN Absent ELSE entries'[k])
                = (IF Expired(entries[k]) THEN Absent ELSE entries[k])
  <2>1. CASE k \in S
    BY <1>1, <2>1 DEF Expired
  <2>2. CASE k \notin S
    BY <1>1, <2>2 DEF Expired
  <2> QED
    BY <2>1, <2>2
<1> QED
  BY <1>2 DEF Readable

\* Storing shows as the new entry, and as one key forgotten at most.
LEMMA PromisePut ==
    ASSUME TypeOK, UseInv, NEW t \in Thread, FinishPut(t)
    PROVE  Promise!FinishPut(t)
<1> DEFINE p    == pending[t]
           new  == [value |-> p.value, expires_at |-> p.expires_at]
           all  == Held \cup {p.key}
           ord  == MovedToEnd(order, all, p.key)
           gone == Evicted(ord, all)
<1>1. /\ p.key \in Key /\ new # Absent
      /\ IsFiniteSet(all)
      /\ entries' = [k \in Key |-> CASE k \in gone -> Absent
                                     [] k = p.key /\ k \notin gone -> new
                                     [] OTHER -> entries[k]]
      /\ gone \in SUBSET all /\ p.key \notin gone
      /\ \A x, y \in gone : x = y
  BY PutEvicts
<1>2. /\ pending[t] # Absent /\ pending' = [pending EXCEPT ![t] = Absent]
      /\ reply' = Nowhere /\ now' = now
  BY DEF FinishPut
<1>3. gone \in SUBSET (Key \ {p.key})
  BY <1>1 DEF Held
<1>4. Promise!Cardinality(gone) <= 1
  <2>1. gone = {} \/ \E x \in gone : gone = {x}
    <3> HIDE DEF gone
    <3> QED
      BY <1>1
  <2>2. Cardinality(gone) <= 1
    <3> HIDE DEF gone
    <3>1. CASE gone = {}
      BY <3>1, FS_EmptySet
    <3>2. ASSUME NEW x, gone = {x} PROVE Cardinality(gone) <= 1
      <4>1. Cardinality({x}) = 1
        BY FS_Singleton
      <4> QED
        BY <3>2, <4>1
    <3> QED
      BY <2>1, <3>1, <3>2
  <2> QED
    BY <2>2 DEF Promise!Cardinality, Cardinality
<1> HIDE DEF new, gone
<1> DEFINE left == [k \in Key |-> CASE k = p.key -> new
                                    [] k \in gone -> Absent
                                    [] OTHER -> Readable[k]]
<1>5. ASSUME NEW k \in Key
      PROVE  (IF Expired(entries[k])' THEN Absent ELSE entries'[k])
                = (IF Promise!ExpiredAt(now, left[k]) THEN Absent ELSE left[k])
  <2>1. CASE k = p.key
    <3>1. entries'[k] = new /\ left[k] = new
      BY <1>1, <2>1
    <3> QED
      BY <1>2, <3>1 DEF Expired, Promise!ExpiredAt
  <2>2. CASE k \in gone
    <3>1. entries'[k] = Absent /\ left[k] = Absent
      BY <1>1, <2>2
    <3> QED
      BY <3>1 DEF Expired, Promise!ExpiredAt
  <2>3. CASE k # p.key /\ k \notin gone
    <3>1. entries'[k] = entries[k] /\ left[k] = Readable[k]
      BY <1>1, <2>3
    <3> QED
      BY <1>2, <3>1 DEF Expired, Promise!ExpiredAt, Readable
  <2> QED
    BY <2>1, <2>2, <2>3
<1>6. Readable' = Promise!ReadableAt(now, left)
  <2> HIDE DEF left
  <2> QED
    BY <1>5 DEF Readable, Promise!ReadableAt
<1> QED
  BY <1>2, <1>3, <1>4, <1>6 DEF Promise!FinishPut, Promise!NoReply, Nowhere, new

\* Time shows as entries that vanish.
LEMMA PromiseTick ==
    ASSUME TypeOK, Tick
    PROVE  Promise!Tick
<1>1. now' = now + 1 /\ now \in Nat /\ UNCHANGED <<entries, pending, reply>>
  BY BoundsAssumption DEF Tick, TypeOK
<1>2. ASSUME NEW k \in Key
      PROVE  (IF Expired(entries[k])' THEN Absent ELSE entries'[k])
                = (IF Promise!ExpiredAt(now', Readable[k]) THEN Absent ELSE Readable[k])
  <2>1. entries[k] = Absent \/ entries[k].expires_at \in Nat \cup {Never}
    BY DEF TypeOK, Entry
  <2> QED
    BY <1>1, <2>1, NeverAssumption DEF Expired, Promise!ExpiredAt, Readable
<1>3. Readable' = Promise!ReadableAt(now', Readable)
  BY <1>2 DEF Readable, Promise!ReadableAt
<1> QED
  BY <1>1, <1>3 DEF Promise!Tick

\* A read answers what is readable.
LEMMA PromiseGet ==
    ASSUME TypeOK, NEW k \in Key, Get(k)
    PROVE  Promise!Get(k)
<1>1. UNCHANGED <<now, pending>>
  BY DEF Get
<1>2. CASE entries[k] # Absent /\ ~Expired(entries[k]) /\ UNCHANGED entries
           /\ reply' = Answer(k, entries[k].value)
  <2>1. Readable' = Readable
    BY <1>1, <1>2 DEF Readable, Expired
  <2>2. Promise!Values(Readable)[k] = entries[k].value
    BY <1>2 DEF Promise!Values, Readable
  <2> QED
    BY <1>1, <1>2, <2>1, <2>2 DEF Promise!Get, Promise!NoReply, Answer, Nowhere
<1>3. CASE (entries[k] = Absent \/ Expired(entries[k])) /\ Drop({k}) /\ reply' = Nowhere
  <2>1. Readable' = Readable
    BY <1>1, <1>3, DropUnseen
  <2>2. Promise!Values(Readable)[k] = Absent
    BY <1>3 DEF Promise!Values, Readable, Expired
  <2>3. [Promise!NoReply EXCEPT ![k] = Absent] = Nowhere
    BY DEF Promise!NoReply, Nowhere
  <2> QED
    BY <1>1, <1>3, <2>1, <2>2, <2>3 DEF Promise!Get
<1> QED
  BY <1>2, <1>3 DEF Get

\* A key that is taken out shows as absent, the others as before.
LEMMA DropShows ==
    ASSUME TypeOK, NEW k \in Key, Drop({k}), UNCHANGED now
    PROVE  Readable' = [Readable EXCEPT ![k] = Absent]
<1>1. \A j \in Key : entries'[j] = (IF j = k THEN Absent ELSE entries[j])
  BY DropDict DEF DictOK, TypeOK
<1>2. ASSUME NEW j \in Key
      PROVE  (IF Expired(entries[j])' THEN Absent ELSE entries'[j])
                = (IF j = k THEN Absent ELSE Readable[j])
  BY <1>1 DEF Expired, Readable
<1> QED
  BY <1>2 DEF Readable

\* A deletion answers what was there, readable or not.
LEMMA PromiseDelete ==
    ASSUME TypeOK, NEW k \in Key, Delete(k)
    PROVE  Promise!Delete(k)
<1> DEFINE removed == IF entries[k] = Absent THEN Absent ELSE entries[k].value
<1>1. UNCHANGED <<now, pending>> /\ Drop({k})
  BY DEF Delete
<1>3. Readable' = [Readable EXCEPT ![k] = Absent]
  BY <1>1, DropShows
<1>4. removed \in Value \cup {Absent}
  BY DEF TypeOK, Entry
<1>5. Readable[k] # Absent => removed = Readable[k].value
  BY DEF Readable
<1>6. reply' = [Promise!NoReply EXCEPT ![k] = removed]
  <2>1. CASE entries[k] = Absent
    <3>1. [Promise!NoReply EXCEPT ![k] = Absent] = Nowhere
      BY DEF Promise!NoReply, Nowhere
    <3> QED
      BY <2>1, <3>1 DEF Delete
  <2>2. CASE entries[k] # Absent
    BY <2>2 DEF Delete, Answer, Promise!NoReply, Nowhere
  <2> QED
    BY <2>1, <2>2
<1> HIDE DEF removed
<1> QED
  BY <1>1, <1>3, <1>4, <1>5, <1>6 DEF Promise!Delete

\* Every step of the store is a step of the map, or none.
LEMMA PromiseNext == TypeOK /\ UseInv /\ [Next]_vars => [Promise!Next]_(Promise!vars)
<1> SUFFICES ASSUME TypeOK, UseInv, [Next]_vars PROVE [Promise!Next]_(Promise!vars)
  OBVIOUS
<1>1. ASSUME NEW t \in Thread, NEW k \in Key, NEW v \in Value, NEW ttl \in Ttl,
             BeginPut(t, k, v, ttl)
      PROVE  Promise!Next
  <2>1. Readable' = Readable
    BY <1>1 DEF BeginPut, Readable, Expired
  <2>2. Promise!BeginPut(t, k, v, ttl)
    BY <1>1, <2>1 DEF BeginPut, Promise!BeginPut, Promise!DeadlineAt
  <2> QED
    BY <2>2 DEF Promise!Next
<1>2. ASSUME NEW t \in Thread, FinishPut(t) PROVE Promise!Next
  BY <1>2, PromisePut DEF Promise!Next
<1>3. ASSUME NEW k \in Key, Get(k) PROVE Promise!Next
  BY <1>3, PromiseGet DEF Promise!Next
<1>4. ASSUME NEW k \in Key, Delete(k) PROVE Promise!Next
  BY <1>4, PromiseDelete DEF Promise!Next
<1>5. ASSUME Clear PROVE Promise!Next
  <2>1. \A k \in Key : entries'[k] = Absent
    BY <1>5, DropDict DEF Clear, DictOK, TypeOK
  <2>2. Readable' = Promise!Nowhere
    BY <2>1 DEF Readable, Expired, Promise!Nowhere
  <2>3. Promise!Clear
    BY <1>5, <2>2 DEF Clear, Promise!Clear, Promise!NoReply, Nowhere
  <2> QED
    BY <2>3 DEF Promise!Next
<1>6. ASSUME Snapshot PROVE Promise!Next
  <2>1. Readable' = Readable
    BY <1>6, DropUnseen DEF Snapshot
  <2>2. Promise!Snapshot
    BY <1>6, <2>1 DEF Snapshot, Promise!Snapshot, Promise!Values
  <2> QED
    BY <2>2 DEF Promise!Next
<1>7. ASSUME Cleanup PROVE UNCHANGED Promise!vars
  <2> DEFINE due == {r \in heap : now >= r.expires_at}
  <2>1. Drop(Reclaimed(due)) /\ UNCHANGED <<now, pending, reply>>
    BY <1>7 DEF Cleanup
  <2>2. Reclaimed(due) \in SUBSET Key /\ \A k \in Reclaimed(due) : Expired(entries[k])
    BY DEF Reclaimed, TypeOK
  <2>3. Readable' = Readable
    BY <2>1, <2>2, DropUnseen
  <2> QED
    BY <2>1, <2>3 DEF Promise!vars
<1>8. ASSUME Tick PROVE Promise!Next
  BY <1>8, PromiseTick DEF Promise!Next
<1>9. ASSUME UNCHANGED vars PROVE UNCHANGED Promise!vars
  BY <1>9 DEF vars, Promise!vars, Readable, Expired
<1>10. ASSUME NEW k \in Key, PutExpired(k) PROVE Promise!Next
  <2>1. Readable' = [Readable EXCEPT ![k] = Absent]
    BY <1>10, DropShows DEF PutExpired
  <2>2. Promise!PutExpired(k)
    BY <1>10, <2>1 DEF PutExpired, Promise!PutExpired, Promise!NoReply, Nowhere
  <2> QED
    BY <2>2 DEF Promise!Next
<1> QED
  BY <1>1, <1>2, <1>3, <1>4, <1>5, <1>6, <1>7, <1>8, <1>9, <1>10 DEF Next

\* For any keys, limits, threads and times to live the store implements the map
\* that forgets at deadlines and, one key at a time, at puts.
THEOREM StoreImplementsForgetfulMap == Spec => ImplementsForgetfulMap
<1>1. Init => Promise!Init
  <2> SUFFICES ASSUME Init PROVE Promise!Init
    OBVIOUS
  <2>1. Readable = Promise!Nowhere
    BY DEF Init, Readable, Expired, Nowhere, Promise!Nowhere
  <2> QED
    BY <2>1 DEF Init, Promise!Init, Promise!NoReply, Nowhere
<1> QED
  BY <1>1, PromiseNext, UseInvAlways, PTL DEF Spec, ImplementsForgetfulMap, Promise!Spec

=============================================================================
