----------------------- MODULE CompressionStoreProofs -----------------------
(***************************************************************************)
(* Proofs about CompressionStore, for every set of keys, contents and      *)
(* threads, every cap and every bound.                                     *)
(***************************************************************************)
EXTENDS CompressionStore, FiniteSetTheorems, TLAPS

-----------------------------------------------------------------------------
(* Finite sets and the heap's helpers *)

\* A set in bijection with a finite set has its cardinality (stated for the
\* function that witnesses the bijection).
LEMMA BijectionCardinality ==
    ASSUME NEW S, NEW T, IsFiniteSet(S), NEW f \in [S -> T],
           \A x, y \in S : f[x] = f[y] => x = y,
           \A y \in T : \E x \in S : f[x] = y
    PROVE  IsFiniteSet(T) /\ Cardinality(T) = Cardinality(S)
<1>1. f \in Bijection(S, T)
  BY DEF Bijection, Injection, Surjection, IsInjective
<1>2. ExistsBijection(S, T)
  BY <1>1 DEF ExistsBijection
<1>. QED
  BY <1>2, FS_Bijection

\* Push finds an unused copy number: the heap is too small to hold them all.
LEMMA FreshCopy ==
    ASSUME NEW h, IsFiniteSet(h), NEW c, NEW k
    PROVE  Fresh(h, c, k) \in Nat /\ Tuple(c, k, Fresh(h, c, k)) \notin h
<1>. DEFINE N == 0..Cardinality(h)
            T == {Tuple(c, k, n) : n \in N}
            f == [n \in N |-> Tuple(c, k, n)]
<1>1. Cardinality(h) \in Nat
  BY FS_CardinalityType
<1>2. IsFiniteSet(N) /\ Cardinality(N) = Cardinality(h) + 1
  BY <1>1, FS_Interval
<1>3. IsFiniteSet(T) /\ Cardinality(T) = Cardinality(N)
  <2>1. f \in [N -> T]
    OBVIOUS
  <2>2. \A x, y \in N : f[x] = f[y] => x = y
    BY DEF Tuple
  <2>3. \A y \in T : \E x \in N : f[x] = y
    OBVIOUS
  <2>. HIDE DEF N, T, f
  <2>. QED
    BY <1>2, <2>1, <2>2, <2>3, BijectionCardinality
<1>4. \E n \in N : Tuple(c, k, n) \notin h
  <2>1. SUFFICES ASSUME T \subseteq h PROVE FALSE
    OBVIOUS
  <2>2. Cardinality(T) <= Cardinality(h)
    BY <2>1, FS_Subset
  <2>. QED
    BY <1>1, <1>2, <1>3, <2>2
<1>5. Fresh(h, c, k) \in N /\ Tuple(c, k, Fresh(h, c, k)) \notin h
  BY <1>4 DEF Fresh
<1>. QED
  BY <1>1, <1>5

Tier == [Keys -> Entry \cup {None}]

\* A rebuilt heap has one tuple per live entry, and only well-formed ones.
LEMMA IndexFacts ==
    ASSUME NEW f \in Tier, NEW m \in Tier
    PROVE  /\ Index(f, m) \subseteq HeapTuple
           /\ IsFiniteSet(PresentIn(f, m))
           /\ IsFiniteSet(Index(f, m))
           /\ Cardinality(Index(f, m)) = Cardinality(PresentIn(f, m))
<1>. DEFINE S == PresentIn(f, m)
            T == Index(f, m)
            g == [k \in S |-> Tuple(Lookup(f, m, k).created, k, 0)]
<1>1. IsFiniteSet(S)
  BY StoreAssumption, FS_Subset DEF PresentIn
<1>2. T \subseteq HeapTuple
  BY DEF Index, PresentIn, Tier, Lookup, Tuple, HeapTuple, Entry
<1>3. g \in [S -> T]
  BY DEF Index
<1>4. \A x, y \in S : g[x] = g[y] => x = y
  BY DEF Tuple
<1>5. \A y \in T : \E x \in S : g[x] = y
  BY DEF Index
<1>. HIDE DEF S, T, g
<1>6. IsFiniteSet(T) /\ Cardinality(T) = Cardinality(S)
  BY <1>1, <1>3, <1>4, <1>5, BijectionCardinality
<1>. QED
  BY <1>1, <1>2, <1>6 DEF S, T

-----------------------------------------------------------------------------
(* The tiers stay tiers *)

LEMMA WriteType ==
    ASSUME TypeOK, NEW k \in Keys, NEW e \in Entry, NEW ok, Write(k, e, ok)
    PROVE  file' \in Tier /\ memory' \in Tier /\ Lookup(file', memory', k) \in Entry
BY StoreAssumption DEF TypeOK, Write, Tier, Lookup

LEMMA EraseType ==
    ASSUME TypeOK, NEW k \in Keys, NEW ok, Erase(k, ok)
    PROVE  file' \in Tier /\ memory' \in Tier
BY DEF TypeOK, Erase, Tier

LEMMA PurgeType ==
    ASSUME TypeOK, NEW ok, PurgeExpired(ok)
    PROVE  file' \in Tier /\ memory' \in Tier
BY DEF TypeOK, PurgeExpired, Without, Tier

LEMMA PurgedNat ==
    ASSUME TypeOK, NEW ok
    PROVE  Purged(ok) \in Nat
<1>1. IsFiniteSet(PurgedRows(ok)) /\ IsFiniteSet(ExpiredIn(memory))
  <2>1. PurgedRows(ok) \subseteq Keys /\ ExpiredIn(memory) \subseteq Keys
    BY DEF PurgedRows, ExpiredIn
  <2>. QED
    BY <2>1, StoreAssumption, FS_Subset
<1>. QED
  BY <1>1, FS_CardinalityType DEF Purged

LEMMA UntilNat ==
    ASSUME NEW e \in Entry
    PROVE  Until(e) \in Nat
<1>1. e.created \in Times /\ e.ttl \in Ttls
  BY DEF Entry
<1>2. MaxTime \in Nat /\ Ttls \subseteq Nat
  BY StoreAssumption
<1>3. e.created \in 0..MaxTime
  BY <1>1 DEF Times
<1>4. e.created \in Nat
  BY <1>2, <1>3
<1>5. e.ttl \in Nat
  BY <1>1, <1>2
<1>. QED
  BY <1>4, <1>5 DEF Until

\* Shipping or rewindowing a marker keeps the promises well formed.
LEMMA RewindowType ==
    ASSUME TypeOK, NEW k \in Keys, Lookup(file', memory', k) \in Entry
    PROVE  Rewindow(k) \in Promise \cup {None}
BY UntilNat DEF Rewindow, TypeOK, Promise, StillDurable

LEMMA ShipType ==
    ASSUME TypeOK, NEW t \in Threads, call[t] # None, Ship(t),
           Lookup(file', memory', KeyOf[call[t].entry.content]) \in Entry
    PROVE  shipped' \in SUBSET (Keys \X Contents) /\ promise' \in [Keys -> Promise \cup {None}]
<1>. DEFINE e == call[t].entry
            k == KeyOf[e.content]
<1>1. e \in Entry /\ k \in Keys /\ e.content \in Contents
  BY StoreAssumption DEF TypeOK, Call, Entry
<1>2. Until(Lookup(file', memory', k)) \in Nat
  BY UntilNat
<1>3. ((Durable /\ call[t].requireDurable) \/ StillDurable(k)) \in BOOLEAN
  OBVIOUS
<1>4. [content |-> e.content, until |-> Until(Lookup(file', memory', k)),
       durable |-> (Durable /\ call[t].requireDurable) \/ StillDurable(k)] \in Promise
  BY <1>1, <1>2, <1>3 DEF Promise
<1>. QED
  BY <1>1, <1>4 DEF Ship, TypeOK

LEMMA PushType ==
    ASSUME heap \in SUBSET HeapTuple, IsFiniteSet(heap), NEW c \in Times, NEW k \in Keys
    PROVE  Push(heap, c, k) \in SUBSET HeapTuple /\ IsFiniteSet(Push(heap, c, k))
<1>1. Tuple(c, k, Fresh(heap, c, k)) \in HeapTuple
  BY FreshCopy DEF Tuple, HeapTuple
<1>. QED
  BY <1>1, FS_AddElement DEF Push

-----------------------------------------------------------------------------
(* Type correctness *)

IType == TypeOK /\ IsFiniteSet(heap)

LEMMA TypeInit == Init => IType
<1>1. 0 \in Times
  BY StoreAssumption DEF Times
<1>2. IsFiniteSet({})
  BY FS_EmptySet
<1>3. ASSUME Init PROVE TypeOK
  <2>1. now \in Times /\ stale \in Nat /\ rebuilt \in BOOLEAN
    BY <1>1, <1>3 DEF Init
  <2>2. heap \in SUBSET HeapTuple /\ shipped \in SUBSET (Keys \X Contents)
    BY <1>3 DEF Init
  <2>3. /\ file \in [Keys -> Entry \cup {None}]
        /\ memory \in [Keys -> Entry \cup {None}]
        /\ spill \in [Keys -> Entry \cup {None}]
    BY <1>3 DEF Init
  <2>4. call \in [Threads -> Call \cup {None}] /\ promise \in [Keys -> Promise \cup {None}]
    BY <1>3 DEF Init
  <2>. QED
    BY <2>1, <2>2, <2>3, <2>4 DEF TypeOK
<1>. QED
  BY <1>2, <1>3 DEF Init, IType

\* The entry of a call in progress, and its key.
LEMMA CallType ==
    ASSUME TypeOK, NEW t \in Threads, call[t] # None
    PROVE  /\ call[t] \in Call
           /\ call[t].entry \in Entry
           /\ KeyOf[call[t].entry.content] \in Keys
           /\ call[t].entry.created \in Times
BY StoreAssumption DEF TypeOK, Call, Entry

LEMMA StoreStepType ==
    ASSUME IType, NEW t \in Threads, StoreStep(t)
    PROVE  IType'
<1>. DEFINE e == call[t].entry
            k == KeyOf[e.content]
<1>. USE DEF IType
<1>1. CASE EnterStore(t)
  <2>1. PICK ok \in Reaches : 
            /\ PurgeExpired(ok)
            /\ \/ heap' = Index(file', memory') /\ stale' = 0
               \/ heap' = heap /\ stale' = stale + Purged(ok)
    BY <1>1 DEF EnterStore
  <2>2. file' \in Tier /\ memory' \in Tier
    BY <2>1, PurgeType
  <2>3. heap' \in SUBSET HeapTuple /\ IsFiniteSet(heap')
    BY <2>1, <2>2, IndexFacts DEF TypeOK
  <2>4. stale' \in Nat
    BY <2>1, PurgedNat DEF TypeOK
  <2>5. call' \in [Threads -> Call \cup {None}]
    BY <1>1, CallType DEF EnterStore, At, TypeOK, Call
  <2>. QED
    BY <1>1, <2>2, <2>3, <2>4, <2>5 DEF EnterStore, TypeOK, Tier
<1>2. CASE EvictOldest(t)
  <2>1. PICK d \in heap, ok \in Reaches :
            /\ Erase(d.key, ok)
            /\ Real(d)
            /\ spill' \in {spill, [spill EXCEPT ![d.key] = Get(d.key)]}
            /\ heap' = heap \ {d}
            /\ promise' \in {promise, [promise EXCEPT ![d.key] = None]}
    BY <1>2 DEF EvictOldest, Withdraw
  <2>2. d.key \in Keys
    BY <2>1 DEF TypeOK, HeapTuple
  <2>3. file' \in Tier /\ memory' \in Tier
    BY <2>1, <2>2, EraseType
  <2>4. Get(d.key) \in Entry \cup {None}
    BY <2>2 DEF Get, Lookup, TypeOK
  <2>5. spill' \in Tier /\ promise' \in [Keys -> Promise \cup {None}]
    BY <2>1, <2>4 DEF TypeOK, Tier
  <2>6. heap' \in SUBSET HeapTuple /\ IsFiniteSet(heap')
    BY <2>1, FS_RemoveElement DEF TypeOK
  <2>. QED
    BY <1>2, <2>3, <2>5, <2>6 DEF EvictOldest, TypeOK, Tier
<1>3. CASE PopStale(t)
  <2>1. heap' \in SUBSET HeapTuple /\ IsFiniteSet(heap')
    BY <1>3, FS_RemoveElement DEF PopStale, TypeOK
  <2>2. stale' \in Nat
    BY <1>3 DEF PopStale, TypeOK
  <2>. QED
    BY <1>3, <2>1, <2>2 DEF PopStale, TypeOK
<1>4. CASE RebuildDrained(t)
  <2>1. heap' \in SUBSET HeapTuple /\ IsFiniteSet(heap')
    BY <1>4, IndexFacts DEF RebuildDrained, TypeOK, Tier
  <2>. QED
    BY <1>4, <2>1 DEF RebuildDrained, TypeOK
<1>5. CASE DropCollision(t)
  <2>1. e \in Entry /\ k \in Keys /\ e.content \in Contents
    BY <1>5, CallType DEF DropCollision, At, Entry
  <2>2. file' \in Tier /\ memory' \in Tier
    BY <1>5, <2>1, EraseType DEF DropCollision
  <2>3. shipped' \in SUBSET (Keys \X Contents) /\ promise' \in [Keys -> Promise \cup {None}]
    BY <1>5, <2>1 DEF DropCollision, Withdraw, TypeOK
  <2>. QED
    BY <1>5, <2>2, <2>3 DEF DropCollision, TypeOK, Tier
<1>6. CASE Persist(t)
  <2>1. e \in Entry /\ k \in Keys /\ e.created \in Times /\ call[t] # None /\ call[t] \in Call
    BY <1>6, CallType DEF Persist, At
  <2>2. PICK ok \in Reaches :
            /\ Write(k, e, ok)
            /\ \/ Ship(t) /\ call' = [call EXCEPT ![t] = None]
               \/ /\ promise' = [promise EXCEPT ![k] = Rewindow(k)]
                  /\ call' = [call EXCEPT ![t] =
                         IF RetryAttempts = 0 THEN None ELSE [@ EXCEPT !.step = "retry"]]
                  /\ UNCHANGED shipped
    BY <1>6 DEF Persist
  <2>3. file' \in Tier /\ memory' \in Tier /\ Lookup(file', memory', k) \in Entry
    BY <2>1, <2>2, WriteType
  <2>4. shipped' \in SUBSET (Keys \X Contents) /\ promise' \in [Keys -> Promise \cup {None}]
    BY <2>1, <2>2, <2>3, ShipType, RewindowType DEF TypeOK
  <2>5. [call[t] EXCEPT !.step = "retry"] \in Call
    BY <2>1 DEF Call
  <2>6. call' \in [Threads -> Call \cup {None}]
    BY <2>2, <2>5 DEF TypeOK
  <2>7. heap' \in SUBSET HeapTuple /\ IsFiniteSet(heap')
    BY <1>6, <2>1, PushType DEF Persist, TypeOK
  <2>8. stale' \in Nat
    BY <1>6 DEF Persist, TypeOK
  <2>. QED
    BY <1>6, <2>3, <2>4, <2>6, <2>7, <2>8 DEF Persist, TypeOK, Tier
<1>7. CASE RetryPersist(t)
  <2>1. e \in Entry /\ k \in Keys /\ call[t] # None /\ call[t] \in Call
    BY <1>7, CallType DEF RetryPersist, At
  <2>2. PICK ok \in Reaches :
            /\ Write(k, e, ok)
            /\ \/ Ship(t) /\ call' = [call EXCEPT ![t] = None]
               \/ /\ promise' = [promise EXCEPT ![k] = Rewindow(k)]
                  /\ call' = [call EXCEPT ![t] =
                         IF RetriesLeft(t) THEN NextAttempt(t) ELSE None]
                  /\ UNCHANGED shipped
    BY <1>7 DEF RetryPersist
  <2>3. file' \in Tier /\ memory' \in Tier /\ Lookup(file', memory', k) \in Entry
    BY <2>1, <2>2, WriteType
  <2>4. shipped' \in SUBSET (Keys \X Contents) /\ promise' \in [Keys -> Promise \cup {None}]
    BY <2>1, <2>2, <2>3, ShipType, RewindowType DEF TypeOK
  <2>5. RetriesLeft(t) => NextAttempt(t) \in Call
    <3>1. call[t].attempt \in 0..RetryAttempts /\ RetryAttempts \in Nat
      BY <2>1, StoreAssumption DEF Call
    <3>2. RetriesLeft(t) => call[t].attempt + 1 \in 0..RetryAttempts
      BY <3>1 DEF RetriesLeft
    <3>. QED
      BY <2>1, <3>2 DEF Call, NextAttempt
  <2>6. call' \in [Threads -> Call \cup {None}]
    BY <2>2, <2>5 DEF TypeOK
  <2>. QED
    BY <1>7, <2>3, <2>4, <2>6 DEF RetryPersist, TypeOK, Tier
<1>. QED
  BY <1>1, <1>2, <1>3, <1>4, <1>5, <1>6, <1>7 DEF StoreStep

\* The operations other than store()'s own steps keep the types.
LEMMA OtherStepType ==
    ASSUME IType, Next, \A t \in Threads : ~StoreStep(t)
    PROVE  IType'
<1>. USE DEF IType
<1>1. ASSUME NEW t \in Threads, NEW c \in Contents, NEW ttl \in Ttls, NEW d \in BOOLEAN,
             BeginStore(t, c, ttl, d)
      PROVE  IType'
  <2>1. [content |-> c, created |-> now, ttl |-> ttl] \in Entry
    BY DEF Entry, TypeOK
  <2>2. 0 \in 0..RetryAttempts
    BY StoreAssumption
  <2>3. call' \in [Threads -> Call \cup {None}]
    BY <1>1, <2>1, <2>2 DEF BeginStore, TypeOK, Call
  <2>. QED
    BY <1>1, <2>3 DEF BeginStore, TypeOK
<1>2. ASSUME NEW k \in Keys, RetrieveHit(k)
      PROVE  IType'
  <2>1. Get(k) \in Entry
    BY <1>2 DEF RetrieveHit, Get, Lookup, TypeOK
  <2>2. file' \in Tier /\ memory' \in Tier
    BY <1>2, <2>1, WriteType DEF RetrieveHit
  <2>. QED
    BY <1>2, <2>2 DEF RetrieveHit, TypeOK, Tier
<1>3. ASSUME NEW k \in Keys, ReapExpired(k)
      PROVE  IType'
  <2>1. file' \in Tier /\ memory' \in Tier
    BY <1>3, EraseType DEF ReapExpired
  <2>. QED
    BY <1>3, <2>1 DEF ReapExpired, TypeOK, Tier
<1>4. ASSUME NEW k \in Keys, ReapSpill(k)
      PROVE  IType'
  BY <1>4 DEF ReapSpill, TypeOK
<1>5. ASSUME NEW k \in Keys, Delete(k)
      PROVE  IType'
  <2>1. file' \in Tier /\ memory' \in Tier
    BY <1>5, EraseType DEF Delete
  <2>2. stale' \in Nat
    BY <1>5 DEF Delete, TypeOK
  <2>3. spill' \in Tier
    BY <1>5 DEF Delete, TypeOK, Tier
  <2>4. promise' \in [Keys -> Promise \cup {None}] /\ shipped' \in SUBSET (Keys \X Contents)
    BY <1>5 DEF Delete, Withdraw, TypeOK
  <2>. QED
    BY <1>5, <2>1, <2>2, <2>3, <2>4 DEF Delete, TypeOK, Tier
<1>6. CASE GetStats
  <2>1. file' \in Tier /\ memory' \in Tier /\ stale' \in Nat
    BY <1>6, PurgeType, PurgedNat DEF GetStats, TypeOK
  <2>. QED
    BY <1>6, <2>1 DEF GetStats, TypeOK, Tier
<1>7. CASE Clear
  BY <1>7, FS_EmptySet DEF Clear, TypeOK
<1>8. ASSUME NEW e \in ImportRows, Import(e)
      PROVE  IType'
  <2>1. e \in Entry /\ KeyOf[e.content] \in Keys
    BY StoreAssumption DEF Entry
  <2>2. PICK ok \in Reaches : Write(KeyOf[e.content], e, ok)
    BY <1>8 DEF Import
  <2>3. /\ file' \in Tier /\ memory' \in Tier
        /\ Lookup(file', memory', KeyOf[e.content]) \in Entry
    BY <2>1, <2>2, WriteType
  <2>4. promise' \in [Keys -> Promise \cup {None}]
    BY <1>8, <2>1, <2>3, RewindowType DEF Import, TypeOK
  <2>. QED
    BY <1>8, <2>3, <2>4 DEF Import, TypeOK, Tier
<1>9. CASE Restart
  <2>1. file' \in Tier /\ memory' \in Tier /\ spill' \in Tier
    BY <1>9 DEF Restart, Without, Tier, TypeOK
  <2>2. promise' \in [Keys -> Promise \cup {None}] /\ call' \in [Threads -> Call \cup {None}]
    BY <1>9 DEF Restart, TypeOK
  <2>3. heap' = {} /\ IsFiniteSet({})
    BY <1>9, FS_EmptySet DEF Restart
  <2>. QED
    BY <1>9, <2>1, <2>2, <2>3 DEF Restart, TypeOK, Tier
<1>10. CASE Tick
  <2>1. now' \in Times
    BY <1>10, StoreAssumption DEF Tick, TypeOK, Times
  <2>. QED
    BY <1>10, <2>1 DEF Tick, TypeOK
<1>. QED
  BY <1>1, <1>2, <1>3, <1>4, <1>5, <1>6, <1>7, <1>8, <1>9, <1>10 DEF Next

LEMMA TypeStep == IType /\ [Next]_vars => IType'
<1>1. ASSUME IType, UNCHANGED vars
      PROVE  IType'
  BY <1>1 DEF IType, TypeOK, vars
<1>. QED
  BY <1>1, StoreStepType, OtherStepType

\* Every variable of the store keeps its type, for every configuration.
THEOREM TypeCorrect == Spec => []TypeOK
<1>1. IType => TypeOK
  BY DEF IType
<1>. QED
  BY <1>1, TypeInit, TypeStep, PTL DEF Spec

-----------------------------------------------------------------------------
(* The eviction heap of a volatile store *)

Live(m) == {k \in Keys : m[k] # None}

Covers(m, h) == \A k \in Live(m) : \E e \in h : e.key = k /\ e.created = m[k].created

Accounted(m, h, s) ==
    /\ m \in Tier
    /\ h \in SUBSET HeapTuple
    /\ IsFiniteSet(h)
    /\ s \in Nat
    /\ Cardinality(h) = Cardinality(Live(m)) + s
    /\ Covers(m, h)

LEMMA LiveFinite ==
    ASSUME NEW m
    PROVE  IsFiniteSet(Live(m)) /\ Cardinality(Live(m)) \in Nat
BY StoreAssumption, FS_Subset, FS_CardinalityType DEF Live

\* Removing an entry without its tuple leaves one more stale tuple.
LEMMA RemoveEntry ==
    ASSUME NEW m, NEW h, NEW s, Accounted(m, h, s), NEW k \in Keys
    PROVE  Accounted([m EXCEPT ![k] = None], h, IF m[k] # None THEN s + 1 ELSE s)
<1>. DEFINE n == [m EXCEPT ![k] = None]
<1>1. n \in Tier
  BY DEF Accounted, Tier
<1>2. Live(n) = Live(m) \ {k} /\ \A j \in Live(n) : n[j] = m[j]
  BY DEF Live, Accounted, Tier
<1>3. Covers(n, h)
  BY <1>2 DEF Covers, Accounted
<1>4. Cardinality(Live(n)) = IF m[k] # None THEN Cardinality(Live(m)) - 1 ELSE Cardinality(Live(m))
  BY <1>2, LiveFinite, FS_RemoveElement DEF Live
<1>5. Cardinality(Live(m)) \in Nat /\ s \in Nat /\ Cardinality(h) = Cardinality(Live(m)) + s
  BY LiveFinite DEF Accounted
<1>6. Cardinality(h) = Cardinality(Live(n)) + IF m[k] # None THEN s + 1 ELSE s
  BY <1>4, <1>5
<1>7. (IF m[k] # None THEN s + 1 ELSE s) \in Nat
  BY <1>5
<1>. HIDE DEF n
<1>8. Accounted(n, h, IF m[k] # None THEN s + 1 ELSE s)
  BY <1>1, <1>3, <1>6, <1>7 DEF Accounted
<1>. QED
  BY <1>8 DEF n

\* Removing a set of entries without their tuples.
LEMMA RemoveEntries ==
    ASSUME NEW m, NEW h, NEW s, Accounted(m, h, s), NEW K \in SUBSET Live(m)
    PROVE  Accounted(Without(m, K), h, s + Cardinality(K))
<1>. DEFINE n == Without(m, K)
<1>1. n \in Tier
  BY DEF Accounted, Tier, Without
<1>2. Live(n) = Live(m) \ K /\ \A j \in Live(n) : n[j] = m[j]
  BY DEF Live, Without
<1>3. Covers(n, h)
  BY <1>2 DEF Covers, Accounted
<1>4. IsFiniteSet(K) /\ Cardinality(K) \in Nat
  BY LiveFinite, FS_Subset, FS_CardinalityType
<1>5. Cardinality(Live(m)) \in Nat /\ s \in Nat /\ Cardinality(h) = Cardinality(Live(m)) + s
  BY LiveFinite DEF Accounted
<1>6. Cardinality(Live(n)) = Cardinality(Live(m)) - Cardinality(K)
  <2>1. Cardinality(Live(m) \ K) = Cardinality(Live(m)) - Cardinality(Live(m) \cap K)
    BY LiveFinite, <1>4, FS_Difference
  <2>2. Live(m) \cap K = K
    OBVIOUS
  <2>. QED
    BY <1>2, <2>1, <2>2
<1>7. Cardinality(h) = Cardinality(Live(n)) + (s + Cardinality(K)) /\ s + Cardinality(K) \in Nat
  BY <1>4, <1>5, <1>6
<1>. HIDE DEF n
<1>8. Accounted(n, h, s + Cardinality(K))
  BY <1>1, <1>3, <1>7 DEF Accounted
<1>. QED
  BY <1>8 DEF n

\* Writing an entry and pushing its tuple.
LEMMA AddEntry ==
    ASSUME NEW m, Accounted(m, heap, stale), NEW e \in Entry, NEW k \in Keys
    PROVE  Accounted([m EXCEPT ![k] = e], Push(heap, e.created, k),
                     IF m[k] # None THEN stale + 1 ELSE stale)
<1>. DEFINE n == [m EXCEPT ![k] = e]
            g == Push(heap, e.created, k)
            d == Tuple(e.created, k, Fresh(heap, e.created, k))
<1>1. n \in Tier
  BY DEF Accounted, Tier
<1>2. Live(n) = Live(m) \cup {k} /\ n[k] = e /\ \A j \in Keys \ {k} : n[j] = m[j]
  BY StoreAssumption DEF Live, Accounted, Tier
<1>3. e.created \in Times
  BY DEF Entry
<1>4. g \in SUBSET HeapTuple /\ IsFiniteSet(g)
  BY <1>3, PushType DEF Accounted
<1>5. d \notin heap /\ g = heap \cup {d}
  BY FreshCopy DEF Push, Accounted
<1>6. Cardinality(g) = Cardinality(heap) + 1
  BY <1>5, FS_AddElement DEF Accounted
<1>7. Covers(n, g)
  <2>1. SUFFICES ASSUME NEW j \in Live(n)
                 PROVE  \E x \in g : x.key = j /\ x.created = n[j].created
    BY DEF Covers
  <2>2. CASE j = k
    BY <1>2, <1>5, <2>2 DEF Tuple
  <2>3. CASE j # k
    <3>1. j \in Live(m) /\ n[j] = m[j]
      BY <1>2, <2>3 DEF Live
    <3>. QED
      BY <3>1, <1>5 DEF Covers, Accounted
  <2>. QED
    BY <2>2, <2>3
<1>8. Cardinality(Live(n)) = IF m[k] # None THEN Cardinality(Live(m)) ELSE Cardinality(Live(m)) + 1
  BY <1>2, LiveFinite, FS_AddElement DEF Live
<1>9. Cardinality(Live(m)) \in Nat /\ stale \in Nat /\ Cardinality(heap) = Cardinality(Live(m)) + stale
  BY LiveFinite DEF Accounted
<1>. DEFINE r == IF m[k] # None THEN stale + 1 ELSE stale
<1>10. Cardinality(g) = Cardinality(Live(n)) + r /\ r \in Nat
  BY <1>6, <1>8, <1>9
<1>. HIDE DEF n, g, r
<1>11. Accounted(n, g, r)
  BY <1>1, <1>4, <1>7, <1>10 DEF Accounted
<1>. QED
  BY <1>11 DEF n, g, r

\* A stale tuple is never one the accounting needs.
LEMMA StaleTuple ==
    ASSUME NEW m, NEW h, NEW s, Accounted(m, h, s), NEW e \in h,
           m[e.key] = None \/ m[e.key].created # e.created
    PROVE  s > 0 /\ Accounted(m, h \ {e}, s - 1)
<1>. DEFINE g == [k \in Live(m) |-> CHOOSE d \in h : d.key = k /\ d.created = m[k].created]
            T == {g[k] : k \in Live(m)}
<1>1. \A k \in Live(m) : g[k] \in h /\ g[k].key = k /\ g[k].created = m[k].created
  BY DEF Accounted, Covers
<1>2. T \subseteq h \ {e}
  <2>1. SUFFICES ASSUME NEW k \in Live(m), g[k] = e PROVE FALSE
    BY <1>1
  <2>2. e.key = k /\ e.created = m[k].created /\ m[k] # None
    BY <1>1, <2>1 DEF Live
  <2>. QED
    BY <2>2
<1>3. g \in [Live(m) -> T] /\ \A y \in T : \E x \in Live(m) : g[x] = y
  OBVIOUS
<1>4. \A x, y \in Live(m) : g[x] = g[y] => x = y
  BY <1>1
<1>. HIDE DEF g, T
<1>5. Cardinality(T) = Cardinality(Live(m))
  BY <1>3, <1>4, LiveFinite, BijectionCardinality
<1>6. IsFiniteSet(h \ {e}) /\ Cardinality(h \ {e}) = Cardinality(h) - 1
  BY FS_RemoveElement DEF Accounted
<1>7. Cardinality(T) <= Cardinality(h \ {e})
  BY <1>2, <1>6, FS_Subset
<1>8. Cardinality(Live(m)) \in Nat /\ s \in Nat /\ Cardinality(h) = Cardinality(Live(m)) + s
  BY LiveFinite DEF Accounted
<1>9. s > 0 /\ s - 1 \in Nat
  BY <1>5, <1>6, <1>7, <1>8
<1>10. Cardinality(h \ {e}) = Cardinality(Live(m)) + (s - 1)
  BY <1>6, <1>8
<1>11. Covers(m, h \ {e})
  BY <1>1, <1>2 DEF Covers, T
<1>12. h \ {e} \in SUBSET HeapTuple /\ m \in Tier
  BY DEF Accounted
<1>. QED
  BY <1>6, <1>9, <1>10, <1>11, <1>12 DEF Accounted

\* Evicting a real tuple with its entry.
LEMMA RealTuple ==
    ASSUME NEW m, NEW h, NEW s, Accounted(m, h, s), NEW e \in h,
           m[e.key] # None
    PROVE  Accounted([m EXCEPT ![e.key] = None], h \ {e}, s)
<1>. DEFINE k == e.key
            n == [m EXCEPT ![k] = None]
<1>1. k \in Keys
  BY DEF Accounted, HeapTuple
<1>2. n \in Tier
  BY DEF Accounted, Tier
<1>3. Live(n) = Live(m) \ {k} /\ \A j \in Live(n) : n[j] = m[j]
  BY DEF Live, Accounted, Tier
<1>4. Covers(n, h \ {e})
  BY <1>3 DEF Covers, Accounted
<1>5. Cardinality(Live(n)) = Cardinality(Live(m)) - 1
  <2>1. k \in Live(m)
    BY <1>1 DEF Live
  <2>2. Cardinality(Live(m) \ {k}) = Cardinality(Live(m)) - 1
    BY <2>1, LiveFinite, FS_RemoveElement
  <2>. QED
    BY <1>3, <2>2
<1>6. IsFiniteSet(h \ {e}) /\ Cardinality(h \ {e}) = Cardinality(h) - 1
  BY FS_RemoveElement DEF Accounted
<1>7. Cardinality(Live(m)) \in Nat /\ s \in Nat /\ Cardinality(h) = Cardinality(Live(m)) + s
  BY LiveFinite DEF Accounted
<1>8. Cardinality(h \ {e}) = Cardinality(Live(n)) + s
  BY <1>5, <1>6, <1>7
<1>9. h \ {e} \in SUBSET HeapTuple
  BY DEF Accounted
<1>. HIDE DEF n
<1>10. Accounted(n, h \ {e}, s)
  BY <1>2, <1>4, <1>6, <1>7, <1>8, <1>9 DEF Accounted
<1>. QED
  BY <1>10 DEF n

\* A rebuilt heap accounts for everything with no stale tuple.
LEMMA RebuiltHeap ==
    ASSUME NEW m \in Tier, NEW f, f = [k \in Keys |-> None]
    PROVE  Accounted(m, Index(f, m), 0)
<1>1. PresentIn(f, m) = Live(m) /\ f \in Tier /\ \A k \in Keys : Lookup(f, m, k) = m[k]
  BY DEF PresentIn, Lookup, Live, Tier
<1>2. /\ Index(f, m) \in SUBSET HeapTuple
      /\ IsFiniteSet(Index(f, m))
      /\ Cardinality(Index(f, m)) = Cardinality(Live(m))
  BY <1>1, IndexFacts
<1>3. Covers(m, Index(f, m))
  <2>1. SUFFICES ASSUME NEW k \in Live(m)
                 PROVE  \E e \in Index(f, m) : e.key = k /\ e.created = m[k].created
    BY DEF Covers
  <2>2. k \in PresentIn(f, m) /\ Lookup(f, m, k) = m[k]
    BY <1>1 DEF Live
  <2>3. Tuple(m[k].created, k, 0) \in Index(f, m)
    BY <2>2 DEF Index
  <2>. QED
    BY <2>3 DEF Tuple
<1>4. Cardinality(Live(m)) \in Nat
  BY LiveFinite
<1>5. Cardinality(Index(f, m)) = Cardinality(Live(m)) + 0
  BY <1>2, <1>4
<1>. QED
  BY <1>2, <1>3, <1>5 DEF Accounted

LEMMA EmptyHeap ==
    ASSUME NEW m, m = [k \in Keys |-> None]
    PROVE  Accounted(m, {}, 0)
<1>1. m \in Tier /\ Live(m) = {}
  BY DEF Tier, Live
<1>. QED
  BY <1>1, FS_EmptySet DEF Accounted, Covers

\* A volatile store: no SQLite file, and no checkpoint imported into it.
Volatile == ~Durable /\ ImportRows = {}

NoRows == file = [k \in Keys |-> None]

HeapInv ==
    /\ IType
    /\ NoRows
    /\ \A t \in Threads : ~At(t, "retry")
    /\ Accounted(memory, heap, stale)

LEMMA VolatileWrite ==
    ASSUME Volatile, HeapInv, NEW k \in Keys, NEW e \in Entry, NEW ok \in Reaches, Write(k, e, ok)
    PROVE  ok = TRUE /\ NoRows' /\ memory' = [memory EXCEPT ![k] = e]
BY DEF Volatile, HeapInv, NoRows, Reaches, Write

LEMMA VolatileErase ==
    ASSUME Volatile, HeapInv, NEW k \in Keys, NEW ok \in Reaches, Erase(k, ok)
    PROVE  /\ NoRows'
           /\ memory' = [memory EXCEPT ![k] = None]
           /\ Erased(k, ok) <=> memory[k] # None
BY DEF Volatile, HeapInv, NoRows, Reaches, Erase, Erased

LEMMA VolatilePurge ==
    ASSUME Volatile, HeapInv, NEW ok \in Reaches, PurgeExpired(ok)
    PROVE  /\ NoRows'
           /\ memory' = Without(memory, ExpiredIn(memory))
           /\ Purged(ok) = Cardinality(ExpiredIn(memory))
           /\ ExpiredIn(memory) \in SUBSET Live(memory)
<1>1. ExpiredIn(file) = {} /\ PurgedRows(ok) = {}
  BY DEF HeapInv, NoRows, ExpiredIn, PurgedRows
<1>2. NoRows' /\ memory' = Without(memory, ExpiredIn(memory))
  BY <1>1 DEF PurgeExpired, Without, HeapInv, NoRows
<1>3. ExpiredIn(memory) \in SUBSET Live(memory)
  BY DEF ExpiredIn, Live
<1>4. Cardinality(ExpiredIn(memory)) \in Nat
  BY <1>3, LiveFinite, FS_Subset, FS_CardinalityType
<1>5. Cardinality({}) = 0
  BY FS_EmptySet
<1>. QED
  BY <1>1, <1>2, <1>3, <1>4, <1>5 DEF Purged

LEMMA VolatileGet ==
    ASSUME NoRows
    PROVE  /\ \A k \in Keys : Get(k) = memory[k]
           /\ Present = Live(memory)
BY DEF NoRows, Get, Lookup, Present, PresentIn, Live

\* The steps of store() keep the accounting.
LEMMA HeapStoreStep ==
    ASSUME Volatile, HeapInv, NEW t \in Threads, StoreStep(t)
    PROVE  NoRows' /\ Accounted(memory, heap, stale)' /\ \A u \in Threads : ~At(u, "retry")'
<1>. DEFINE e == call[t].entry
            k == KeyOf[e.content]
<1>. USE DEF HeapInv
<1>1. CASE EnterStore(t)
  <2>1. PICK ok \in Reaches :
            /\ PurgeExpired(ok)
            /\ \/ heap' = Index(file', memory') /\ stale' = 0
               \/ heap' = heap /\ stale' = stale + Purged(ok)
    BY <1>1 DEF EnterStore
  <2>2. NoRows' /\ Accounted(memory', heap, stale + Purged(ok))
    BY <2>1, VolatilePurge, RemoveEntries
  <2>3. Accounted(memory', Index(file', memory'), 0)
    BY <2>2, RebuiltHeap DEF Accounted, NoRows
  <2>4. Accounted(memory', heap', stale')
    BY <2>1, <2>2, <2>3
  <2>5. \A u \in Threads : ~At(u, "retry")'
    BY <1>1 DEF EnterStore, At, IType, TypeOK
  <2>. QED
    BY <2>1, <2>2, <2>3, <2>4, <2>5
<1>2. CASE EvictOldest(t)
  <2>1. PICK d \in heap, ok \in Reaches :
            Real(d) /\ Erase(d.key, ok) /\ heap' = heap \ {d}
    BY <1>2 DEF EvictOldest
  <2>2. d.key \in Keys /\ memory[d.key] # None
    BY <2>1, VolatileGet DEF Real, Accounted, HeapTuple
  <2>3. NoRows' /\ memory' = [memory EXCEPT ![d.key] = None]
    BY <2>1, <2>2, VolatileErase
  <2>. QED
    BY <1>2, <2>1, <2>2, <2>3, RealTuple DEF EvictOldest, At
<1>3. CASE PopStale(t)
  <2>1. PICK d \in heap : ~Real(d) /\ heap' = heap \ {d}
    BY <1>3 DEF PopStale
  <2>2. memory[d.key] = None \/ memory[d.key].created # d.created
    BY <2>1, VolatileGet DEF Real, Accounted, HeapTuple
  <2>3. stale > 0 /\ Accounted(memory, heap \ {d}, stale - 1)
    BY <2>2, StaleTuple
  <2>4. memory' = memory /\ stale' = stale - 1 /\ UNCHANGED <<file, call>>
    BY <1>3, <2>3 DEF PopStale
  <2>5. Accounted(memory', heap', stale')
    BY <2>1, <2>3, <2>4
  <2>. QED
    BY <2>4, <2>5 DEF At, NoRows
<1>4. CASE RebuildDrained(t)
  <2>1. memory' = memory /\ stale' = 0 /\ heap' = Index(file, memory) /\ UNCHANGED <<file, call>>
    BY <1>4 DEF RebuildDrained
  <2>2. Accounted(memory, Index(file, memory), 0)
    BY RebuiltHeap DEF Accounted, NoRows
  <2>3. Accounted(memory', heap', stale')
    BY <2>1, <2>2
  <2>. QED
    BY <2>1, <2>3 DEF At, NoRows
<1>5. CASE DropCollision(t)
  <2>1. k \in Keys /\ Get(k) # None
    BY <1>5, CallType DEF DropCollision, At, IType, Collides
  <2>2. PICK ok \in Reaches : Erase(k, ok)
    BY <1>5 DEF DropCollision
  <2>3. NoRows' /\ memory' = [memory EXCEPT ![k] = None] /\ memory[k] # None
    BY <2>1, <2>2, VolatileErase, VolatileGet
  <2>4. Accounted(memory', heap, stale + 1)
    BY <2>1, <2>3, RemoveEntry
  <2>5. \A u \in Threads : ~At(u, "retry")'
    BY <1>5 DEF DropCollision, At, IType, TypeOK
  <2>. QED
    BY <1>5, <2>3, <2>4, <2>5 DEF DropCollision
<1>6. CASE Persist(t)
  <2>1. k \in Keys /\ e \in Entry
    BY <1>6, CallType DEF Persist, At, IType
  <2>2. PICK ok \in Reaches :
            /\ Write(k, e, ok)
            /\ Returns(t, ok) => call' = [call EXCEPT ![t] = None]
    BY <1>6 DEF Persist
  <2>3. ok = TRUE /\ NoRows' /\ memory' = [memory EXCEPT ![k] = e]
    BY <2>1, <2>2, VolatileWrite
  <2>4. Accounted(memory', Push(heap, e.created, k), IF memory[k] # None THEN stale + 1 ELSE stale)
    BY <2>1, <2>3, AddEntry
  <2>5. call' = [call EXCEPT ![t] = None]
    BY <2>2, <2>3 DEF Returns
  <2>6. \A u \in Threads : ~At(u, "retry")'
    BY <2>5 DEF At, IType, TypeOK
  <2>7. stale' = (IF memory[k] # None THEN stale + 1 ELSE stale) /\ heap' = Push(heap, e.created, k)
    BY <1>6, <2>1, VolatileGet DEF Persist
  <2>. QED
    BY <2>3, <2>4, <2>6, <2>7
<1>7. CASE RetryPersist(t)
  BY <1>7 DEF RetryPersist
<1>. QED
  BY <1>1, <1>2, <1>3, <1>4, <1>5, <1>6, <1>7 DEF StoreStep

\* The other operations keep it.
LEMMA HeapOtherStep ==
    ASSUME Volatile, HeapInv, Next, \A t \in Threads : ~StoreStep(t)
    PROVE  NoRows' /\ Accounted(memory, heap, stale)' /\ \A u \in Threads : ~At(u, "retry")'
<1>. USE DEF HeapInv
<1>1. ASSUME NEW t \in Threads, NEW c \in Contents, NEW ttl \in Ttls, NEW d \in BOOLEAN,
             BeginStore(t, c, ttl, d)
      PROVE  NoRows' /\ Accounted(memory, heap, stale)' /\ \A u \in Threads : ~At(u, "retry")'
  <2>1. \A u \in Threads : ~At(u, "retry")'
    BY <1>1 DEF BeginStore, At, IType, TypeOK
  <2>. QED
    BY <1>1, <2>1 DEF BeginStore, NoRows
<1>2. ASSUME NEW k \in Keys, RetrieveHit(k)
      PROVE  NoRows' /\ Accounted(memory, heap, stale)' /\ \A u \in Threads : ~At(u, "retry")'
  <2>1. Get(k) = memory[k] /\ memory[k] \in Entry
    BY <1>2, VolatileGet DEF RetrieveHit, Accounted, Tier
  <2>2. NoRows' /\ memory' = [memory EXCEPT ![k] = memory[k]]
    BY <1>2, <2>1, VolatileWrite DEF RetrieveHit
  <2>3. memory' = memory
    BY <2>2 DEF Accounted, Tier
  <2>. QED
    BY <1>2, <2>2, <2>3 DEF RetrieveHit, At
<1>3. ASSUME NEW k \in Keys, ReapExpired(k)
      PROVE  NoRows' /\ Accounted(memory, heap, stale)' /\ \A u \in Threads : ~At(u, "retry")'
  <2>1. NoRows' /\ memory' = [memory EXCEPT ![k] = None] /\ memory[k] # None
    BY <1>3, VolatileErase, VolatileGet DEF ReapExpired
  <2>2. Accounted(memory', heap, stale + 1)
    BY <2>1, RemoveEntry
  <2>. QED
    BY <1>3, <2>1, <2>2 DEF ReapExpired, At
<1>4. ASSUME NEW k \in Keys, ReapSpill(k)
      PROVE  NoRows' /\ Accounted(memory, heap, stale)' /\ \A u \in Threads : ~At(u, "retry")'
  BY <1>4 DEF ReapSpill, At, NoRows
<1>5. ASSUME NEW k \in Keys, Delete(k)
      PROVE  NoRows' /\ Accounted(memory, heap, stale)' /\ \A u \in Threads : ~At(u, "retry")'
  <2>1. PICK ok \in Reaches :
            Erase(k, ok) /\ stale' = IF Erased(k, ok) THEN stale + 1 ELSE stale
    BY <1>5 DEF Delete
  <2>2. NoRows' /\ memory' = [memory EXCEPT ![k] = None] /\ (Erased(k, ok) <=> memory[k] # None)
    BY <2>1, VolatileErase
  <2>3. Accounted(memory', heap, IF memory[k] # None THEN stale + 1 ELSE stale)
    BY <2>2, RemoveEntry
  <2>4. stale' = IF memory[k] # None THEN stale + 1 ELSE stale
    BY <2>1, <2>2
  <2>. QED
    BY <1>5, <2>2, <2>3, <2>4 DEF Delete, At
<1>6. CASE GetStats
  <2>1. PICK ok \in Reaches : PurgeExpired(ok) /\ stale' = stale + Purged(ok)
    BY <1>6 DEF GetStats
  <2>2. NoRows' /\ Accounted(memory', heap, stale + Purged(ok))
    BY <2>1, VolatilePurge, RemoveEntries
  <2>. QED
    BY <1>6, <2>1, <2>2 DEF GetStats, At
<1>7. CASE Clear
  <2>1. NoRows'
    BY <1>7 DEF Clear, NoRows
  <2>2. Accounted(memory', {}, 0)
    BY <1>7, EmptyHeap DEF Clear
  <2>. QED
    BY <1>7, <2>1, <2>2 DEF Clear, At
<1>8. ASSUME NEW e \in ImportRows, Import(e)
      PROVE  FALSE
  BY <1>8 DEF Volatile
<1>9. CASE Restart
  <2>1. NoRows'
    BY <1>9 DEF Restart, NoRows, Without
  <2>2. Accounted(memory', {}, 0)
    BY <1>9, EmptyHeap DEF Restart
  <2>. QED
    BY <1>9, <2>1, <2>2 DEF Restart, At
<1>10. CASE Tick
  BY <1>10 DEF Tick, At, NoRows
<1>. QED
  BY <1>1, <1>2, <1>3, <1>4, <1>5, <1>6, <1>7, <1>8, <1>9, <1>10 DEF Next

LEMMA HeapInit ==
    ASSUME Init
    PROVE  HeapInv
<1>1. Accounted(memory, heap, stale)
  BY EmptyHeap DEF Init
<1>. QED
  BY <1>1, TypeInit DEF Init, HeapInv, NoRows, At

LEMMA HeapStep ==
    ASSUME Volatile, HeapInv, [Next]_vars
    PROVE  HeapInv'
<1>1. IType'
  BY TypeStep DEF HeapInv
<1>2. CASE UNCHANGED vars
  BY <1>1, <1>2 DEF HeapInv, vars, NoRows, At
<1>3. CASE Next
  BY <1>1, <1>3, HeapStoreStep, HeapOtherStep DEF HeapInv
<1>. QED
  BY <1>2, <1>3

\* In a volatile store every tuple of the eviction heap is the live tuple of
\* one entry or counted stale, whatever the interleaving.
THEOREM HeapAccounted == ASSUME Volatile PROVE Spec => []HeapAccounting
<1>1. HeapInv => HeapAccounting
  BY VolatileGet DEF HeapInv, HeapAccounting, Accounted
<1>2. HeapInv /\ [Next]_vars => HeapInv'
  BY HeapStep
<1>. QED
  BY <1>1, <1>2, HeapInit, PTL DEF Spec

\* In a volatile store the heap can evict every live entry.
THEOREM HeapCovers == ASSUME Volatile PROVE Spec => []HeapCoverage
<1>1. HeapInv => HeapCoverage
  BY VolatileGet DEF HeapInv, HeapCoverage, Accounted, Covers, Live
<1>2. HeapInv /\ [Next]_vars => HeapInv'
  BY HeapStep
<1>. QED
  BY <1>1, <1>2, HeapInit, PTL DEF Spec

-----------------------------------------------------------------------------
(* The cap, the size of the heap, and the order of eviction *)

Mutex == \A t, u \in Threads : At(t, "evict") /\ At(u, "evict") => t = u

\* While a store() is inside its eviction loop the heap has room for its tuple.
CapInv ==
    /\ HeapInv
    /\ Mutex
    /\ Cardinality(Live(memory)) <= MaxEntries
    /\ Cardinality(heap) <= 2 * MaxEntries
    /\ \A t \in Threads : At(t, "evict") => Cardinality(heap) < 2 * MaxEntries

\* Only EnterStore takes a thread into the loop, and only if no other is in it.
LEMMA MutexStep ==
    ASSUME IType, Mutex, [Next]_vars
    PROVE  /\ Mutex'
           /\ \A u \in Threads : At(u, "evict")' => At(u, "evict") \/ (EnterStore(u) /\ LockFree)
<1>. SUFFICES ASSUME TRUE
     PROVE  \A u \in Threads :
                At(u, "evict")' => \/ At(u, "evict")
                                   \/ /\ EnterStore(u) /\ LockFree
                                      /\ \A v \in Threads \ {u} : ~At(v, "evict")'
  BY DEF Mutex
<1>. USE DEF At
<1>1. ASSUME NEW t \in Threads, NEW c \in Contents, NEW ttl \in Ttls, NEW d \in BOOLEAN,
             BeginStore(t, c, ttl, d), NEW u \in Threads, At(u, "evict")'
      PROVE  At(u, "evict")
  BY <1>1 DEF BeginStore, IType, TypeOK
<1>2. ASSUME NEW t \in Threads, EnterStore(t), NEW u \in Threads, At(u, "evict")'
      PROVE  /\ u = t /\ LockFree
             /\ \A v \in Threads \ {u} : ~At(v, "evict")'
  BY <1>2 DEF EnterStore, LockFree, IType, TypeOK
<1>3. ASSUME NEW t \in Threads, StoreStep(t), ~EnterStore(t), NEW u \in Threads, At(u, "evict")'
      PROVE  At(u, "evict")
  <2>1. CASE EvictOldest(t) \/ PopStale(t) \/ RebuildDrained(t)
    BY <1>3, <2>1 DEF EvictOldest, PopStale, RebuildDrained
  <2>2. CASE DropCollision(t)
    BY <1>3, <2>2 DEF DropCollision, IType, TypeOK
  <2>3. CASE Persist(t)
    <3>1. u # t => call'[u] = call[u]
      BY <2>3 DEF Persist, Ship, IType, TypeOK
    <3>. QED
      BY <1>3, <2>3, <3>1 DEF Persist
  <2>4. CASE RetryPersist(t)
    <3>1. call[t] # None /\ call[t] \in Call
      BY <2>4, CallType DEF RetryPersist, IType
    <3>2. NextAttempt(t).step = "retry"
      BY <2>4, <3>1 DEF Call, NextAttempt, RetryPersist
    <3>3. call'[u] = call[u] \/ (u = t /\ call'[u] \in {None, NextAttempt(t)})
      BY <2>4 DEF RetryPersist, IType, TypeOK
    <3>. QED
      BY <1>3, <3>2, <3>3
  <2>. QED
    BY <1>3, <2>1, <2>2, <2>3, <2>4 DEF StoreStep
<1>4. ASSUME NEW u \in Threads, At(u, "evict")', UNCHANGED call
      PROVE  At(u, "evict")
  BY <1>4
<1>5. ASSUME Restart, NEW u \in Threads, At(u, "evict")'
      PROVE  FALSE
  BY <1>5 DEF Restart
<1>6. ASSUME Next, \A t \in Threads : ~StoreStep(t),
             \A t \in Threads, c \in Contents, ttl \in Ttls, d \in BOOLEAN : ~BeginStore(t, c, ttl, d),
             ~Restart
      PROVE  UNCHANGED call
  BY <1>6 DEF Next, RetrieveHit, ReapExpired, ReapSpill, Delete, GetStats, Clear, Import, Tick
<1>7. UNCHANGED vars => UNCHANGED call
  BY DEF vars
<1>. QED
  BY <1>1, <1>2, <1>3, <1>4, <1>5, <1>6, <1>7

\* What Present becomes in a step: it only grows when a store() persists.
LEMMA LiveStep ==
    ASSUME Volatile, HeapInv, [Next]_vars, \A t \in Threads : ~Persist(t)
    PROVE  Live(memory') \subseteq Live(memory)
<1>. USE DEF HeapInv
<1>1. ASSUME NEW k \in Keys, NEW ok \in Reaches, Erase(k, ok)
      PROVE  Live(memory') \subseteq Live(memory)
  BY <1>1, VolatileErase DEF Live, Accounted, Tier
<1>2. ASSUME NEW ok \in Reaches, PurgeExpired(ok)
      PROVE  Live(memory') \subseteq Live(memory)
  BY <1>2, VolatilePurge DEF Live, Without
<1>3. ASSUME memory' = [k \in Keys |-> None]
      PROVE  Live(memory') \subseteq Live(memory)
  BY <1>3 DEF Live
<1>4. ASSUME memory' = memory
      PROVE  Live(memory') \subseteq Live(memory)
  BY <1>4
<1>5. ASSUME NEW k \in Keys, RetrieveHit(k)
      PROVE  Live(memory') \subseteq Live(memory)
  <2>1. Get(k) = memory[k] /\ memory[k] \in Entry
    BY <1>5, VolatileGet DEF RetrieveHit, Accounted, Tier
  <2>2. memory' = [memory EXCEPT ![k] = memory[k]]
    BY <1>5, <2>1, VolatileWrite DEF RetrieveHit
  <2>. QED
    BY <2>2 DEF Accounted, Tier
<1>6. ASSUME NEW t \in Threads, StoreStep(t)
      PROVE  Live(memory') \subseteq Live(memory)
  <2>1. CASE EnterStore(t)
    BY <1>2, <2>1 DEF EnterStore
  <2>2. CASE EvictOldest(t)
    <3>1. PICK d \in heap, ok \in Reaches : Erase(d.key, ok)
      BY <2>2 DEF EvictOldest
    <3>2. d.key \in Keys
      BY DEF Accounted, HeapTuple
    <3>. QED
      BY <1>1, <3>1, <3>2
  <2>3. CASE DropCollision(t)
    <3>1. KeyOf[call[t].entry.content] \in Keys
      BY <2>3, CallType DEF DropCollision, At, IType
    <3>. QED
      BY <1>1, <2>3, <3>1 DEF DropCollision
  <2>4. CASE PopStale(t) \/ RebuildDrained(t)
    BY <1>4, <2>4 DEF PopStale, RebuildDrained
  <2>5. ~RetryPersist(t)
    BY DEF RetryPersist
  <2>. QED
    BY <1>6, <2>1, <2>2, <2>3, <2>4, <2>5 DEF StoreStep
<1>7. ASSUME NEW k \in Keys, ReapExpired(k) \/ ReapSpill(k) \/ Delete(k)
      PROVE  Live(memory') \subseteq Live(memory)
  BY <1>1, <1>4, <1>7 DEF ReapExpired, ReapSpill, Delete
<1>8. CASE Clear \/ Restart
  BY <1>3, <1>8 DEF Clear, Restart
<1>9. CASE GetStats
  BY <1>2, <1>9 DEF GetStats
<1>10. ASSUME NEW e \in ImportRows, Import(e)
       PROVE  FALSE
  BY <1>10 DEF Volatile
<1>11. CASE Tick \/ UNCHANGED vars
  BY <1>4, <1>11 DEF Tick, vars
<1>12. ASSUME NEW t \in Threads, NEW c \in Contents, NEW ttl \in Ttls, NEW d \in BOOLEAN,
              BeginStore(t, c, ttl, d)
       PROVE  Live(memory') \subseteq Live(memory)
  BY <1>4, <1>12 DEF BeginStore
<1>. QED
  BY <1>5, <1>6, <1>7, <1>8, <1>9, <1>10, <1>11, <1>12 DEF Next

LEMMA LiveShrinks ==
    ASSUME NEW m, NEW n, Live(n) \subseteq Live(m)
    PROVE  Cardinality(Live(n)) <= Cardinality(Live(m))
BY LiveFinite, FS_Subset

LEMMA AddAtMostOne ==
    ASSUME NEW S, NEW x, IsFiniteSet(S)
    PROVE  /\ Cardinality(S) \in Nat
           /\ Cardinality(S \cup {x}) \in Nat
           /\ Cardinality(S \cup {x}) <= Cardinality(S) + 1
<1>1. /\ IsFiniteSet(S \cup {x})
      /\ Cardinality(S \cup {x}) = IF x \in S THEN Cardinality(S) ELSE Cardinality(S) + 1
  BY FS_AddElement
<1>2. Cardinality(S) \in Nat
  BY FS_CardinalityType
<1>. QED
  BY <1>1, <1>2

\* Persist happens below the cap, or when nothing at all is left to evict.
LEMMA PersistCap ==
    ASSUME Volatile, CapInv, MaxEntries > 0, NEW t \in Threads, Persist(t)
    PROVE  /\ Cardinality(Live(memory')) <= MaxEntries
           /\ Cardinality(heap') <= 2 * MaxEntries
           /\ call' = [call EXCEPT ![t] = None]
<1>. DEFINE e == call[t].entry
            k == KeyOf[e.content]
<1>. USE DEF CapInv
<1>1. k \in Keys /\ e \in Entry
  BY CallType DEF Persist, At, HeapInv, IType
<1>2. PICK ok \in Reaches : Write(k, e, ok) /\ (Returns(t, ok) => call' = [call EXCEPT ![t] = None])
  BY DEF Persist
<1>3. ok = TRUE /\ memory' = [memory EXCEPT ![k] = e]
  BY <1>1, <1>2, VolatileWrite
<1>4. Live(memory') = Live(memory) \cup {k}
  BY <1>1, <1>3, StoreAssumption DEF Live, HeapInv, Accounted, Tier
<1>5. Cardinality(Live(memory)) < MaxEntries \/ Live(memory) = {}
  <2>1. Present = Live(memory)
    BY VolatileGet DEF HeapInv
  <2>2. CASE ~AtCapacity
    BY <2>1, <2>2, LiveFinite, StoreAssumption DEF AtCapacity
  <2>3. CASE heap = {}
    BY <2>3 DEF HeapInv, Accounted, Covers
  <2>. QED
    BY <2>2, <2>3 DEF Persist, LoopDone
<1>6. Cardinality(Live(memory')) <= MaxEntries
  <2>1. Cardinality(Live(memory')) <= Cardinality(Live(memory)) + 1
    BY <1>4, LiveFinite, AddAtMostOne
  <2>2. Cardinality({}) = 0
    BY FS_EmptySet
  <2>3. MaxEntries \in Nat /\ Cardinality(Live(memory')) \in Nat /\ Cardinality(Live(memory)) \in Nat
    BY StoreAssumption, LiveFinite
  <2>. QED
    BY <1>5, <2>1, <2>2, <2>3
<1>7. Cardinality(heap') <= 2 * MaxEntries
  <2>1. heap' = heap \cup {Tuple(e.created, k, Fresh(heap, e.created, k))}
    BY DEF Persist, Push
  <2>2. IsFiniteSet(heap) /\ Cardinality(heap) \in Nat
    BY FS_CardinalityType DEF HeapInv, IType
  <2>3. Cardinality(heap') \in Nat /\ Cardinality(heap') <= Cardinality(heap) + 1
    BY <2>1, <2>2, AddAtMostOne
  <2>4. Cardinality(heap) < 2 * MaxEntries /\ MaxEntries \in Nat
    BY StoreAssumption DEF Persist
  <2>. QED
    BY <2>2, <2>3, <2>4
<1>8. call' = [call EXCEPT ![t] = None]
  BY <1>2, <1>3 DEF Returns
<1>. QED
  BY <1>6, <1>7, <1>8

\* A store() that goes into its loop finds or makes room in the heap.
LEMMA EnterCap ==
    ASSUME Volatile, CapInv, MaxEntries > 0, NEW t \in Threads, EnterStore(t), HeapInv'
    PROVE  Cardinality(heap') < 2 * MaxEntries
<1>. USE DEF CapInv
<1>1. PICK ok \in Reaches :
          /\ PurgeExpired(ok)
          /\ \/ heap' = Index(file', memory') /\ stale' = 0
             \/ /\ heap' = heap /\ stale' = stale + Purged(ok)
                /\ heap = {} \/ ~(2 * (stale + Purged(ok)) >= Cardinality(heap))
  BY DEF EnterStore, MostlyStale
<1>2. Live(memory') \subseteq Live(memory)
  BY <1>1, VolatilePurge DEF Live, Without
<1>3. /\ Cardinality(heap') = Cardinality(Live(memory')) + stale'
      /\ stale' \in Nat
      /\ Cardinality(Live(memory')) \in Nat
  BY LiveFinite DEF HeapInv, Accounted
<1>4. Cardinality(Live(memory')) <= MaxEntries
  <2>1. Cardinality(Live(memory')) <= Cardinality(Live(memory))
    BY <1>2, LiveShrinks
  <2>2. Cardinality(Live(memory)) \in Nat /\ MaxEntries \in Nat
    BY LiveFinite, StoreAssumption
  <2>. QED
    BY <1>3, <2>1, <2>2
<1>5. MaxEntries \in Nat
  BY StoreAssumption
<1>6. CASE stale' = 0
  BY <1>3, <1>4, <1>5, <1>6
<1>7. CASE heap' = {}
  BY <1>5, <1>7, FS_EmptySet
<1>8. CASE ~(2 * stale' >= Cardinality(heap'))
  <2>1. stale' < Cardinality(Live(memory'))
    BY <1>3, <1>8
  <2>. QED
    BY <1>3, <1>4, <1>5, <2>1
<1>. QED
  BY <1>1, <1>6, <1>7, <1>8

\* The heap only grows when a store() persists, or is rebuilt to one tuple
\* per live entry.
LEMMA HeapShrinks ==
    ASSUME Volatile, HeapInv, [Next]_vars, \A t \in Threads : ~Persist(t) /\ ~EnterStore(t)
    PROVE  Cardinality(heap') <= Cardinality(heap) \/ Cardinality(heap') = Cardinality(Live(memory))
<1>. DEFINE Goal == Cardinality(heap') <= Cardinality(heap) \/ Cardinality(heap') = Cardinality(Live(memory))
<1>1. Cardinality(heap) \in Nat /\ IsFiniteSet(heap)
  BY FS_CardinalityType DEF HeapInv, IType
<1>2. ASSUME heap' \subseteq heap
      PROVE  Goal
  BY <1>1, <1>2, FS_Subset
<1>3. ASSUME NEW t \in Threads, StoreStep(t)
      PROVE  Goal
  <2>1. CASE EvictOldest(t) \/ PopStale(t) \/ DropCollision(t)
    <3>1. heap' \subseteq heap
      BY <2>1 DEF EvictOldest, PopStale, DropCollision
    <3>. QED
      BY <1>2, <3>1
  <2>2. CASE RebuildDrained(t)
    <3>1. Accounted(memory, heap', 0)
      BY <2>2, RebuiltHeap DEF RebuildDrained, HeapInv, Accounted, NoRows
    <3>2. Cardinality(heap') = Cardinality(Live(memory)) + 0 /\ Cardinality(Live(memory)) \in Nat
      BY <3>1, LiveFinite DEF Accounted
    <3>. QED
      BY <3>2
  <2>3. ~RetryPersist(t)
    BY DEF RetryPersist, HeapInv
  <2>. QED
    BY <1>3, <2>1, <2>2, <2>3 DEF StoreStep
<1>4. ASSUME Next, \A t \in Threads : ~StoreStep(t)
      PROVE  heap' \subseteq heap
  BY <1>4 DEF Next, BeginStore, RetrieveHit, ReapExpired, ReapSpill, Delete, GetStats, Clear,
              Import, Restart, Tick
<1>5. UNCHANGED vars => heap' \subseteq heap
  BY DEF vars
<1>. HIDE DEF Goal
<1>6. Goal
  BY <1>2, <1>3, <1>4, <1>5
<1>. QED
  BY <1>6 DEF Goal

LEMMA CapInit ==
    ASSUME Init
    PROVE  CapInv
<1>1. HeapInv
  BY HeapInit
<1>2. Mutex /\ \A t \in Threads : ~At(t, "evict")
  BY DEF Init, Mutex, At
<1>3. Live(memory) = {} /\ heap = {}
  BY DEF Init, Live
<1>4. Cardinality({}) = 0 /\ MaxEntries \in Nat
  BY FS_EmptySet, StoreAssumption
<1>5. Cardinality(Live(memory)) <= MaxEntries /\ Cardinality(heap) <= 2 * MaxEntries
  BY <1>3, <1>4
<1>. QED
  BY <1>1, <1>2, <1>5 DEF CapInv

LEMMA CapStep ==
    ASSUME Volatile, MaxEntries > 0, CapInv, [Next]_vars
    PROVE  CapInv'
<1>. USE DEF CapInv
<1>1. HeapInv'
  BY HeapStep
<1>2. /\ Mutex'
      /\ \A u \in Threads : At(u, "evict")' => At(u, "evict") \/ (EnterStore(u) /\ LockFree)
  BY MutexStep DEF HeapInv
<1>3. MaxEntries \in Nat /\ Cardinality(Live(memory)) \in Nat /\ Cardinality(heap) \in Nat
  BY StoreAssumption, LiveFinite, FS_CardinalityType DEF HeapInv, IType
<1>4. Cardinality(Live(memory')) \in Nat /\ Cardinality(heap') \in Nat
  BY <1>1, LiveFinite, FS_CardinalityType DEF HeapInv, IType
<1>5. ASSUME NEW t \in Threads, Persist(t)
      PROVE  CapInv'
  <2>1. /\ Cardinality(Live(memory')) <= MaxEntries
        /\ Cardinality(heap') <= 2 * MaxEntries
        /\ call' = [call EXCEPT ![t] = None]
    BY <1>5, PersistCap
  <2>2. \A u \in Threads : ~At(u, "evict")'
    BY <1>5, <2>1 DEF Persist, Mutex, At, HeapInv, IType, TypeOK
  <2>. QED
    BY <1>1, <1>2, <2>1, <2>2
<1>6. ASSUME \A t \in Threads : ~Persist(t)
      PROVE  Cardinality(Live(memory')) <= MaxEntries
  <2>1. Cardinality(Live(memory')) <= Cardinality(Live(memory))
    BY <1>6, LiveStep, LiveShrinks
  <2>. QED
    BY <1>3, <1>4, <2>1
<1>7. ASSUME \A u \in Threads : ~Persist(u), NEW t \in Threads, EnterStore(t)
      PROVE  CapInv'
  <2>1. Cardinality(heap') < 2 * MaxEntries
    BY <1>1, <1>7, EnterCap
  <2>. QED
    BY <1>1, <1>2, <1>3, <1>4, <1>6, <1>7, <2>1
<1>8. ASSUME \A u \in Threads : ~Persist(u) /\ ~EnterStore(u)
      PROVE  CapInv'
  <2>1. Cardinality(heap') <= Cardinality(heap) \/ Cardinality(heap') = Cardinality(Live(memory))
    BY <1>8, HeapShrinks
  <2>2. Cardinality(heap') <= 2 * MaxEntries
    BY <1>3, <1>4, <2>1
  <2>3. ASSUME NEW u \in Threads, At(u, "evict")'
        PROVE  Cardinality(heap') < 2 * MaxEntries
    <3>1. Cardinality(heap) < 2 * MaxEntries
      BY <1>2, <1>8, <2>3
    <3>. QED
      BY <1>3, <1>4, <2>1, <3>1
  <2>. QED
    BY <1>1, <1>2, <1>6, <1>8, <2>2, <2>3
<1>. QED
  BY <1>5, <1>7, <1>8

\* A volatile store never holds more than max_entries entries.
THEOREM CapacityBounded == ASSUME Volatile, MaxEntries > 0 PROVE Spec => []CapacityBound
<1>1. CapInv => CapacityBound
  BY VolatileGet DEF CapInv, HeapInv, CapacityBound
<1>2. CapInv /\ [Next]_vars => CapInv'
  BY CapStep
<1>3. Init => CapInv
  BY CapInit
<1>. QED
  BY <1>1, <1>2, <1>3, PTL DEF Spec

\* Its eviction heap never holds more than twice max_entries tuples.
THEOREM HeapStaysBounded == ASSUME Volatile, MaxEntries > 0 PROVE Spec => []HeapBounded
<1>1. CapInv => HeapBounded
  BY DEF CapInv, HeapBounded
<1>2. CapInv /\ [Next]_vars => CapInv'
  BY CapStep
<1>3. Init => CapInv
  BY CapInit
<1>. QED
  BY <1>1, <1>2, <1>3, PTL DEF Spec

\* The heap of a volatile store stays well formed, in step with the entries
\* and bounded, so that eviction can reach every entry and nothing leaks.
THEOREM HeapStaysExact == ASSUME Volatile, MaxEntries > 0 PROVE Spec => []HeapExact
<1>1. TypeOK /\ HeapAccounting /\ HeapCoverage /\ HeapBounded => HeapExact
  BY DEF HeapExact
<1>. QED
  BY <1>1, TypeCorrect, HeapAccounted, HeapCovers, HeapStaysBounded, PTL

\* Only EvictOldest removes an entry while a thread stays inside its loop.
LEMMA OnlyEviction ==
    ASSUME Volatile, CapInv, [Next]_vars, NEW k \in Keys, Evicts(k), HeapInv'
    PROVE  \E t \in Threads : EvictOldest(t)
<1>. USE DEF CapInv
<1>1. PICK t \in Threads : At(t, "evict") /\ call'[t] = call[t]
  BY DEF Evicts
<1>2. memory[k] # None /\ memory'[k] = None
  <2>1. Lookup(file', memory', k) = memory'[k]
    BY DEF HeapInv, NoRows, Lookup
  <2>. QED
    BY <2>1, VolatileGet DEF Evicts, HeapInv
<1>3. ~LockFree
  BY <1>1 DEF LockFree, At
<1>4. ASSUME NEW u \in Threads, StoreStep(u), ~EvictOldest(u)
      PROVE  FALSE
  <2>1. CASE EnterStore(u) \/ RetryPersist(u)
    BY <1>3, <2>1 DEF EnterStore, RetryPersist
  <2>2. CASE PopStale(u) \/ RebuildDrained(u)
    BY <1>2, <2>2 DEF PopStale, RebuildDrained
  <2>3. CASE DropCollision(u)
    BY <1>1, <2>3 DEF DropCollision, Mutex, At, HeapInv, IType, TypeOK
  <2>4. CASE Persist(u)
    <3>1. KeyOf[call[u].entry.content] \in Keys /\ call[u].entry \in Entry
      BY <2>4, CallType DEF Persist, At, HeapInv, IType
    <3>2. memory' = [memory EXCEPT ![KeyOf[call[u].entry.content]] = call[u].entry]
      BY <2>4, <3>1, VolatileWrite DEF Persist
    <3>. QED
      BY <1>2, <3>1, <3>2, StoreAssumption DEF HeapInv, Accounted, Tier
  <2>. QED
    BY <1>4, <2>1, <2>2, <2>3, <2>4 DEF StoreStep
<1>5. ASSUME NEW e \in ImportRows, Import(e)
      PROVE  FALSE
  BY <1>5 DEF Volatile
<1>6. ~Restart
  BY <1>1 DEF Restart, At
<1>7. ASSUME NEW u \in Threads, NEW c \in Contents, NEW ttl \in Ttls, NEW d \in BOOLEAN,
             BeginStore(u, c, ttl, d)
      PROVE  FALSE
  BY <1>2, <1>7 DEF BeginStore
<1>8. ~Tick /\ ~UNCHANGED vars
  BY <1>2 DEF Tick, vars
<1>. QED
  BY <1>3, <1>4, <1>5, <1>6, <1>7, <1>8 DEF Next, RetrieveHit, ReapExpired, ReapSpill, Delete, GetStats,
     Clear

LEMMA OldestStep ==
    ASSUME Volatile, CapInv, [Next]_vars, HeapInv', NEW k \in Keys, Evicts(k), NEW j \in Present
    PROVE  Get(k).created <= Get(j).created
<1>. USE DEF CapInv, HeapInv
<1>1. PICK t \in Threads : EvictOldest(t)
  BY OnlyEviction
<1>2. PICK d \in heap, ok \in Reaches : Top(d) /\ Real(d) /\ Erase(d.key, ok)
  BY <1>1 DEF EvictOldest
<1>3. d.key = k
  <2>1. memory[k] # None /\ memory'[k] = None
    <3>1. Lookup(file', memory', k) = memory'[k]
      BY DEF NoRows, Lookup
    <3>. QED
      BY <3>1, VolatileGet DEF Evicts
  <2>2. memory' = [memory EXCEPT ![d.key] = None]
    BY <1>2 DEF Erase
  <2>. QED
    BY <2>1, <2>2 DEF Accounted, Tier
<1>4. PICK x \in heap : x.key = j /\ x.created = memory[j].created
  BY VolatileGet DEF Accounted, Covers
<1>5. d.created = Get(k).created /\ x.created = Get(j).created
  BY <1>2, <1>3, <1>4, VolatileGet DEF Real, Live
<1>. QED
  BY <1>2, <1>4, <1>5 DEF Top

\* In a volatile store a capacity eviction always takes an entry no live entry
\* is older than.
THEOREM OldestEvictedFirst == ASSUME Volatile, MaxEntries > 0 PROVE Spec => EvictsOldestFirst
<1>1. CapInv /\ CapInv' /\ [Next]_vars =>
          [\A k \in Keys : Evicts(k) => \A j \in Present : Get(k).created <= Get(j).created]_vars
  BY OldestStep DEF CapInv
<1>2. CapInv /\ [Next]_vars => CapInv'
  BY CapStep
<1>3. Init => CapInv
  BY CapInit
<1>. QED
  BY <1>1, <1>2, <1>3, PTL DEF Spec, EvictsOldestFirst

-----------------------------------------------------------------------------
(* Promises: what a marker that was shipped may expect of the tiers.  *)

\* An imported row is bound to the key of its own content only.
ImportsMatch == \A e \in ImportRows, c \in Contents : KeyOf[e.content] = KeyOf[c] => e.content = c

\* An entry answers for a promise to the end of its window.
Answers(e, p) == e # None /\ e.content = p.content /\ p.until <= Until(e)

\* The promise p of key k, with its row f, its overlay entry m and its spill row s at time n:
\* a durable one rests on the row, one of a volatile store on the entry, or on the spill row
\* once the entry went.
KeptWith(k, p, f, m, s, n) ==
    p # None =>
        /\ KeyOf[p.content] = k
        /\ p.durable => Durable
        /\ n <= p.until => IF Durable THEN p.durable => Answers(f, p)
                           ELSE Answers(IF m # None THEN m ELSE s, p)

KeptAt(k) == KeptWith(k, promise[k], file[k], memory[k], spill[k], now)

PromiseInv ==
    /\ IType
    /\ ~Durable => NoRows
    /\ \A k \in Keys : KeptAt(k)

\* A promise is kept when entries go whose window ended, or that it does not rest on.
LEMMA LossKeeps ==
    ASSUME NEW k, NEW p \in Promise \cup {None}, NEW f \in Entry \cup {None}, NEW m \in Entry \cup {None},
           NEW s \in Entry \cup {None}, NEW f2, NEW m2, NEW s2, NEW n \in Nat, NEW n2 \in Nat, n <= n2,
           KeptWith(k, p, f, m, s, n),
           Durable => f2 = f \/ f = None \/ n > Until(f),
           ~Durable => \/ m2 = m /\ s2 = s
                       \/ m = None /\ m2 = None /\ (s = None \/ n > Until(s))
                       \/ m # None /\ m2 = None /\ n > Until(m)
                       \/ m # None /\ m2 = m
    PROVE  KeptWith(k, p, f2, m2, s2, n2)
<1>1. \A e \in {f, m, s} : e # None => Until(e) \in Nat
  BY UntilNat
<1>2. p # None => p.until \in Nat
  BY DEF Promise
<1>. SUFFICES ASSUME p # None, n2 <= p.until
              PROVE  IF Durable THEN p.durable => Answers(f2, p)
                     ELSE Answers(IF m2 # None THEN m2 ELSE s2, p)
  BY DEF KeptWith
<1>3. n <= p.until
  BY <1>2
<1>4. CASE Durable
  <2>1. p.durable => Answers(f, p)
    BY <1>3, <1>4 DEF KeptWith
  <2>2. CASE n > Until(f) /\ f # None
    BY <1>1, <1>2, <1>3, <2>1, <2>2, <1>4 DEF Answers
  <2>3. CASE f2 = f \/ f = None
    BY <1>4, <2>1, <2>3 DEF Answers
  <2>. QED
    BY <1>4, <2>2, <2>3
<1>5. CASE ~Durable
  <2>1. Answers(IF m # None THEN m ELSE s, p)
    BY <1>3, <1>5 DEF KeptWith
  <2>2. CASE m2 = m /\ s2 = s
    BY <1>5, <2>1, <2>2
  <2>3. CASE m = None /\ m2 = None /\ (s = None \/ n > Until(s))
    BY <1>1, <1>2, <1>3, <1>5, <2>1, <2>3 DEF Answers
  <2>4. CASE m # None /\ m2 = None /\ n > Until(m)
    BY <1>1, <1>2, <1>3, <1>5, <2>1, <2>4 DEF Answers
  <2>5. CASE m # None /\ m2 = m
    BY <1>5, <2>1, <2>5
  <2>. QED
    BY <1>5, <2>2, <2>3, <2>4, <2>5
<1>. QED
  BY <1>4, <1>5

\* An expired entry is one whose window ended.
LEMMA ExpiredUntil ==
    ASSUME now \in Times, NEW e \in Entry
    PROVE  Expired(e) <=> now > Until(e)
<1>1. e.created \in Times /\ e.ttl \in Ttls
  BY DEF Entry
<1>2. MaxTime \in Nat /\ Ttls \subseteq Nat
  BY StoreAssumption
<1>3. e.created \in 0..MaxTime /\ now \in 0..MaxTime
  BY <1>1 DEF Times
<1>4. e.created \in Nat /\ now \in Nat
  BY <1>2, <1>3
<1>5. e.ttl \in Nat
  BY <1>1, <1>2
<1>. QED
  BY <1>4, <1>5 DEF Expired, Until

\* What the types say of a key.
LEMMA KeyTypes ==
    ASSUME IType, NEW k \in Keys
    PROVE  /\ promise[k] \in Promise \cup {None}
           /\ file[k] \in Entry \cup {None} /\ memory[k] \in Entry \cup {None} /\ spill[k] \in Entry \cup {None}
           /\ now \in Nat
           /\ None \notin Entry \cup Promise
<1>1. now \in 0..MaxTime /\ MaxTime \in Nat
  BY StoreAssumption DEF IType, TypeOK, Times
<1>. QED
  BY <1>1, StoreAssumption DEF IType, TypeOK

\* A purge of expired entries.
LEMMA PurgeKeeps ==
    ASSUME PromiseInv, NEW ok \in Reaches, PurgeExpired(ok), UNCHANGED <<now, spill, promise>>
    PROVE  (~Durable => NoRows)' /\ \A k \in Keys : KeptAt(k)'
<1>1. ~Durable => NoRows'
  BY DEF PromiseInv, NoRows, PurgeExpired, Without
<1>2. ASSUME NEW k \in Keys PROVE KeptAt(k)'
  <2>1. KeptWith(k, promise[k], file[k], memory[k], spill[k], now)
    BY DEF PromiseInv, KeptAt
  <2>2. /\ file'[k] = file[k] \/ (file[k] # None /\ Expired(file[k]))
        /\ memory'[k] = memory[k] \/ (memory'[k] = None /\ memory[k] # None /\ Expired(memory[k]))
    BY DEF PurgeExpired, Without, PurgedRows, ExpiredIn
  <2>3. /\ promise[k] \in Promise \cup {None}
        /\ file[k] \in Entry \cup {None} /\ memory[k] \in Entry \cup {None} /\ spill[k] \in Entry \cup {None}
        /\ now \in Nat /\ now \in Times
    BY KeyTypes DEF PromiseInv, IType, TypeOK
  <2>4. /\ file'[k] = file[k] \/ file[k] = None \/ now > Until(file[k])
        /\ memory'[k] = memory[k] \/ (memory'[k] = None /\ memory[k] # None /\ now > Until(memory[k]))
    BY <2>2, <2>3, ExpiredUntil
  <2>5. KeptWith(k, promise[k], file'[k], memory'[k], spill[k], now)
    <3>. DEFINE p == promise[k]  f == file[k]  m == memory[k]  s == spill[k]  f2 == file'[k]  m2 == memory'[k]
    <3>. HIDE DEF p, f, m, s, f2, m2
    <3>1. KeptWith(k, p, f, m, s, now) /\ p \in Promise \cup {None} /\ f \in Entry \cup {None}
          /\ m \in Entry \cup {None} /\ s \in Entry \cup {None} /\ now \in Nat
      BY <2>1, <2>3 DEF p, f, m, s
    <3>2. /\ f2 = f \/ f = None \/ now > Until(f)
          /\ m2 = m \/ (m2 = None /\ m # None /\ now > Until(m))
      BY <2>4 DEF f, m, f2, m2
    <3>3. KeptWith(k, p, f2, m2, s, now)
      BY <3>1, <3>2, LossKeeps
    <3>. QED
      BY <3>3 DEF p, f2, m2, s
  <2>. QED
    BY <2>5 DEF KeptAt
<1>. QED
  BY <1>1, <1>2

\* A step that leaves a key and its promise alone, whatever the clock does.
LEMMA StillKeeps ==
    ASSUME PromiseInv, NEW k \in Keys, promise'[k] = promise[k], file'[k] = file[k], memory'[k] = memory[k],
           spill'[k] = spill[k], now' \in Nat, now <= now'
    PROVE  KeptAt(k)'
<1>1. KeptWith(k, promise[k], file[k], memory[k], spill[k], now)
  BY DEF PromiseInv, KeptAt
<1>2. now \in Nat /\ (promise[k] # None => promise[k].until \in Nat)
  BY KeyTypes DEF PromiseInv, Promise
<1>3. KeptWith(k, promise[k], file[k], memory[k], spill[k], now')
  BY <1>1, <1>2 DEF KeptWith
<1>. QED
  BY <1>3 DEF KeptAt

LEMMA NoPromise ==
    ASSUME NEW k \in Keys, promise'[k] = None
    PROVE  KeptAt(k)'
BY DEF KeptAt, KeptWith

\* A marker ships for what its key holds now, durably only if the row holds it.
LEMMA ShipKeeps ==
    ASSUME PromiseInv, NEW t \in Threads, call[t] # None, NEW k, k = KeyOf[call[t].entry.content], NEW e, e = call[t].entry,
           NEW ok \in Reaches, Write(k, e, ok), Ship(t), UNCHANGED <<now, spill>>,
           ok \/ (~call[t].requireDurable /\ ~Collides(e))
    PROVE  KeptAt(k)'
<1>1. e \in Entry /\ k \in Keys /\ e # None
  BY CallType, StoreAssumption DEF PromiseInv, IType
<1>2. file'[k] = (IF Durable /\ ok THEN e ELSE file[k]) /\ memory'[k] = IF Durable /\ ok THEN None ELSE e
  BY <1>1 DEF Write, PromiseInv, IType, TypeOK
<1>. DEFINE held == Lookup(file', memory', k)
            p2 == [content |-> e.content, until |-> Until(held),
                   durable |-> (Durable /\ call[t].requireDurable) \/ StillDurable(k)]
<1>3. promise'[k] = p2
  BY <1>1 DEF Ship, PromiseInv, IType, TypeOK
<1>4. StillDurable(k) => Durable /\ file[k] # None
  BY <1>1 DEF StillDurable, PromiseInv, KeptAt, KeptWith
<1>5. held = IF file'[k] # None THEN file'[k] ELSE memory'[k]
  BY DEF Lookup
<1>6. Until(held) <= Until(held)
  <2>1. held \in Entry
    BY <1>1, WriteType DEF PromiseInv, IType
  <2>. QED
    BY <2>1, UntilNat
<1>. HIDE DEF held
<1>7. CASE Durable
  <2>1. ASSUME p2.durable PROVE file'[k] # None /\ file'[k].content = e.content
    <3>1. CASE ok
      BY <1>1, <1>2, <1>7, <3>1
    <3>2. CASE ~ok
      <4>1. StillDurable(k) /\ file[k] # None /\ ~Collides(e)
        BY <1>4, <2>1, <3>2
      <4>. QED
        BY <1>1, <1>2, <3>2, <4>1 DEF Collides, Get, Lookup
    <3>. QED
      BY <3>1, <3>2
  <2>2. p2.durable => Answers(file'[k], p2)
    BY <1>5, <1>6, <2>1 DEF Answers
  <2>. QED
    BY <1>1, <1>3, <1>7, <2>2 DEF KeptAt, KeptWith
<1>8. CASE ~Durable
  <2>1. file'[k] = None /\ memory'[k] = e
    BY <1>1, <1>2, <1>8 DEF PromiseInv, NoRows
  <2>2. Answers(memory'[k], p2)
    BY <1>1, <1>5, <1>6, <2>1 DEF Answers
  <2>3. ~p2.durable
    BY <1>4, <1>8
  <2>. QED
    BY <1>1, <1>3, <1>8, <2>1, <2>2, <2>3 DEF KeptAt, KeptWith
<1>. QED
  BY <1>7, <1>8

\* A write that ships no marker moves the window of the one that is out.
LEMMA RewindowKeeps ==
    ASSUME PromiseInv, NEW e \in Entry, NEW k \in Keys, k = KeyOf[e.content],
           NEW ok \in Reaches, Write(k, e, ok), promise'[k] = Rewindow(k), UNCHANGED <<now, spill>>,
           ok => \A c \in Contents : KeyOf[e.content] = KeyOf[c] => e.content = c
    PROVE  KeptAt(k)'
<1>1. file'[k] = (IF Durable /\ ok THEN e ELSE file[k]) /\ memory'[k] = IF Durable /\ ok THEN None ELSE e
  BY DEF Write, PromiseInv, IType, TypeOK
<1>. DEFINE held == Lookup(file', memory', k)
<1>2. held = (IF file'[k] # None THEN file'[k] ELSE memory'[k]) /\ e # None
  BY StoreAssumption DEF Lookup
<1>3. held \in Entry
  BY WriteType DEF PromiseInv, IType
<1>4. Until(held) <= Until(held)
  BY <1>3, UntilNat
<1>. HIDE DEF held
<1>. SUFFICES ASSUME promise'[k] # None PROVE KeptAt(k)'
  BY NoPromise
<1>5. /\ promise[k] # None
      /\ promise'[k] = [content |-> promise[k].content, until |-> Until(held), durable |-> StillDurable(k)]
      /\ now > promise[k].until => held.content = promise[k].content
  BY DEF Rewindow, held
<1>6. /\ KeyOf[promise[k].content] = k /\ (StillDurable(k) => Durable /\ promise[k].durable /\ file[k] # None)
      /\ now <= promise[k].until => IF Durable THEN promise[k].durable => Answers(file[k], promise[k])
                                    ELSE Answers(IF memory[k] # None THEN memory[k] ELSE spill[k], promise[k])
  BY <1>5 DEF PromiseInv, KeptAt, KeptWith, StillDurable
<1>7. promise[k].content \in Contents /\ promise[k].until \in Nat /\ now \in Nat
  BY <1>5, KeyTypes DEF PromiseInv, Promise
<1>8. now <= promise[k].until \/ now > promise[k].until
  BY <1>7
<1>9. ok => e.content = promise[k].content
  BY <1>6, <1>7
<1>10. ~ok => Durable
  BY DEF Reaches
<1>11. CASE Durable
  <2>1. ASSUME StillDurable(k) PROVE file'[k] # None /\ held = file'[k] /\ held.content = promise[k].content
    <3>1. CASE ok
      BY <1>1, <1>2, <1>9, <1>11, <3>1
    <3>2. CASE ~ok
      BY <1>1, <1>2, <1>5, <1>6, <1>8, <1>11, <2>1, <3>2 DEF Answers
    <3>. QED
      BY <3>1, <3>2
  <2>2. promise'[k].durable => Answers(file'[k], promise'[k])
    BY <1>4, <1>5, <2>1 DEF Answers
  <2>3. KeyOf[promise'[k].content] = k
    BY <1>5, <1>6
  <2>. QED
    BY <1>11, <2>2, <2>3 DEF KeptAt, KeptWith
<1>12. CASE ~Durable
  <2>1. held = e /\ memory'[k] = e /\ e.content = promise[k].content
    BY <1>1, <1>2, <1>9, <1>10, <1>12 DEF PromiseInv, NoRows
  <2>2. /\ promise'[k].content = promise[k].content /\ promise'[k].until = Until(held)
        /\ promise'[k].durable = StillDurable(k)
    BY <1>5
  <2>3. Answers(memory'[k], promise'[k])
    BY <1>2, <1>4, <2>1, <2>2 DEF Answers
  <2>4. KeyOf[promise'[k].content] = k
    BY <1>6, <2>2
  <2>5. ~promise'[k].durable
    BY <1>6, <1>12, <2>2
  <2>6. memory'[k] # None
    BY <1>2, <2>1
  <2>. QED
    BY <1>12, <2>3, <2>4, <2>5, <2>6 DEF KeptAt, KeptWith
<1>. QED
  BY <1>11, <1>12

\* The steps of store(), but for the purge: another key is left alone.
LEMMA StoreStepKeeps ==
    ASSUME PromiseInv, NEW t \in Threads, StoreStep(t)
    PROVE  (~Durable => NoRows)' /\ \A k \in Keys : KeptAt(k)'
<1>1. now \in Nat
  BY KeyTypes, StoreAssumption DEF PromiseInv, IType, TypeOK, Times
<1>2. /\ file \in [Keys -> Entry \cup {None}] /\ memory \in [Keys -> Entry \cup {None}]
      /\ spill \in [Keys -> Entry \cup {None}] /\ promise \in [Keys -> Promise \cup {None}]
  BY DEF PromiseInv, IType, TypeOK
<1>3. ASSUME NEW j \in Keys, NEW ok, Erase(j, ok) PROVE (~Durable => NoRows)'
  BY <1>2, <1>3 DEF PromiseInv, NoRows, Erase
<1>4. ASSUME NEW x \in Keys, NEW y, NEW ok, Write(x, y, ok) PROVE (~Durable => NoRows)'
  BY <1>2, <1>4 DEF PromiseInv, NoRows, Write
<1>5. CASE EnterStore(t)
  BY <1>5, PurgeKeeps DEF EnterStore
<1>6. CASE EvictOldest(t)
  <2>1. PICK d \in heap, ok \in Reaches, demoted \in SpillOutcomes :
            /\ spill' = IF SpillOn /\ demoted THEN [spill EXCEPT ![d.key] = Get(d.key)] ELSE spill
            /\ Erase(d.key, ok) /\ Get(d.key) # None
            /\ IF SpillOn /\ demoted THEN UNCHANGED promise ELSE Withdraw(d.key)
    BY <1>6 DEF EvictOldest, Real
  <2>2. d.key \in Keys /\ now' = now
    BY <1>6 DEF PromiseInv, IType, TypeOK, HeapTuple, EvictOldest
  <2>3. ASSUME NEW j \in Keys, j # d.key PROVE KeptAt(j)'
    <3>1. file'[j] = file[j] /\ memory'[j] = memory[j] /\ spill'[j] = spill[j] /\ promise'[j] = promise[j]
      BY <1>2, <2>1, <2>2, <2>3 DEF Erase, Withdraw
    <3>. QED
      BY <1>1, <2>2, <3>1, StillKeeps
  <2>4. KeptAt(d.key)'
    <3>1. CASE ~(SpillOn /\ demoted)
      BY <1>2, <2>1, <2>2, <3>1, NoPromise DEF Withdraw
    <3>2. CASE SpillOn /\ demoted
      <4>1. ~Durable /\ NoRows
        BY <3>2, FlagAssumption DEF PromiseInv
      <4>2. Get(d.key) = memory[d.key] /\ memory[d.key] # None
        BY <2>1, <2>2, <4>1 DEF NoRows, Get, Lookup
      <4>3. /\ memory'[d.key] = None /\ spill'[d.key] = memory[d.key] /\ promise'[d.key] = promise[d.key]
        BY <1>2, <2>1, <2>2, <3>2, <4>2 DEF Erase
      <4>. QED
        BY <2>2, <4>1, <4>2, <4>3 DEF PromiseInv, KeptAt, KeptWith
    <3>. QED
      BY <3>1, <3>2
  <2>. QED
    BY <1>3, <2>1, <2>2, <2>3, <2>4
<1>7. CASE PopStale(t) \/ RebuildDrained(t)
  BY <1>1, <1>7, StillKeeps DEF PopStale, RebuildDrained, PromiseInv, NoRows
<1>8. CASE DropCollision(t)
  <2>1. call[t] # None
    BY <1>8 DEF DropCollision, At
  <2>2. PICK j \in Keys : j = KeyOf[call[t].entry.content]
    BY <2>1, CallType DEF PromiseInv, IType
  <2>3. PICK ok \in Reaches : Erase(j, ok)
    BY <1>8, <2>2 DEF DropCollision
  <2>4. promise' = [promise EXCEPT ![j] = None] /\ UNCHANGED <<now, spill>>
    BY <1>8, <2>2 DEF DropCollision, Withdraw
  <2>5. ASSUME NEW k \in Keys PROVE KeptAt(k)'
    <3>1. CASE k = j
      BY <1>2, <2>2, <2>4, <3>1, NoPromise
    <3>2. CASE k # j
      BY <1>1, <1>2, <2>2, <2>3, <2>4, <3>2, StillKeeps DEF Erase
    <3>. QED
      BY <3>1, <3>2
  <2>. QED
    BY <1>3, <2>2, <2>3, <2>5
<1>9. CASE Persist(t) \/ RetryPersist(t)
  <2>1. call[t] # None /\ UNCHANGED <<now, spill>>
    BY <1>9 DEF Persist, RetryPersist, At
  <2>2. PICK e \in Entry, j \in Keys : e = call[t].entry /\ j = KeyOf[call[t].entry.content]
    BY <2>1, CallType DEF PromiseInv, IType
  <2>3. PICK ok \in Reaches :
            /\ Write(j, e, ok)
            /\ \/ Ship(t) /\ (ok \/ (~call[t].requireDurable /\ ~Collides(e)))
               \/ ~ok /\ promise' = [promise EXCEPT ![j] = Rewindow(j)]
    BY <1>9, <2>2 DEF Persist, RetryPersist, Returns
  <2>4. ASSUME NEW k \in Keys, k # j PROVE KeptAt(k)'
    <3>1. file'[k] = file[k] /\ memory'[k] = memory[k] /\ promise'[k] = promise[k]
      BY <1>2, <2>2, <2>3, <2>4 DEF Write, Ship
    <3>. QED
      BY <1>1, <2>1, <3>1, StillKeeps
  <2>5. KeptAt(j)'
    <3>1. CASE Ship(t) /\ (ok \/ (~call[t].requireDurable /\ ~Collides(e)))
      BY <2>1, <2>2, <2>3, <3>1, ShipKeeps
    <3>2. CASE ~ok /\ promise' = [promise EXCEPT ![j] = Rewindow(j)]
      <4>1. promise'[j] = Rewindow(j) /\ j = KeyOf[e.content]
        BY <1>2, <2>2, <3>2
      <4>. QED
        BY <2>1, <2>2, <2>3, <3>2, <4>1, RewindowKeeps
    <3>. QED
      BY <2>3, <3>1, <3>2
  <2>. QED
    BY <1>4, <2>2, <2>3, <2>4, <2>5
<1>. QED
  BY <1>5, <1>6, <1>7, <1>8, <1>9 DEF StoreStep

\* The other operations.
LEMMA OtherStepKeeps ==
    ASSUME ImportsMatch, PromiseInv, Next, \A t \in Threads : ~StoreStep(t)
    PROVE  (~Durable => NoRows)' /\ \A k \in Keys : KeptAt(k)'
<1>1. now \in Nat /\ now \in Times
  BY KeyTypes, StoreAssumption DEF PromiseInv, IType, TypeOK, Times
<1>2. /\ file \in [Keys -> Entry \cup {None}] /\ memory \in [Keys -> Entry \cup {None}]
      /\ spill \in [Keys -> Entry \cup {None}] /\ promise \in [Keys -> Promise \cup {None}]
  BY DEF PromiseInv, IType, TypeOK
<1>3. ASSUME UNCHANGED <<file, memory, spill, promise>>, now' \in Nat, now <= now'
      PROVE  (~Durable => NoRows)' /\ \A k \in Keys : KeptAt(k)'
  BY <1>3, StillKeeps DEF PromiseInv, NoRows
<1>4. ASSUME NEW t \in Threads, NEW c \in Contents, NEW ttl \in Ttls, NEW d \in BOOLEAN, BeginStore(t, c, ttl, d)
      PROVE  (~Durable => NoRows)' /\ \A k \in Keys : KeptAt(k)'
  BY <1>1, <1>3, <1>4 DEF BeginStore
<1>5. ASSUME Tick PROVE (~Durable => NoRows)' /\ \A k \in Keys : KeptAt(k)'
  <2>1. now' = now + TickSize /\ TickSize \in Nat
    BY <1>5, StoreAssumption DEF Tick
  <2>2. now' \in Nat /\ now <= now'
    BY <1>1, <2>1
  <2>. QED
    BY <1>3, <1>5, <2>2 DEF Tick
<1>6. ASSUME GetStats PROVE (~Durable => NoRows)' /\ \A k \in Keys : KeptAt(k)'
  BY <1>6, PurgeKeeps DEF GetStats
<1>7. ASSUME Clear PROVE (~Durable => NoRows)' /\ \A k \in Keys : KeptAt(k)'
  BY <1>7, NoPromise DEF Clear, PromiseInv, NoRows
<1>8. ASSUME NEW j \in Keys, RetrieveHit(j) \/ ReapExpired(j) \/ ReapSpill(j) \/ Delete(j)
      PROVE  (~Durable => NoRows)' /\ \A k \in Keys : KeptAt(k)'
  <2>1. \A k \in Keys \ {j} :
            file'[k] = file[k] /\ memory'[k] = memory[k] /\ spill'[k] = spill[k] /\ promise'[k] = promise[k]
    BY <1>2, <1>8 DEF RetrieveHit, ReapExpired, ReapSpill, Delete, Erase, Write, Withdraw
  <2>2. now' = now
    BY <1>8 DEF RetrieveHit, ReapExpired, ReapSpill, Delete
  <2>3. (~Durable => NoRows)'
    BY <1>2, <1>8 DEF RetrieveHit, ReapExpired, ReapSpill, Delete, Erase, Write, PromiseInv, NoRows
  <2>4. ASSUME promise'[j] = promise[j],
               Durable => file'[j] = file[j] \/ file[j] = None \/ now > Until(file[j]),
               ~Durable => \/ memory'[j] = memory[j] /\ spill'[j] = spill[j]
                           \/ memory[j] = None /\ memory'[j] = None /\ (spill[j] = None \/ now > Until(spill[j]))
                           \/ memory[j] # None /\ memory'[j] = None /\ now > Until(memory[j])
                           \/ memory[j] # None /\ memory'[j] = memory[j]
        PROVE  KeptAt(j)'
    <3>1. KeptWith(j, promise[j], file[j], memory[j], spill[j], now)
      BY DEF PromiseInv, KeptAt
    <3>. DEFINE p == promise[j]  f == file[j]  m == memory[j]  s == spill[j]
                f2 == file'[j]  m2 == memory'[j]  s2 == spill'[j]
    <3>2. /\ p \in Promise \cup {None} /\ f \in Entry \cup {None} /\ m \in Entry \cup {None} /\ s \in Entry \cup {None}
          /\ KeptWith(j, p, f, m, s, now)
      BY <3>1, KeyTypes DEF PromiseInv
    <3>3. /\ Durable => f2 = f \/ f = None \/ now > Until(f)
          /\ ~Durable => \/ m2 = m /\ s2 = s
                         \/ m = None /\ m2 = None /\ (s = None \/ now > Until(s))
                         \/ m # None /\ m2 = None /\ now > Until(m)
                         \/ m # None /\ m2 = m
      BY <2>4
    <3>. HIDE DEF p, f, m, s, f2, m2, s2
    <3>4. now <= now
      BY <1>1
    <3>5. KeptWith(j, p, f2, m2, s2, now)
      BY <1>1, <3>2, <3>3, <3>4, LossKeeps
    <3>. QED
      BY <2>2, <2>4, <3>5 DEF KeptAt, p, f2, m2, s2
  <2>5. Get(j) = IF file[j] # None THEN file[j] ELSE memory[j]
    BY DEF Get, Lookup
  <2>6. ASSUME RetrieveHit(j) PROVE KeptAt(j)'
    <3>1. PICK ok \in Reaches : Write(j, Get(j), ok)
      BY <2>6 DEF RetrieveHit
    <3>2. promise'[j] = promise[j] /\ spill'[j] = spill[j] /\ Get(j) # None
      BY <2>6 DEF RetrieveHit
    <3>3. /\ file'[j] = IF Durable /\ ok THEN Get(j) ELSE file[j]
          /\ memory'[j] = IF Durable /\ ok THEN None ELSE Get(j)
      BY <1>2, <3>1 DEF Write
    <3>4. ~Durable => file[j] = None
      BY DEF PromiseInv, NoRows
    <3>. QED
      BY <2>4, <2>5, <3>2, <3>3, <3>4
  <2>7. ASSUME ReapExpired(j) PROVE KeptAt(j)'
    <3>1. PICK ok \in Reaches : Erase(j, ok)
      BY <2>7 DEF ReapExpired
    <3>2. promise'[j] = promise[j] /\ spill'[j] = spill[j] /\ Get(j) # None /\ Expired(Get(j))
      BY <2>7 DEF ReapExpired
    <3>3. file'[j] = (IF ok THEN None ELSE file[j]) /\ memory'[j] = None
      BY <1>2, <3>1 DEF Erase
    <3>4. ~Durable => file[j] = None
      BY DEF PromiseInv, NoRows
    <3>5. Get(j) \in Entry
      BY <1>2, <2>5, <3>2
    <3>6. now > Until(Get(j))
      BY <1>1, <3>2, <3>5, ExpiredUntil
    <3>. QED
      BY <2>4, <2>5, <3>2, <3>3, <3>4, <3>6
  <2>8. ASSUME ReapSpill(j) PROVE KeptAt(j)'
    <3>1. /\ promise'[j] = promise[j] /\ file' = file /\ memory' = memory /\ Get(j) = None
          /\ spill[j] # None /\ Expired(spill[j])
      BY <2>8 DEF ReapSpill
    <3>2. now > Until(spill[j])
      BY <1>1, <1>2, <3>1, ExpiredUntil
    <3>. QED
      BY <2>4, <2>5, <3>1, <3>2
  <2>9. ASSUME Delete(j) PROVE KeptAt(j)'
    BY <1>2, <2>9, NoPromise DEF Delete, Withdraw
  <2>10. ASSUME NEW k \in Keys, k # j PROVE KeptAt(k)'
    BY <1>1, <2>1, <2>2, <2>10, StillKeeps
  <2>. QED
    BY <1>8, <2>3, <2>6, <2>7, <2>8, <2>9, <2>10
<1>9. ASSUME NEW e \in ImportRows, Import(e)
      PROVE  (~Durable => NoRows)' /\ \A k \in Keys : KeptAt(k)'
  <2>. DEFINE j == KeyOf[e.content]
  <2>1. e \in Entry /\ j \in Keys
    BY StoreAssumption DEF Entry
  <2>2. PICK ok \in Reaches : Write(j, e, ok)
    BY <1>9 DEF Import
  <2>3. promise' = [promise EXCEPT ![j] = Rewindow(j)] /\ UNCHANGED <<now, spill>>
    BY <1>9 DEF Import
  <2>4. promise'[j] = Rewindow(j) /\ \A c \in Contents : KeyOf[e.content] = KeyOf[c] => e.content = c
    BY <1>2, <2>1, <2>3 DEF ImportsMatch
  <2>5. KeptAt(j)'
    BY <2>1, <2>2, <2>3, <2>4, RewindowKeeps
  <2>. HIDE DEF j
  <2>6. ASSUME NEW k \in Keys, k # j PROVE KeptAt(k)'
    BY <1>1, <1>2, <2>1, <2>2, <2>3, <2>6, StillKeeps DEF Write
  <2>7. (~Durable => NoRows)'
    BY <1>2, <2>1, <2>2 DEF PromiseInv, NoRows, Write
  <2>. QED
    BY <2>5, <2>6, <2>7
<1>10. ASSUME Restart PROVE (~Durable => NoRows)' /\ \A k \in Keys : KeptAt(k)'
  <2>1. (~Durable => NoRows)'
    BY <1>10 DEF PromiseInv, NoRows, Restart, Without
  <2>2. ASSUME NEW k \in Keys PROVE KeptAt(k)'
    <3>1. /\ file'[k] = file[k] \/ (file[k] # None /\ Expired(file[k]))
          /\ spill'[k] = spill[k] \/ spill'[k] = None
          /\ memory'[k] = None /\ now' = now
          /\ promise'[k] = IF promise[k] # None /\ (promise[k].durable \/ (Get(k) = None /\ spill'[k] # None))
                           THEN promise[k] ELSE None
      BY <1>10 DEF Restart, Without, ExpiredIn
    <3>2. CASE promise'[k] = None
      BY <3>2, NoPromise
    <3>3. CASE promise'[k] # None
      <4>1. promise[k] # None /\ promise'[k] = promise[k] /\ (promise[k].durable \/ (Get(k) = None /\ spill'[k] # None))
        BY <3>1, <3>3
      <4>2. KeptWith(k, promise[k], file[k], memory[k], spill[k], now)
        BY DEF PromiseInv, KeptAt
      <4>3. file'[k] = file[k] \/ file[k] = None \/ now > Until(file[k])
        BY <1>1, <1>2, <3>1, ExpiredUntil
      <4>4. ~Durable => spill'[k] = spill[k] /\ memory[k] = None
        BY <3>1, <4>1, <4>2 DEF KeptWith, Get, Lookup
      <4>. DEFINE p == promise[k]  f == file[k]  m == memory[k]  s == spill[k]  f2 == file'[k]  s2 == spill'[k]
      <4>5. /\ p \in Promise \cup {None} /\ f \in Entry \cup {None} /\ m \in Entry \cup {None} /\ s \in Entry \cup {None}
            /\ KeptWith(k, p, f, m, s, now)
        BY <4>2, KeyTypes DEF PromiseInv
      <4>6. /\ Durable => f2 = f \/ f = None \/ now > Until(f)
            /\ ~Durable => m = None /\ s2 = s
        BY <4>3, <4>4
      <4>. HIDE DEF p, f, m, s, f2, s2
      <4>7. now <= now
        BY <1>1
      <4>8. KeptWith(k, p, f2, None, s2, now)
        BY <1>1, <4>5, <4>6, <4>7, LossKeeps
      <4>. QED
        BY <3>1, <4>1, <4>8 DEF KeptAt, p, f2, s2
    <3>. QED
      BY <3>2, <3>3
  <2>. QED
    BY <2>1, <2>2
<1>. QED
  BY <1>4, <1>5, <1>6, <1>7, <1>8, <1>9, <1>10 DEF Next

LEMMA PromiseInit == Init => PromiseInv
<1>1. Init => \A k \in Keys : KeptAt(k)
  BY DEF Init, KeptAt, KeptWith
<1>. QED
  BY <1>1, TypeInit DEF PromiseInv, Init, NoRows

LEMMA PromiseStep == ImportsMatch /\ PromiseInv /\ [Next]_vars => PromiseInv'
<1>1. ASSUME PromiseInv, UNCHANGED vars PROVE PromiseInv'
  <2>1. UNCHANGED <<now, file, memory, spill, heap, stale, rebuilt, call, shipped, promise>>
    BY <1>1 DEF vars
  <2>2. IType'
    BY <1>1, TypeStep DEF PromiseInv
  <2>3. (~Durable => NoRows)'
    BY <1>1, <2>1 DEF PromiseInv, NoRows
  <2>4. \A k \in Keys : KeptAt(k)'
    BY <1>1, <2>1 DEF PromiseInv, KeptAt
  <2>. QED
    BY <2>2, <2>3, <2>4 DEF PromiseInv
<1>2. ASSUME ImportsMatch, PromiseInv, Next PROVE PromiseInv'
  <2>1. IType'
    BY <1>2, TypeStep DEF PromiseInv
  <2>2. (~Durable => NoRows)' /\ \A k \in Keys : KeptAt(k)'
    BY <1>2, StoreStepKeeps, OtherStepKeeps
  <2>. QED
    BY <2>1, <2>2 DEF PromiseInv
<1>. QED
  BY <1>1, <1>2

\* A promise is an answer of retrieve().
LEMMA PromiseAnswered == PromiseInv => PromiseKept
<1>. SUFFICES ASSUME PromiseInv, NEW k \in Keys, promise[k] # None, now <= promise[k].until,
                     Durable => promise[k].durable
              PROVE  RetrieveResult(k) = promise[k].content
  BY DEF PromiseKept
<1>1. KeptWith(k, promise[k], file[k], memory[k], spill[k], now)
  BY DEF PromiseInv, KeptAt
<1>2. ASSUME NEW e \in Entry, Answers(e, promise[k]) PROVE ~Expired(e) /\ e.content = promise[k].content
  <2>1. now \in Times /\ now \in Nat /\ promise[k].until \in Nat /\ Until(e) \in Nat
    BY KeyTypes, UntilNat DEF PromiseInv, IType, TypeOK, Promise
  <2>2. ~(now > Until(e))
    BY <1>2, <2>1 DEF Answers
  <2>. QED
    BY <1>2, <2>1, <2>2, ExpiredUntil DEF Answers
<1>3. file[k] \in Entry \cup {None} /\ memory[k] \in Entry \cup {None} /\ spill[k] \in Entry \cup {None}
  BY KeyTypes DEF PromiseInv
<1>4. CASE Durable
  <2>1. Answers(file[k], promise[k])
    BY <1>1, <1>4 DEF KeptWith
  <2>. QED
    BY <1>2, <1>3, <2>1 DEF Answers, RetrieveResult, Get, Lookup
<1>5. CASE ~Durable
  <2>1. Answers(IF memory[k] # None THEN memory[k] ELSE spill[k], promise[k]) /\ file[k] = None
    BY <1>1, <1>5 DEF KeptWith, PromiseInv, NoRows
  <2>. QED
    BY <1>2, <1>3, <2>1 DEF Answers, RetrieveResult, SpillRead, Get, Lookup
<1>. QED
  BY <1>4, <1>5

\* For every store, volatile, spilling or durable, under contention, failed spills, retries
\* and restarts, hashes colliding or not: a shipped marker resolves to its own content until
\* its window ends, unless it was purged, evicted without a spill, dropped in a collision, or
\* volatile across a restart.
THEOREM PromiseAlwaysKept == ASSUME ImportsMatch PROVE Spec => []PromiseKept
<1>. QED
  BY PromiseInit, PromiseStep, PromiseAnswered, PTL DEF Spec

-----------------------------------------------------------------------------
(* The overrun of durable retries. *)

\* The keys of the store() calls that sleep between two durable attempts, each of which may
\* still put its entry back.
SleepKeys == {KeyOf[call[t].entry.content] : t \in {u \in Threads : At(u, "retry")}}

\* A heap that was rebuilt within an eviction loop names exactly the present entries, so
\* that the loop ends below the cap; and what is present, or may come back, exceeds the cap
\* by the other threads at most.
OverrunInv ==
    /\ IType
    /\ Mutex
    /\ \A t \in Threads : At(t, "evict") /\ rebuilt => heap = Index(file, memory)
    /\ Cardinality(Present \cup SleepKeys) <= MaxEntries + Cardinality(Threads) - 1

LEMMA RebuiltStep ==
    ASSUME OverrunInv, ImportRows = {}, [Next]_vars, NEW u \in Threads, At(u, "evict")', rebuilt'
    PROVE  heap' = Index(file', memory')
<1>1. At(u, "evict") \/ (EnterStore(u) /\ LockFree)
  BY MutexStep DEF OverrunInv
<1>2. At(u, "evict") /\ ~LockFree
  BY <1>1 DEF EnterStore, LockFree, At
<1>3. rebuilt => heap = Index(file, memory)
  BY <1>2 DEF OverrunInv
<1>4. ASSUME NEW t \in Threads, StoreStep(t) PROVE heap' = Index(file', memory')
  <2>1. CASE EnterStore(t) \/ RetryPersist(t)
    BY <1>2, <2>1 DEF EnterStore, RetryPersist
  <2>2. CASE EvictOldest(t)
    BY <2>2 DEF EvictOldest
  <2>3. CASE PopStale(t)
    <3>1. PICK d \in heap : ~Real(d)
      BY <2>3 DEF PopStale
    <3>2. heap = Index(file, memory)
      BY <1>3, <2>3 DEF PopStale
    <3>. QED
      BY <3>1, <3>2 DEF Index, PresentIn, Real, Get, Tuple
  <2>4. CASE RebuildDrained(t)
    BY <2>4 DEF RebuildDrained
  <2>5. CASE DropCollision(t) \/ Persist(t)
    <3>1. t = u
      BY <1>2, <2>5 DEF OverrunInv, Mutex, DropCollision, Persist
    <3>2. call \in [Threads -> Call \cup {None}] /\ call[t] # None
      BY <2>5 DEF OverrunInv, IType, TypeOK, DropCollision, Persist, At
    <3>3. call'[t] \in {None, [call[t] EXCEPT !.step = "retry"]}
      BY <2>5, <3>2 DEF DropCollision, Persist
    <3>4. call[t] \in Call
      BY <3>2
    <3>. QED
      BY <3>1, <3>3, <3>4 DEF At, Call
  <2>. QED
    BY <1>4, <2>1, <2>2, <2>3, <2>4, <2>5 DEF StoreStep
<1>5. ASSUME UNCHANGED <<file, memory, heap, rebuilt>> PROVE heap' = Index(file', memory')
  BY <1>3, <1>5
<1>6. ~Restart
  BY DEF Restart, At
<1>7. \A t \in Threads, c \in Contents, ttl \in Ttls, d \in BOOLEAN :
          BeginStore(t, c, ttl, d) => UNCHANGED <<file, memory, heap, rebuilt>>
  BY DEF BeginStore
<1>8. Tick \/ UNCHANGED vars => UNCHANGED <<file, memory, heap, rebuilt>>
  BY DEF Tick, vars
<1>. QED
  BY <1>2, <1>4, <1>5, <1>6, <1>7, <1>8
  DEF Next, RetrieveHit, ReapExpired, ReapSpill, Delete, GetStats, Clear

\* What is present is of the keys, whichever tier holds it.
LEMMA PresentErase ==
    ASSUME IType, NEW k \in Keys, NEW ok, Erase(k, ok)
    PROVE  Present' \subseteq Present
BY DEF IType, TypeOK, Erase, Present, PresentIn, Lookup

LEMMA PresentPurge ==
    ASSUME IType, NEW ok, PurgeExpired(ok)
    PROVE  Present' \subseteq Present
BY DEF IType, TypeOK, PurgeExpired, Without, Present, PresentIn, Lookup

LEMMA PresentWrite ==
    ASSUME IType, NEW k \in Keys, NEW e \in Entry, NEW ok, Write(k, e, ok)
    PROVE  k \in Present' /\ Present' \subseteq Present \cup {k}
BY StoreAssumption DEF IType, TypeOK, Write, Present, PresentIn, Lookup

\* Only a store() that persists adds to what is present or may come back.
LEMMA OverrunShrinks ==
    ASSUME OverrunInv, ImportRows = {}, [Next]_vars, \A t \in Threads : ~Persist(t)
    PROVE  (Present \cup SleepKeys)' \subseteq Present \cup SleepKeys
<1>. USE DEF OverrunInv
<1>1. call \in [Threads -> Call \cup {None}] /\ None \notin Call
  BY StoreAssumption DEF IType, TypeOK
<1>2. SleepKeys' \subseteq SleepKeys
  <2>. SUFFICES ASSUME NEW t \in Threads, At(t, "retry")'
                PROVE  At(t, "retry") /\ KeyOf[call'[t].entry.content] = KeyOf[call[t].entry.content]
    BY DEF SleepKeys
  <2>1. CASE call'[t] = call[t]
    BY <2>1 DEF At
  <2>2. ASSUME NEW u \in Threads, NEW c \in Contents, NEW ttl \in Ttls, NEW d \in BOOLEAN, BeginStore(u, c, ttl, d)
        PROVE  call'[t] = call[t]
    BY <1>1, <2>2 DEF BeginStore, At
  <2>3. ASSUME NEW u \in Threads, EnterStore(u) PROVE call'[t] = call[t]
    <3>1. call' = [call EXCEPT ![u].step = "evict"] /\ call[u] # None
      BY <2>3 DEF EnterStore, At
    <3>2. call[u] \in Call
      BY <1>1, <3>1
    <3>3. call'[u].step = "evict"
      BY <1>1, <3>1, <3>2 DEF Call
    <3>. QED
      BY <1>1, <3>1, <3>3 DEF At
  <2>4. ASSUME NEW u \in Threads, EvictOldest(u) \/ PopStale(u) \/ RebuildDrained(u) \/ DropCollision(u)
        PROVE  call'[t] = call[t]
    BY <1>1, <2>4 DEF EvictOldest, PopStale, RebuildDrained, DropCollision, At
  <2>5. ASSUME NEW u \in Threads, RetryPersist(u)
        PROVE  call'[t] = call[t] \/ (t = u /\ call'[t] = NextAttempt(t) /\ At(t, "retry"))
    BY <1>1, <2>5 DEF RetryPersist, At
  <2>6. ASSUME call'[t] = NextAttempt(t), At(t, "retry")
        PROVE  KeyOf[call'[t].entry.content] = KeyOf[call[t].entry.content]
    <3>1. call[t] \in Call
      BY <1>1, <2>6 DEF At
    <3>. QED
      BY <2>6, <3>1 DEF NextAttempt, Call
  <2>7. ~Restart
    BY DEF Restart, At
  <2>8. GetStats \/ Clear \/ Tick \/ UNCHANGED vars \/ (\E k \in Keys : RetrieveHit(k) \/ ReapExpired(k) \/ ReapSpill(k) \/ Delete(k))
            => call'[t] = call[t]
    BY DEF GetStats, Clear, Tick, vars, RetrieveHit, ReapExpired, ReapSpill, Delete
  <2>. QED
    BY <2>1, <2>2, <2>3, <2>4, <2>5, <2>6, <2>7, <2>8 DEF Next, StoreStep
<1>3. Present' \subseteq Present \cup SleepKeys
  <2>1. ASSUME NEW t \in Threads, EnterStore(t) \/ EvictOldest(t) \/ PopStale(t) \/ RebuildDrained(t) \/ DropCollision(t)
        PROVE  Present' \subseteq Present
    <3>1. CASE EnterStore(t)
      BY <3>1, PresentPurge DEF EnterStore
    <3>2. CASE EvictOldest(t)
      <4>1. PICK d \in heap, ok \in Reaches : Erase(d.key, ok)
        BY <3>2 DEF EvictOldest
      <4>2. d.key \in Keys
        BY DEF IType, TypeOK, HeapTuple
      <4>. QED
        BY <4>1, <4>2, PresentErase
    <3>3. CASE PopStale(t) \/ RebuildDrained(t)
      BY <3>3 DEF PopStale, RebuildDrained, Present, PresentIn
    <3>4. CASE DropCollision(t)
      <4>1. call[t] # None
        BY <3>4 DEF DropCollision, At
      <4>2. PICK k \in Keys : k = KeyOf[call[t].entry.content]
        BY <4>1, CallType DEF IType
      <4>3. PICK ok \in Reaches : Erase(k, ok)
        BY <3>4, <4>2 DEF DropCollision
      <4>. QED
        BY <4>3, PresentErase
    <3>. QED
      BY <2>1, <3>1, <3>2, <3>3, <3>4
  <2>2. ASSUME NEW t \in Threads, RetryPersist(t) PROVE Present' \subseteq Present \cup SleepKeys
    <3>1. call[t] # None /\ At(t, "retry")
      BY <2>2 DEF RetryPersist, At
    <3>2. PICK e \in Entry, k \in Keys : e = call[t].entry /\ k = KeyOf[call[t].entry.content]
      BY <3>1, CallType DEF IType
    <3>3. PICK ok \in Reaches : Write(k, e, ok)
      BY <2>2, <3>2 DEF RetryPersist
    <3>4. k \in SleepKeys
      BY <3>1, <3>2 DEF SleepKeys
    <3>. QED
      BY <3>3, <3>4, PresentWrite
  <2>3. ASSUME NEW k \in Keys, RetrieveHit(k) PROVE Present' \subseteq Present
    <3>1. PICK e \in Entry : e = Get(k)
      BY <2>3 DEF RetrieveHit, IType, TypeOK, Get, Lookup
    <3>2. PICK ok \in Reaches : Write(k, e, ok)
      BY <2>3, <3>1 DEF RetrieveHit
    <3>3. k \in Present
      BY <2>3 DEF RetrieveHit, Get, Present, PresentIn
    <3>. QED
      BY <3>2, <3>3, PresentWrite
  <2>4. ASSUME NEW k \in Keys, ReapExpired(k) \/ Delete(k) PROVE Present' \subseteq Present
    BY <2>4, PresentErase DEF ReapExpired, Delete
  <2>5. ASSUME GetStats PROVE Present' \subseteq Present
    BY <2>5, PresentPurge DEF GetStats
  <2>6. ASSUME Clear \/ Restart PROVE Present' \subseteq Present
    BY <2>6 DEF Clear, Restart, Without, Present, PresentIn, Lookup
  <2>7. ASSUME UNCHANGED <<file, memory>> PROVE Present' \subseteq Present
    BY <2>7 DEF Present, PresentIn
  <2>8. /\ Tick \/ UNCHANGED vars \/ (\E k \in Keys : ReapSpill(k)) => UNCHANGED <<file, memory>>
        /\ \A t \in Threads, c \in Contents, ttl \in Ttls, d \in BOOLEAN :
               BeginStore(t, c, ttl, d) => UNCHANGED <<file, memory>>
    BY DEF Tick, vars, ReapSpill, BeginStore
  <2>. QED
    BY <2>1, <2>2, <2>3, <2>4, <2>5, <2>6, <2>7, <2>8 DEF Next, StoreStep
<1>. QED
  BY <1>2, <1>3

\* A store() persists below the cap, and each other thread may still put one entry back.
LEMMA OverrunPersist ==
    ASSUME OverrunInv, MaxEntries > 0, IsFiniteSet(Threads), NEW t \in Threads, Persist(t)
    PROVE  Cardinality(Present \cup SleepKeys)' <= MaxEntries + Cardinality(Threads) - 1
<1>. USE DEF OverrunInv
<1>1. call[t] # None /\ At(t, "evict")
  BY DEF Persist, At
<1>2. PICK e \in Entry, k \in Keys : e = call[t].entry /\ k = KeyOf[call[t].entry.content]
  BY <1>1, CallType DEF IType
<1>3. PICK ok \in Reaches : Write(k, e, ok)
  BY <1>2 DEF Persist
<1>. DEFINE Others == {u \in Threads \ {t} : At(u, "retry")}
            g == [u \in Others |-> KeyOf[call[u].entry.content]]
            R == {g[u] : u \in Others}
            P == Present \cup {k}
<1>4. /\ \A S : S \subseteq Keys => IsFiniteSet(S) /\ Cardinality(S) \in Nat
      /\ MaxEntries \in Nat
      /\ Cardinality(Threads) \in Nat
  BY StoreAssumption, FS_Subset, FS_CardinalityType
<1>5. Cardinality(P) <= MaxEntries
  <2>1. Present \subseteq Keys /\ P \subseteq Keys
    BY DEF Present, PresentIn
  <2>2. Cardinality(P) <= Cardinality(Present) + 1
    <3>. HIDE DEF P
    <3>1. IsFiniteSet(Present)
      BY <1>4, <2>1
    <3>. QED
      BY <3>1, AddAtMostOne DEF P
  <2>3. LoopDone
    BY DEF Persist
  <2>4. CASE ~AtCapacity
    <3>1. Cardinality(Present) < MaxEntries
      BY <1>4, <2>1, <2>4 DEF AtCapacity
    <3>. HIDE DEF P
    <3>. QED
      BY <1>4, <2>1, <2>2, <3>1
  <2>5. CASE heap = {} /\ rebuilt
    <3>1. Index(file, memory) = {}
      BY <1>1, <2>5
    <3>2. Present = {}
      BY <3>1 DEF Index, Present
    <3>3. Cardinality(Present) = 0
      BY <3>2, FS_EmptySet
    <3>. HIDE DEF P
    <3>. QED
      BY <1>4, <2>1, <2>2, <3>3
  <2>. QED
    BY <2>3, <2>4, <2>5 DEF LoopDone
<1>6. IsFiniteSet(R) /\ Cardinality(R) <= Cardinality(Threads) - 1 /\ Cardinality(R) \in Nat
  <2>1. IsFiniteSet(Threads \ {t}) /\ Cardinality(Threads \ {t}) = Cardinality(Threads) - 1
    BY FS_RemoveElement
  <2>2. Others \subseteq Threads \ {t}
    OBVIOUS
  <2>3. g \in Surjection(Others, R)
    BY DEF Surjection
  <2>. HIDE DEF Others, g, R
  <2>4. IsFiniteSet(Others) /\ Cardinality(Others) <= Cardinality(Threads \ {t})
    BY <2>1, <2>2, FS_Subset
  <2>5. IsFiniteSet(R) /\ Cardinality(R) <= Cardinality(Others)
    BY <2>3, <2>4, FS_Surjection
  <2>6. Cardinality(R) \in Nat /\ Cardinality(Others) \in Nat
    BY <2>4, <2>5, FS_CardinalityType
  <2>. QED
    BY <1>4, <2>1, <2>4, <2>5, <2>6
<1>7. (Present \cup SleepKeys)' \subseteq P \cup R
  <2>1. Present' \subseteq P
    BY <1>3, PresentWrite
  <2>2. SleepKeys' \subseteq R \cup {k}
    <3>. SUFFICES ASSUME NEW u \in Threads, At(u, "retry")'
                  PROVE  KeyOf[call'[u].entry.content] \in R \cup {k}
      BY DEF SleepKeys
    <3>1. call \in [Threads -> Call \cup {None}] /\ call[t] \in Call
      BY <1>1 DEF IType, TypeOK
    <3>2. CASE u = t
      <4>1. call'[t] = [call[t] EXCEPT !.step = "retry"]
        BY <3>1, <3>2 DEF Persist, At
      <4>2. call'[t].entry = call[t].entry
        BY <3>1, <4>1 DEF Call
      <4>. QED
        BY <1>2, <3>2, <4>2
    <3>3. CASE u # t
      <4>1. call'[u] = call[u]
        BY <3>1, <3>3 DEF Persist
      <4>2. u \in Others /\ g[u] = KeyOf[call[u].entry.content]
        BY <3>3, <4>1 DEF At
      <4>. QED
        BY <4>1, <4>2
    <3>. QED
      BY <3>2, <3>3
  <2>. QED
    BY <2>1, <2>2
<1>8. P \subseteq Keys
  BY DEF Present, PresentIn
<1>. HIDE DEF P, R
<1>9. IsFiniteSet(P) /\ Cardinality(P) \in Nat
  BY <1>4, <1>8
<1>10. /\ IsFiniteSet(P \cup R) /\ Cardinality(P \cup R) \in Nat
       /\ Cardinality(P \cup R) = Cardinality(P) + Cardinality(R) - Cardinality(P \cap R)
       /\ Cardinality(P \cap R) \in Nat
  <2>1. IsFiniteSet(P \cup R) /\ Cardinality(P \cup R) = Cardinality(P) + Cardinality(R) - Cardinality(P \cap R)
    BY <1>6, <1>9, FS_Union
  <2>2. IsFiniteSet(P \cap R)
    BY <1>9, FS_Subset
  <2>. QED
    BY <2>1, <2>2, FS_CardinalityType
<1>. DEFINE Q == (Present \cup SleepKeys)'
<1>11. Cardinality(Q) <= Cardinality(P \cup R) /\ Cardinality(Q) \in Nat
  <2>1. Q \subseteq P \cup R
    BY <1>7
  <2>. HIDE DEF Q
  <2>2. IsFiniteSet(Q) /\ Cardinality(Q) <= Cardinality(P \cup R)
    BY <1>10, <2>1, FS_Subset
  <2>. QED
    BY <2>2, FS_CardinalityType
<1>. HIDE DEF Q
<1>12. Cardinality(Q) <= MaxEntries + Cardinality(Threads) - 1
  BY <1>4, <1>5, <1>6, <1>9, <1>10, <1>11
<1>. QED
  BY <1>12 DEF Q

LEMMA OverrunInit ==
    ASSUME MaxEntries > 0, IsFiniteSet(Threads), Init
    PROVE  OverrunInv
<1>1. Present = {} /\ SleepKeys = {}
  BY DEF Init, Present, PresentIn, Lookup, SleepKeys, At
<1>2. Cardinality(Present \cup SleepKeys) = 0 /\ Cardinality(Threads) \in Nat /\ MaxEntries \in Nat
  BY <1>1, FS_EmptySet, FS_CardinalityType, StoreAssumption
<1>. QED
  BY <1>2, TypeInit DEF Init, OverrunInv, Mutex, At

LEMMA OverrunStep ==
    ASSUME ImportRows = {}, MaxEntries > 0, IsFiniteSet(Threads), OverrunInv, [Next]_vars
    PROVE  OverrunInv'
<1>1. IType' /\ Mutex'
  BY TypeStep, MutexStep DEF OverrunInv
<1>2. (\A t \in Threads : At(t, "evict") /\ rebuilt => heap = Index(file, memory))'
  <2>. SUFFICES ASSUME NEW u \in Threads, At(u, "evict")', rebuilt'
                PROVE  heap' = Index(file', memory')
    OBVIOUS
  <2>. QED
    BY RebuiltStep
<1>3. Cardinality(Present \cup SleepKeys)' <= MaxEntries + Cardinality(Threads) - 1
  <2>1. CASE \E t \in Threads : Persist(t)
    BY <2>1, OverrunPersist
  <2>2. CASE \A t \in Threads : ~Persist(t)
    <3>. DEFINE S == Present \cup SleepKeys
                Q == (Present \cup SleepKeys)'
    <3>1. Q \subseteq S
      BY <2>2, OverrunShrinks
    <3>2. S \subseteq Keys
      BY CallType DEF OverrunInv, IType, Present, PresentIn, SleepKeys, At
    <3>3. Cardinality(S) <= MaxEntries + Cardinality(Threads) - 1
      BY DEF OverrunInv
    <3>. HIDE DEF S, Q
    <3>4. IsFiniteSet(S) /\ IsFiniteSet(Q) /\ Cardinality(Q) <= Cardinality(S)
      BY <3>1, <3>2, StoreAssumption, FS_Subset
    <3>5. Cardinality(S) \in Nat /\ Cardinality(Q) \in Nat /\ Cardinality(Threads) \in Nat /\ MaxEntries \in Nat
      BY <3>4, FS_CardinalityType, StoreAssumption
    <3>6. Cardinality(Q) <= MaxEntries + Cardinality(Threads) - 1
      BY <3>3, <3>4, <3>5
    <3>. QED
      BY <3>6 DEF Q
  <2>. QED
    BY <2>1, <2>2
<1>. QED
  BY <1>1, <1>2, <1>3 DEF OverrunInv

LEMMA OverrunBounds ==
    ASSUME IsFiniteSet(Threads), OverrunInv
    PROVE  CapacityOverrunBound
<1>. DEFINE S == Present \cup SleepKeys
<1>1. S \subseteq Keys /\ Present \subseteq S
  BY CallType DEF OverrunInv, IType, Present, PresentIn, SleepKeys, At
<1>2. Cardinality(S) <= MaxEntries + Cardinality(Threads) - 1
  BY DEF OverrunInv
<1>. HIDE DEF S
<1>3. IsFiniteSet(S) /\ IsFiniteSet(Present) /\ Cardinality(Present) <= Cardinality(S)
  BY <1>1, StoreAssumption, FS_Subset
<1>4. Cardinality(S) \in Nat /\ Cardinality(Present) \in Nat /\ Cardinality(Threads) \in Nat /\ MaxEntries \in Nat
  BY <1>3, FS_CardinalityType, StoreAssumption
<1>. QED
  BY <1>2, <1>3, <1>4 DEF CapacityOverrunBound

\* For any number of threads, durable or not, however writes fail and retries heal: a retry
\* may put an evicted entry back, but the store exceeds its cap by the other threads at most,
\* and no durable write whose marker shipped is lost.
THEOREM DurableRetriesStaySound ==
    ASSUME ImportRows = {}, MaxEntries > 0, IsFiniteSet(Threads)
    PROVE  Spec => []DurableRetriesSound
<1>1. Spec => []OverrunInv
  BY OverrunInit, OverrunStep, PTL DEF Spec
<1>2. Spec => []PromiseKept
  <2>1. ImportsMatch
    BY DEF ImportsMatch
  <2>. QED
    BY <2>1, PromiseAlwaysKept
<1>3. OverrunInv => CapacityOverrunBound
  BY OverrunBounds
<1>4. CapacityOverrunBound /\ PromiseKept => DurableRetriesSound
  BY DEF DurableRetriesSound
<1>. QED
  BY <1>1, <1>2, <1>3, <1>4, PTL

-----------------------------------------------------------------------------
(* What is gone, and what is bound. *)

\* A volatile store has no rows, whatever is imported into it.
LEMMA RowsStep ==
    ASSUME ~Durable, IType, NoRows, [Next]_vars
    PROVE  NoRows'
<1>1. ASSUME NEW k, NEW ok, Erase(k, ok) PROVE NoRows'
  BY <1>1 DEF Erase, NoRows
<1>2. ASSUME NEW k, NEW e, NEW ok, Write(k, e, ok) PROVE NoRows'
  BY <1>2 DEF Write, NoRows
<1>3. ASSUME NEW ok, PurgeExpired(ok) PROVE NoRows'
  BY <1>3 DEF PurgeExpired, Without, NoRows
<1>4. ASSUME NEW t \in Threads, StoreStep(t) PROVE NoRows'
  <2>1. CASE EnterStore(t)
    BY <1>3, <2>1 DEF EnterStore
  <2>2. CASE EvictOldest(t)
    BY <1>1, <2>2 DEF EvictOldest
  <2>3. CASE DropCollision(t)
    BY <1>1, <2>3 DEF DropCollision
  <2>4. CASE Persist(t) \/ RetryPersist(t)
    BY <1>2, <2>4 DEF Persist, RetryPersist
  <2>5. CASE PopStale(t) \/ RebuildDrained(t)
    BY <2>5 DEF PopStale, RebuildDrained, NoRows
  <2>. QED
    BY <1>4, <2>1, <2>2, <2>3, <2>4, <2>5 DEF StoreStep
<1>5. ASSUME NEW k \in Keys, RetrieveHit(k) \/ ReapExpired(k) \/ ReapSpill(k) \/ Delete(k) PROVE NoRows'
  <2>1. CASE RetrieveHit(k)
    BY <1>2, <2>1 DEF RetrieveHit
  <2>2. CASE ReapExpired(k) \/ Delete(k)
    BY <1>1, <2>2 DEF ReapExpired, Delete
  <2>3. CASE ReapSpill(k)
    BY <2>3 DEF ReapSpill, NoRows
  <2>. QED
    BY <1>5, <2>1, <2>2, <2>3
<1>6. GetStats => NoRows'
  BY <1>3 DEF GetStats
<1>7. ASSUME NEW e \in ImportRows, Import(e) PROVE NoRows'
  BY <1>2, <1>7 DEF Import
<1>8. Clear \/ Restart \/ Tick \/ UNCHANGED vars => NoRows'
  BY DEF Clear, Restart, Without, Tick, vars, NoRows
<1>9. ASSUME NEW t \in Threads, NEW c \in Contents, NEW ttl \in Ttls, NEW d \in BOOLEAN, BeginStore(t, c, ttl, d)
      PROVE  NoRows'
  BY <1>9 DEF BeginStore, NoRows
<1>. QED
  BY <1>4, <1>5, <1>6, <1>7, <1>8, <1>9 DEF Next

\* The step writes the entry of a store() of key k, or imports one.
Brings(k) ==
    \/ \E t \in Threads : (Persist(t) \/ RetryPersist(t)) /\ KeyOf[call[t].entry.content] = k
    \/ \E e \in ImportRows : Import(e) /\ KeyOf[e.content] = k

\* Any other step of a volatile store leaves the entry of k or removes it, to its spill row
\* at most.
LEMMA TiersStep ==
    ASSUME ~Durable, IType, NoRows, [Next]_vars, NEW k \in Keys, ~Brings(k)
    PROVE  /\ memory'[k] \in {memory[k], None}
           /\ spill'[k] \in {spill[k], memory[k], None}
           /\ now <= now' /\ now \in Nat /\ now' \in Nat
<1>1. now \in 0..MaxTime /\ MaxTime \in Nat /\ TickSize \in Nat
  BY StoreAssumption DEF IType, TypeOK, Times
<1>2. /\ file \in [Keys -> Entry \cup {None}] /\ memory \in [Keys -> Entry \cup {None}]
      /\ spill \in [Keys -> Entry \cup {None}] /\ file[k] = None
  BY DEF IType, TypeOK, NoRows
<1>3. now <= now' /\ now \in Nat /\ now' \in Nat
  <2>1. now' = now \/ now' = now + TickSize
    BY DEF Next, StoreStep, BeginStore, EnterStore, EvictOldest, PopStale, RebuildDrained,
       DropCollision, Persist,
       RetryPersist, RetrieveHit, ReapExpired, ReapSpill, Delete, GetStats, Clear, Import, Restart, Tick, vars
  <2>. QED
    BY <1>1, <2>1
<1>4. ASSUME NEW j, NEW ok, Erase(j, ok) PROVE memory'[k] \in {memory[k], None}
  BY <1>2, <1>4 DEF Erase
<1>5. ASSUME NEW ok, PurgeExpired(ok) PROVE memory'[k] \in {memory[k], None}
  BY <1>5 DEF PurgeExpired, Without
<1>6. ASSUME NEW t \in Threads, StoreStep(t)
      PROVE  memory'[k] \in {memory[k], None} /\ spill'[k] \in {spill[k], memory[k], None}
  <2>1. CASE EnterStore(t)
    BY <1>5, <2>1 DEF EnterStore
  <2>2. CASE EvictOldest(t)
    <3>1. PICK d \in heap, ok \in Reaches, demoted \in SpillOutcomes :
              /\ spill' = IF SpillOn /\ demoted THEN [spill EXCEPT ![d.key] = Get(d.key)] ELSE spill
              /\ Erase(d.key, ok)
      BY <2>2 DEF EvictOldest
    <3>2. Get(k) = memory[k]
      BY <1>2 DEF Get, Lookup
    <3>3. spill'[k] \in {spill[k], Get(k)}
      BY <1>2, <3>1
    <3>. QED
      BY <1>4, <3>1, <3>2, <3>3
  <2>3. CASE PopStale(t) \/ RebuildDrained(t)
    BY <2>3 DEF PopStale, RebuildDrained
  <2>4. CASE DropCollision(t)
    BY <1>4, <2>4 DEF DropCollision
  <2>5. CASE Persist(t) \/ RetryPersist(t)
    <3>1. spill' = spill
      BY <2>5 DEF Persist, RetryPersist
    <3>2. PICK j : j = KeyOf[call[t].entry.content]
      OBVIOUS
    <3>3. PICK e, ok : Write(j, e, ok)
      BY <2>5, <3>2 DEF Persist, RetryPersist
    <3>4. j # k
      BY <2>5, <3>2 DEF Brings
    <3>. QED
      BY <1>2, <3>1, <3>3, <3>4 DEF Write
  <2>. QED
    BY <1>6, <2>1, <2>2, <2>3, <2>4, <2>5 DEF StoreStep
<1>7. ASSUME NEW j \in Keys, RetrieveHit(j) \/ ReapExpired(j) \/ ReapSpill(j) \/ Delete(j)
      PROVE  memory'[k] \in {memory[k], None} /\ spill'[k] \in {spill[k], memory[k], None}
  <2>1. CASE RetrieveHit(j)
    <3>1. PICK ok : Write(j, Get(j), ok)
      BY <2>1 DEF RetrieveHit
    <3>2. Get(k) = memory[k] /\ spill' = spill
      BY <1>2, <2>1 DEF Get, Lookup, RetrieveHit
    <3>. QED
      BY <1>2, <3>1, <3>2 DEF Write
  <2>2. CASE ReapExpired(j)
    BY <1>4, <2>2 DEF ReapExpired
  <2>3. CASE ReapSpill(j)
    BY <1>2, <2>3 DEF ReapSpill
  <2>4. CASE Delete(j)
    <3>1. memory'[k] \in {memory[k], None}
      BY <1>4, <2>4 DEF Delete
    <3>2. spill'[k] \in {spill[k], None}
      BY <1>2, <2>4 DEF Delete
    <3>. QED
      BY <3>1, <3>2
  <2>. QED
    BY <1>7, <2>1, <2>2, <2>3, <2>4
<1>8. GetStats => memory'[k] \in {memory[k], None} /\ spill'[k] = spill[k]
  BY <1>5 DEF GetStats
<1>9. ASSUME NEW e \in ImportRows, Import(e)
      PROVE  memory'[k] = memory[k] /\ spill'[k] = spill[k]
  <2>1. KeyOf[e.content] # k
    BY <1>9 DEF Brings
  <2>. QED
    BY <1>2, <1>9, <2>1 DEF Import, Write
<1>10. Clear \/ Restart => memory'[k] = None /\ spill'[k] \in {spill[k], None}
  BY DEF Clear, Restart, Without
<1>11. Tick \/ UNCHANGED vars => memory'[k] = memory[k] /\ spill'[k] = spill[k]
  BY DEF Tick, vars
<1>12. ASSUME NEW t \in Threads, NEW c \in Contents, NEW ttl \in Ttls, NEW d \in BOOLEAN, BeginStore(t, c, ttl, d)
       PROVE  memory'[k] = memory[k] /\ spill'[k] = spill[k]
  BY <1>12 DEF BeginStore
<1>13. memory'[k] \in {memory[k], None} /\ spill'[k] \in {spill[k], memory[k], None}
  BY <1>6, <1>7, <1>8, <1>9, <1>10, <1>11, <1>12 DEF Next
<1>. QED
  BY <1>3, <1>13

\* Absent, or expired at time n.
Dead(e, n) == e = None \/ n - e.created > e.ttl

LEMMA StaysDead ==
    ASSUME NEW e \in Entry \cup {None}, NEW m \in Nat, NEW n \in Nat, m <= n, Dead(e, m)
    PROVE  Dead(e, n)
<1>. SUFFICES ASSUME e # None, m - e.created > e.ttl PROVE n - e.created > e.ttl
  BY DEF Dead
<1>1. e.created \in 0..MaxTime /\ e.ttl \in Ttls /\ MaxTime \in Nat /\ Ttls \subseteq Nat
  BY StoreAssumption DEF Entry, Times
<1>2. e.created \in Nat
  BY <1>1
<1>3. e.ttl \in Nat
  BY <1>1
<1>. QED
  BY <1>2, <1>3

\* What no tier answers for is not answered for after a step that does not bring it.
LEMMA GoneStep ==
    ASSUME ~Durable, IType, NoRows, NoRows', [Next]_vars, NEW k \in Keys, ~ExistsAnyTier(k), ~Brings(k)
    PROVE  RetrieveResult(k)' = None
<1>1. memory[k] \in Entry \cup {None} /\ spill[k] \in Entry \cup {None} /\ None \notin Entry /\ None \notin Contents
  BY StoreAssumption DEF IType, TypeOK
<1>2. Get(k) = memory[k] /\ Get(k)' = memory'[k]
  BY DEF NoRows, Get, Lookup
<1>3. Dead(memory[k], now)
  BY <1>2 DEF ExistsAnyTier, Expired, Dead
<1>4. Dead(spill[k], now)
  <2>. SUFFICES ASSUME spill[k] # None, ~Expired(spill[k]) PROVE FALSE
    BY DEF Dead, Expired
  <2>1. SpillRead(k) = spill[k].content /\ SpillRead(k) = None
    BY DEF SpillRead, ExistsAnyTier
  <2>2. spill[k].content \in Contents
    BY <1>1 DEF Entry
  <2>. QED
    BY <1>1, <2>1, <2>2
<1>5. /\ memory'[k] \in {memory[k], None}
      /\ spill'[k] \in {spill[k], memory[k], None}
      /\ now <= now' /\ now \in Nat /\ now' \in Nat
  BY TiersStep
<1>6. Dead(memory[k], now') /\ Dead(spill[k], now')
  BY <1>1, <1>3, <1>4, <1>5, StaysDead
<1>7. Dead(memory'[k], now') /\ Dead(spill'[k], now')
  BY <1>5, <1>6 DEF Dead
<1>8. SpillRead(k)' = None
  BY <1>7 DEF SpillRead, Expired, Dead
<1>. QED
  BY <1>2, <1>7, <1>8 DEF RetrieveResult, Expired, Dead

GoneInv == IType /\ NoRows

\* Once the purge read-back of a volatile store finds a key in neither tier, no step but the
\* write of a store() or an import of that key makes it retrievable again: not an eviction that spills
\* another entry, a failed reap, a restart or a late retry (delete, exists_any_tier).
THEOREM GoneAlwaysStaysGone == ASSUME ~Durable PROVE Spec => GoneStaysGone
<1>1. Init => GoneInv
  BY TypeInit DEF Init, GoneInv, NoRows
<1>2. GoneInv /\ [Next]_vars => GoneInv'
  BY TypeStep, RowsStep DEF GoneInv
<1>3. GoneInv /\ GoneInv' /\ [Next]_vars
        => [\A k \in Keys : (~ExistsAnyTier(k) /\ RetrieveResult(k)' # None)
              => \/ \E t \in Threads : (Persist(t) \/ RetryPersist(t)) /\ KeyOf[call[t].entry.content] = k
                 \/ \E e \in ImportRows : Import(e) /\ KeyOf[e.content] = k]_vars
  BY GoneStep DEF GoneInv, Brings
<1>. QED
  BY <1>1, <1>2, <1>3, PTL DEF Spec, GoneStaysGone

\* A step that leaves key k live leaves it its content: only Persist writes an entry over
\* another one, and it has looked for a collision in the same critical section.
LEMMA RebindStep ==
    ASSUME Volatile, HeapInv, [Next]_vars, NEW k \in Keys, Get(k) # None, memory'[k] # None
    PROVE  memory'[k].content = Get(k).content
<1>. USE DEF HeapInv
<1>1. Get(k) = memory[k] /\ ~Durable /\ ImportRows = {}
  BY VolatileGet DEF Volatile
<1>2. ASSUME memory'[k] \in {memory[k], None} PROVE memory'[k].content = Get(k).content
  BY <1>1, <1>2
<1>3. CASE ~Brings(k)
  BY <1>1, <1>2, <1>3, TiersStep
<1>4. CASE Brings(k)
  <2>1. \A t \in Threads : ~RetryPersist(t)
    BY DEF RetryPersist
  <2>2. PICK t \in Threads : Persist(t) /\ KeyOf[call[t].entry.content] = k
    BY <1>1, <1>4, <2>1 DEF Brings
  <2>3. call[t] # None
    BY <2>2 DEF Persist, At
  <2>4. call[t].entry \in Entry
    BY <2>3, CallType DEF IType
  <2>5. PICK e : e = call[t].entry
    OBVIOUS
  <2>6. PICK ok \in Reaches : Write(k, e, ok)
    BY <2>2, <2>5 DEF Persist
  <2>7. memory' = [memory EXCEPT ![k] = e]
    BY <2>4, <2>5, <2>6, VolatileWrite
  <2>8. memory'[k] = e
    BY <2>7 DEF IType, TypeOK
  <2>9. ~Collides(call[t].entry)
    BY <2>2 DEF Persist
  <2>. QED
    BY <2>2, <2>5, <2>8, <2>9 DEF Collides
<1>. QED
  BY <1>3, <1>4

\* No step of a volatile store swaps the content a live key is bound to, whatever two stores
\* of two contents under one key, evictions, reaps and deletes interleave (store's collision
\* branch).  A durable retry or an import can: neither of them looks for a collision.
THEOREM NeverSilentlyRebound == ASSUME Volatile PROVE Spec => NoSilentRebind
<1>1. HeapInv /\ HeapInv' /\ [Next]_vars
        => [\A k \in Keys : (Get(k) # None /\ Lookup(file', memory', k) # None)
              => Lookup(file', memory', k).content = Get(k).content]_vars
  <2>. SUFFICES ASSUME HeapInv, HeapInv', Next, NEW k \in Keys, Get(k) # None, Lookup(file', memory', k) # None
       PROVE  Lookup(file', memory', k).content = Get(k).content
    OBVIOUS
  <2>1. Lookup(file', memory', k) = memory'[k]
    BY DEF HeapInv, NoRows, Lookup
  <2>. QED
    BY <2>1, RebindStep
<1>. QED
  BY <1>1, HeapInit, HeapStep, PTL DEF Spec, NoSilentRebind

=============================================================================
