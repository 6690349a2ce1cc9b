-------------------------- MODULE CompressionStore --------------------------
(***************************************************************************)
(* One process's CompressionStore (furl_ctx/cache/compression_store.py):   *)
(* the store behind every <<ccr:HASH>> marker.  Worker threads call        *)
(* store() concurrently; every other operation is one step under the       *)
(* store lock.  store() itself is several steps, because its clock is read *)
(* before the lock is taken, because its eviction loop runs under the lock *)
(* while time passes, and because a durable retry sleeps outside it.       *)
(*                                                                         *)
(* The backend is the pair of tiers both shipped backends have:            *)
(*   memory  InMemoryBackend, or SqliteBackend's volatile overlay;         *)
(*   file    SqliteBackend's rows (always empty unless Durable).           *)
(* A content is a model value and its key the value KeyOf gives it, so a   *)
(* hash collision is a KeyOf that is not injective.                        *)
(***************************************************************************)
EXTENDS Integers, FiniteSets

CONSTANTS
    Keys,           \* hash keys
    Contents,       \* original contents
    KeyOf,          \* the hash function, [Contents -> Keys]
    Threads,        \* threads of the process that call store()
    MaxEntries,     \* max_entries
    Ttls,           \* the TTLs callers ask for
    MaxTime,        \* bound on the clock
    TickSize,       \* how far one tick moves it
    MaxStale,       \* bound on the stale counter when an operation starts
    Durable,        \* TRUE: SqliteBackend, FALSE: InMemoryBackend
    Contention,     \* TRUE: a SQLite write may lose its lock-retry budget
    RetryAttempts,  \* durable_retry_attempts
    SpillOn,        \* TRUE: FURL_CCR_SPILL=1
    SpillFaults,    \* TRUE: a spill write or delete may fail (fail-open)
    ImportRows,     \* rows of a checkpoint ccr_import may load
    MayRestart,     \* TRUE: the process may be killed and started again
    None            \* Python's None

VARIABLES
    now,        \* the store's clock
    file,       \* SqliteBackend rows
    memory,     \* InMemoryBackend dict / volatile overlay
    spill,      \* rows of the spill tier
    heap,       \* _eviction_heap, a bag of (created_at, key) tuples
    stale,      \* _stale_heap_entries
    rebuilt,    \* rebuilt_since_progress of the eviction loop that runs
    call,       \* per thread, the store() call in progress
    shipped,    \* history: <<key, content>> of every store() that returned, until purged
    promise     \* history: what the last marker shipped for a key may expect

vars == <<now, file, memory, spill, heap, stale, rebuilt, call, shipped, promise>>

Times == 0..MaxTime

Entry == [content : Contents, created : Times, ttl : Ttls]

\* A tuple of the heap; copy tells equal tuples of the bag apart.
HeapTuple == [created : Times, key : Keys, copy : Nat]

\* step: waiting for the lock, inside the eviction loop (holding the lock),
\* or sleeping between two durable attempts.
Call == [entry : Entry, requireDurable : BOOLEAN,
         step : {"lock", "evict", "retry"}, attempt : 0..RetryAttempts]

Promise == [content : Contents, until : Nat, durable : BOOLEAN]

\* The spill is disabled when the primary is already durable.
ASSUME FlagAssumption ==
    /\ {Durable, Contention, SpillOn, SpillFaults, MayRestart} \subseteq BOOLEAN
    /\ ~(Durable /\ SpillOn)

ASSUME StoreAssumption ==
    /\ KeyOf \in [Contents -> Keys]
    /\ IsFiniteSet(Keys)
    /\ MaxEntries \in Nat
    /\ Ttls \subseteq Nat \ {0}
    /\ MaxTime \in Nat
    /\ TickSize \in Nat
    /\ MaxStale \in Nat
    /\ RetryAttempts \in Nat
    /\ ImportRows \subseteq Entry
    /\ None \notin Contents \cup Entry \cup Call \cup Promise

TypeOK ==
    /\ now \in Times
    /\ file \in [Keys -> Entry \cup {None}]
    /\ memory \in [Keys -> Entry \cup {None}]
    /\ spill \in [Keys -> Entry \cup {None}]
    /\ heap \in SUBSET HeapTuple
    /\ stale \in Nat
    /\ rebuilt \in BOOLEAN
    /\ call \in [Threads -> Call \cup {None}]
    /\ shipped \in SUBSET (Keys \X Contents)
    /\ promise \in [Keys -> Promise \cup {None}]

-----------------------------------------------------------------------------
(* The backend: reads prefer the SQLite row to the volatile overlay. *)

Lookup(f, m, k) == IF f[k] # None THEN f[k] ELSE m[k]
Get(k) == Lookup(file, memory, k)

PresentIn(f, m) == {k \in Keys : Lookup(f, m, k) # None}
Present == PresentIn(file, memory)

\* Mutant of Expired: the last instant of the window counts as expired.
ExpiredEarly(e) == now - e.created >= e.ttl

Expired(e) == now - e.created > e.ttl

\* Whether one SQLite write reaches the file or fails open to the overlay.
Reaches == IF Durable /\ Contention THEN BOOLEAN ELSE {TRUE}

\* Whether one spill operation succeeds; the store goes on either way.
SpillOutcomes == IF SpillFaults THEN BOOLEAN ELSE {TRUE}

\* set_durable / set: a write that reached the file drops the overlay copy.
Write(k, e, ok) ==
    /\ file' = [file EXCEPT ![k] = IF Durable /\ ok THEN e ELSE @]
    /\ memory' = [memory EXCEPT ![k] = IF Durable /\ ok THEN None ELSE e]

\* delete: the overlay copy always goes, the row only if the write got through.
Erase(k, ok) ==
    /\ file' = [file EXCEPT ![k] = IF ok THEN None ELSE @]
    /\ memory' = [memory EXCEPT ![k] = None]

\* Mutant of Erased: a delete that missed still bumps the stale counter.
ErasedAlways(k, ok) == TRUE

\* What delete returns.
Erased(k, ok) == (ok /\ file[k] # None) \/ memory[k] # None

ExpiredIn(tier) == {k \in Keys : tier[k] # None /\ Expired(tier[k])}

Without(tier, ks) == [k \in Keys |-> IF k \in ks THEN None ELSE tier[k]]

\* purge_expired: both tiers; a contended purge leaves the rows alone.
PurgedRows(ok) == IF ok THEN ExpiredIn(file) ELSE {}

PurgeExpired(ok) ==
    /\ file' = Without(file, PurgedRows(ok))
    /\ memory' = Without(memory, ExpiredIn(memory))

Purged(ok) == Cardinality(PurgedRows(ok)) + Cardinality(ExpiredIn(memory))

-----------------------------------------------------------------------------
(* The eviction heap. *)

Tuple(c, k, n) == [created |-> c, key |-> k, copy |-> n]

Fresh(h, c, k) == CHOOSE n \in 0..Cardinality(h) : Tuple(c, k, n) \notin h

\* Mutant of Push: the tuple carries the time of the push, not created_at.
PushNow(h, c, k) == h \cup {Tuple(now, k, Fresh(h, now, k))}

\* heappush
Push(h, c, k) == h \cup {Tuple(c, k, Fresh(h, c, k))}

\* created_at_index(), heapified.
Index(f, m) == {Tuple(Lookup(f, m, k).created, k, 0) : k \in PresentIn(f, m)}

\* Mutant of Top: the heap pops its newest tuple.
TopNewest(e) ==
    /\ e \in heap
    /\ \A d \in heap : e.created >= d.created
    /\ \A d \in heap : (d.created = e.created /\ d.key = e.key) => d.copy <= e.copy

\* A tuple heappop may return: no tuple is older.  Of equal tuples the one
\* numbered last is taken, so that the numbering stays canonical.
Top(e) ==
    /\ e \in heap
    /\ \A d \in heap : e.created <= d.created
    /\ \A d \in heap : (d.created = e.created /\ d.key = e.key) => d.copy <= e.copy

\* The tuple names the live entry, not an earlier binding of its key.
Real(e) == Get(e.key) # None /\ Get(e.key).created = e.created

\* Mutant of AtCapacity: the loop stops at the cap instead of below it.
OverCapacity == Cardinality(Present) > MaxEntries

AtCapacity == Cardinality(Present) >= MaxEntries

-----------------------------------------------------------------------------
(* What retrieve() and exists_any_tier() answer in the present state. *)

SpillRead(k) == IF spill[k] # None /\ ~Expired(spill[k]) THEN spill[k].content ELSE None

RetrieveResult(k) ==
    IF Get(k) = None THEN SpillRead(k)
    ELSE IF Expired(Get(k)) THEN None
    ELSE Get(k).content

\* Mutant of ExistsAnyTier: the read-back asks the primary tier only.
ExistsPrimary(k) == Get(k) # None /\ ~Expired(Get(k))

ExistsAnyTier(k) ==
    \/ Get(k) # None /\ ~Expired(Get(k))
    \/ SpillRead(k) # None

-----------------------------------------------------------------------------
(* History: markers shipped, and what each may expect. *)

Until(e) == e.created + e.ttl

\* A marker out for k that was promised durability keeps it while its row does.
StillDurable(k) == promise[k] # None /\ promise[k].durable /\ file[k] # None

\* A write of key k moves the window of a marker already out for k; one that has ended is
\* not opened again by an entry of another content.
Rewindow(k) ==
    LET entry == Lookup(file', memory', k) IN
    IF promise[k] = None \/ (now > promise[k].until /\ entry.content # promise[k].content) THEN None
    ELSE [content |-> promise[k].content, until |-> Until(entry), durable |-> StillDurable(k)]

\* store() returns: the marker for its key ships.
Ship(t) ==
    LET e == call[t].entry
        k == KeyOf[e.content]
    IN  /\ shipped' = shipped \cup {<<k, e.content>>}
        /\ promise' = [promise EXCEPT ![k] =
               [content |-> e.content,
                until   |-> Until(Lookup(file', memory', k)),
                durable |-> (Durable /\ call[t].requireDurable) \/ StillDurable(k)]]

Withdraw(k) == promise' = [promise EXCEPT ![k] = None]

-----------------------------------------------------------------------------
(* store() *)

LockFree == \A t \in Threads : call[t] # None => call[t].step # "evict"

At(t, step) == call[t] # None /\ call[t].step = step

\* Mutant of MostlyStale: the heap is rebuilt only when every tuple is stale.
AllStale(counted) == heap # {} /\ counted >= Cardinality(heap)

\* The heap is due for a rebuild: half of its tuples are counted stale.
MostlyStale(counted) == heap # {} /\ 2 * counted >= Cardinality(heap)

\* Mutant of Collides: the content under the key is not compared.
NeverCollides(e) == FALSE

\* The key of entry e is bound to another content.
Collides(e) == Get(KeyOf[e.content]) # None /\ Get(KeyOf[e.content]).content # e.content

\* Mutant of Returns: a volatile write satisfies require_durable.
ReturnsAlways(t, ok) == TRUE

\* The write satisfies the caller, who gets the key and ships the marker.
Returns(t, ok) == ok \/ ~call[t].requireDurable

\* A failed durable attempt is followed by another one.
RetriesLeft(t) == call[t].attempt + 1 < RetryAttempts

\* store() up to the lock: the key is hashed and created_at read.
BeginStore(t, c, ttl, requireDurable) ==
    /\ call[t] = None
    /\ stale < MaxStale
    /\ call' = [call EXCEPT ![t] =
           [entry |-> [content |-> c, created |-> now, ttl |-> ttl],
            requireDurable |-> requireDurable, step |-> "lock", attempt |-> 0]]
    /\ UNCHANGED <<now, file, memory, spill, heap, stale, rebuilt, shipped, promise>>

\* The lock is taken; _evict_if_needed reaps expired entries and rebuilds the
\* heap when half of its tuples or more are thought stale.
EnterStore(t) ==
    /\ At(t, "lock")
    /\ LockFree
    /\ \E ok \in Reaches :
        LET counted == stale + Purged(ok)
        IN  /\ PurgeExpired(ok)
            /\ IF MostlyStale(counted)
               THEN heap' = Index(file', memory') /\ stale' = 0
               ELSE heap' = heap /\ stale' = counted
    /\ rebuilt' = FALSE
    /\ call' = [call EXCEPT ![t].step = "evict"]
    /\ UNCHANGED <<now, spill, shipped, promise>>

\* One turn of the eviction loop that evicts a real entry.
EvictOldest(t) ==
    /\ At(t, "evict")
    /\ AtCapacity
    /\ \E e \in heap, ok \in Reaches, demoted \in SpillOutcomes :
        /\ Top(e)
        /\ Real(e)
        /\ spill' = IF SpillOn /\ demoted THEN [spill EXCEPT ![e.key] = Get(e.key)] ELSE spill
        /\ Erase(e.key, ok)
        /\ heap' = heap \ {e}
        /\ IF SpillOn /\ demoted THEN UNCHANGED promise ELSE Withdraw(e.key)
    /\ rebuilt' = FALSE
    /\ UNCHANGED <<now, stale, call, shipped>>

\* Mutant of PopStale: the stale tuple is looked at but left on the heap.
PeekStale(t) ==
    /\ At(t, "evict")
    /\ AtCapacity
    /\ \E e \in heap : Top(e) /\ ~Real(e)
    /\ UNCHANGED vars

\* One turn of the loop that finds a stale tuple.
PopStale(t) ==
    /\ At(t, "evict")
    /\ AtCapacity
    /\ \E e \in heap : Top(e) /\ ~Real(e) /\ heap' = heap \ {e}
    /\ stale' = IF stale > 0 THEN stale - 1 ELSE stale
    /\ UNCHANGED <<now, file, memory, spill, rebuilt, call, shipped, promise>>

\* The heap ran dry above the cap: rebuild it from the backend, once.
RebuildDrained(t) ==
    /\ At(t, "evict")
    /\ AtCapacity
    /\ heap = {}
    /\ ~rebuilt
    /\ heap' = Index(file, memory)
    /\ stale' = 0
    /\ rebuilt' = TRUE
    /\ UNCHANGED <<now, file, memory, spill, call, shipped, promise>>

\* The loop is over: below the cap, or nothing left to evict.
LoopDone == ~AtCapacity \/ (heap = {} /\ rebuilt)

\* The key is bound to another content: drop the binding, refuse the new one.
DropCollision(t) ==
    LET e == call[t].entry
        k == KeyOf[e.content]
    IN  /\ At(t, "evict")
        /\ LoopDone
        /\ Collides(e)
        /\ \E ok \in Reaches : Erase(k, ok)
        /\ stale' = stale + 1
        /\ shipped' = IF call[t].requireDurable THEN shipped ELSE shipped \cup {<<k, e.content>>}
        /\ Withdraw(k)
        /\ call' = [call EXCEPT ![t] = None]
        /\ UNCHANGED <<now, spill, heap, rebuilt>>

\* Persist and push.  Returns, or goes on to the durable retries, or vetoes.
Persist(t) ==
    LET e == call[t].entry
        k == KeyOf[e.content]
    IN  /\ At(t, "evict")
        /\ LoopDone
        /\ ~Collides(e)
        /\ stale' = IF Get(k) # None THEN stale + 1 ELSE stale
        /\ heap' = Push(heap, e.created, k)
        /\ \E ok \in Reaches :
            /\ Write(k, e, ok)
            /\ \/ /\ Returns(t, ok)
                  /\ Ship(t)
                  /\ call' = [call EXCEPT ![t] = None]
               \/ /\ ~Returns(t, ok)
                  /\ promise' = [promise EXCEPT ![k] = Rewindow(k)]
                  /\ call' = [call EXCEPT ![t] =
                         IF RetryAttempts = 0 THEN None ELSE [@ EXCEPT !.step = "retry"]]
                  /\ UNCHANGED shipped
        /\ UNCHANGED <<now, spill, rebuilt>>

NextAttempt(t) == [call[t] EXCEPT !.attempt = call[t].attempt + 1]

\* One attempt of _retry_durable_persist, after its sleep.
RetryPersist(t) ==
    LET e == call[t].entry
        k == KeyOf[e.content]
    IN  /\ At(t, "retry")
        /\ LockFree
        /\ \E ok \in Reaches :
            /\ Write(k, e, ok)
            /\ \/ /\ ok
                  /\ Ship(t)
                  /\ call' = [call EXCEPT ![t] = None]
               \/ /\ ~ok
                  /\ promise' = [promise EXCEPT ![k] = Rewindow(k)]
                  /\ call' = [call EXCEPT ![t] =
                         IF RetriesLeft(t) THEN NextAttempt(t) ELSE None]
                  /\ UNCHANGED shipped
        /\ UNCHANGED <<now, spill, heap, stale, rebuilt>>

-----------------------------------------------------------------------------
(* The other operations: each one critical section. *)

\* retrieve() that hits, and search() that returns results: the entry, with
\* its bookkeeping bumped, is written back.
RetrieveHit(k) ==
    /\ LockFree
    /\ Get(k) # None
    /\ ~Expired(Get(k))
    /\ \E ok \in Reaches : Write(k, Get(k), ok)
    /\ UNCHANGED <<now, spill, heap, stale, rebuilt, call, shipped, promise>>

\* retrieve(), get_metadata(), search(), exists() or get_entry_status() with
\* clean_expired, meeting an expired entry.
ReapExpired(k) ==
    /\ LockFree
    /\ stale < MaxStale
    /\ Get(k) # None
    /\ Expired(Get(k))
    /\ \E ok \in Reaches : Erase(k, ok)
    /\ stale' = stale + 1
    /\ UNCHANGED <<now, spill, heap, rebuilt, call, shipped, promise>>

\* retrieve() falling through to an expired spill row.
ReapSpill(k) ==
    /\ LockFree
    /\ Get(k) = None
    /\ spill[k] # None
    /\ Expired(spill[k])
    /\ \E gone \in SpillOutcomes : spill' = IF gone THEN [spill EXCEPT ![k] = None] ELSE spill
    /\ UNCHANGED <<now, file, memory, heap, stale, rebuilt, call, shipped, promise>>

\* get_stats() reaps expired entries first.
GetStats ==
    /\ LockFree
    /\ stale < MaxStale
    /\ \E ok \in Reaches : PurgeExpired(ok) /\ stale' = stale + Purged(ok)
    /\ UNCHANGED <<now, spill, heap, rebuilt, call, shipped, promise>>

\* delete(): the single-hash purge, from both tiers.
Delete(k) ==
    /\ LockFree
    /\ stale < MaxStale
    /\ \E ok \in Reaches, gone \in SpillOutcomes :
        /\ Erase(k, ok)
        /\ stale' = IF Erased(k, ok) THEN stale + 1 ELSE stale
        /\ spill' = IF gone THEN [spill EXCEPT ![k] = None] ELSE spill
    /\ Withdraw(k)
    /\ shipped' = {m \in shipped : m[1] # k}
    /\ UNCHANGED <<now, heap, rebuilt, call>>

\* clear(): furl_purge all=true.
Clear ==
    /\ LockFree
    /\ \E ok \in Reaches, gone \in SpillOutcomes :
        /\ file' = IF ok THEN [k \in Keys |-> None] ELSE file
        /\ spill' = IF gone THEN [k \in Keys |-> None] ELSE spill
    /\ memory' = [k \in Keys |-> None]
    /\ heap' = {}
    /\ stale' = 0
    /\ promise' = [k \in Keys |-> None]
    /\ shipped' = {}
    /\ UNCHANGED <<now, rebuilt, call>>

\* ccr_import() writes one checkpoint row straight to the backend: it takes
\* no store lock, pushes no heap tuple and looks at no cap.
Import(e) ==
    /\ e.created <= now
    /\ stale < MaxStale
    /\ \E ok \in Reaches : Write(KeyOf[e.content], e, ok)
    /\ promise' = [promise EXCEPT ![KeyOf[e.content]] = Rewindow(KeyOf[e.content])]
    /\ UNCHANGED <<now, spill, heap, stale, rebuilt, call, shipped>>

\* The process dies and a new one opens the same files: a fresh store has an
\* empty heap whatever rows the file holds.  Opening a file reaps its expired
\* rows; a spilled entry that only reached the spill's own overlay is lost.
Restart ==
    /\ MayRestart
    /\ file' = Without(file, ExpiredIn(file))
    /\ \E lost \in (IF SpillFaults THEN SUBSET Keys ELSE {{}}) :
        spill' = Without(spill, lost \cup ExpiredIn(spill))
    /\ memory' = [k \in Keys |-> None]
    /\ heap' = {}
    /\ stale' = 0
    /\ rebuilt' = FALSE
    /\ call' = [t \in Threads |-> None]
    /\ promise' = [k \in Keys |->
           IF promise[k] # None /\ (promise[k].durable \/ (Get(k) = None /\ spill'[k] # None))
           THEN promise[k] ELSE None]
    /\ UNCHANGED <<now, shipped>>

Tick ==
    /\ now + TickSize <= MaxTime
    /\ now' = now + TickSize
    /\ UNCHANGED <<file, memory, spill, heap, stale, rebuilt, call, shipped, promise>>

-----------------------------------------------------------------------------

Init ==
    /\ now = 0
    /\ file = [k \in Keys |-> None]
    /\ memory = [k \in Keys |-> None]
    /\ spill = [k \in Keys |-> None]
    /\ heap = {}
    /\ stale = 0
    /\ rebuilt = FALSE
    /\ call = [t \in Threads |-> None]
    /\ shipped = {}
    /\ promise = [k \in Keys |-> None]

StoreStep(t) ==
    \/ EnterStore(t)
    \/ EvictOldest(t)
    \/ PopStale(t)
    \/ RebuildDrained(t)
    \/ DropCollision(t)
    \/ Persist(t)
    \/ RetryPersist(t)

Next ==
    \/ \E t \in Threads, c \in Contents, ttl \in Ttls, d \in BOOLEAN : BeginStore(t, c, ttl, d)
    \/ \E t \in Threads : StoreStep(t)
    \/ \E k \in Keys : RetrieveHit(k) \/ ReapExpired(k) \/ ReapSpill(k) \/ Delete(k)
    \/ GetStats
    \/ Clear
    \/ \E e \in ImportRows : Import(e)
    \/ Restart
    \/ Tick

Spec == Init /\ [][Next]_vars

-----------------------------------------------------------------------------
(* Properties *)

\* Every tuple of the eviction heap is either the live tuple of one entry or
\* counted stale: nothing is lost or counted twice by refreshes, collisions,
\* expiry, deletes and stale pops (the heap of compression_store.py).
HeapAccounting == Cardinality(heap) = Cardinality(Present) + stale

\* The eviction heap can evict every live entry: each is named by a tuple
\* with its current created_at.
HeapCoverage ==
    \A k \in Present : \E e \in heap : e.key = k /\ e.created = Get(k).created

\* Deletes and refreshes cannot grow the heap without bound: the rebuild in
\* _evict_if_needed keeps it within twice the cap.
HeapBounded == Cardinality(heap) <= 2 * MaxEntries

\* The eviction heap is well formed, in step with the entries and bounded,
\* whatever refreshes, collisions, expiries, deletes and evictions interleave.
HeapExact == TypeOK /\ HeapAccounting /\ HeapCoverage /\ HeapBounded

\* The store never holds more than max_entries entries.
CapacityBound == Cardinality(Present) <= MaxEntries

\* With durable retries, a healed retry may put an evicted entry back, but
\* each thread that was sleeping adds one entry at most.
CapacityOverrunBound == Cardinality(Present) <= MaxEntries + Cardinality(Threads) - 1

\* Step: the eviction loop removes the entry of key k.
Evicts(k) ==
    /\ \E t \in Threads : At(t, "evict") /\ call'[t] = call[t]
    /\ Get(k) # None
    /\ Lookup(file', memory', k) = None

\* Capacity eviction is oldest-created-first over all the entries.
EvictsOldestFirst ==
    [][\A k \in Keys : Evicts(k) =>
          \A j \in Present : Get(k).created <= Get(j).created]_vars

\* A marker that was shipped resolves to exactly its own content until its
\* window ends, unless it was purged, capacity-evicted without a spill,
\* dropped in a collision, or volatile across a restart.
PromiseKept ==
    \A k \in Keys :
        (promise[k] # None /\ now <= promise[k].until /\ (Durable => promise[k].durable))
            => RetrieveResult(k) = promise[k].content

\* What the durable retries of concurrent stores may do: put an evicted entry
\* back within the overrun bound, never lose a durable write whose marker shipped.
DurableRetriesSound == CapacityOverrunBound /\ PromiseKept

\* A marker resolves to the content it was shipped for or to nothing.
NeverForeign ==
    \A m \in shipped : RetrieveResult(m[1]) \in {m[2], None}

\* No step swaps the content a live key is bound to: two contents meeting
\* under one key end unbound, never with the later one in place.
NoSilentRebind ==
    [][\A k \in Keys : (Get(k) # None /\ Lookup(file', memory', k) # None)
          => Lookup(file', memory', k).content = Get(k).content]_vars

\* Once the purge read-back finds key k in no tier, the only step that makes it
\* retrievable again is the write of a store() or an import of k itself.
GoneStaysGone ==
    [][\A k \in Keys : (~ExistsAnyTier(k) /\ RetrieveResult(k)' # None)
          => \/ \E t \in Threads : (Persist(t) \/ RetryPersist(t)) /\ KeyOf[call[t].entry.content] = k
             \/ \E e \in ImportRows : Import(e) /\ KeyOf[e.content] = k]_vars

\* The purge read-back answers the question retrieve() answers.
ReadBackAgrees == \A k \in Keys : ExistsAnyTier(k) <=> RetrieveResult(k) # None

\* Every store() call that enters its eviction loop leaves it: stale tuples
\* and rebuilds always make progress.
StoreTerminates == \A t \in Threads : At(t, "evict") ~> ~At(t, "evict")

\* A running thread goes on running.  Nothing is assumed of the store lock.
Fairness == \A t \in Threads : WF_vars(StoreStep(t))

FairSpec == Spec /\ Fairness

=============================================================================
