-------------------------- MODULE InMemoryCcrStore --------------------------
(***************************************************************************)
(* The Rust engine's CCR store (crates/furl-core/src/ccr/in_memory.rs): a  *)
(* DashMap, whose operations are each atomic under a shard lock, and a     *)
(* FIFO queue of (key, generation) tokens under the order mutex.  put() is *)
(* several steps: it claims a generation, probes the map with no lock,     *)
(* then takes the order mutex to evict, insert and queue its token.        *)
(***************************************************************************)
EXTENDS Integers, FiniteSets, Sequences

CONSTANTS
    Keys,       \* hashes
    Payloads,   \* payloads
    KeyOf,      \* the hash callers compute, [Payloads -> Keys]
    Threads,    \* threads that share the store
    Capacity,   \* capacity
    Ttl,        \* ttl
    MaxPuts,    \* bound on the put() calls of a behaviour
    MaxTime,    \* bound on the clock
    MaxLoad,    \* bound on the put() calls and the clock together
    None        \* an absent value

VARIABLES
    now,        \* the clock
    map,        \* the DashMap
    order,      \* the token queue
    generation, \* the next generation
    op,         \* per thread, the put() or get() in progress
    promise,    \* history: what a get() of a key that was put may expect
    returned    \* history: per key, the counter when the put() that stored it returned

vars == <<now, map, order, generation, op, promise, returned>>

Times == 0..MaxTime
Generations == 0..(MaxPuts - 1)

Entry == [payload : Payloads, inserted : Times, generation : Generations]

Token == [key : Keys, generation : Generations]

\* step: before get_mut; collision seen; refreshed, token not queued; waiting
\* for the order mutex; in the eviction loop; token popped, entry not yet
\* removed; inserted, token not queued; compacting; and, for get(), before the
\* removal of an entry seen expired.  popped is the token the loop popped;
\* left and live are what a compaction has still to read, and has read.
Op == [key : Keys, payload : Payloads \cup {None}, generation : Generations \cup {None},
       step : {"probe", "collided", "refreshed", "absent", "evict", "remove", "append",
               "compact", "reap"},
       popped : Token \cup {None}, left : SUBSET Keys, live : SUBSET Token]

Promise == [payload : Payloads, until : Nat]

ASSUME StoreAssumption ==
    /\ KeyOf \in [Payloads -> Keys]
    /\ IsFiniteSet(Keys)
    /\ IsFiniteSet(Threads)
    /\ Capacity \in Nat \ {0}
    /\ Ttl \in Nat
    /\ MaxPuts \in Nat
    /\ MaxTime \in Nat
    /\ MaxLoad \in Nat
    /\ None \notin Entry \cup Op \cup Promise \cup Nat

TypeOK ==
    /\ now \in Times
    /\ map \in [Keys -> Entry \cup {None}]
    /\ order \in Seq(Token)
    /\ generation \in Nat
    /\ op \in [Threads -> Op \cup {None}]
    /\ promise \in [Keys -> Promise \cup {None}]
    /\ returned \in [Keys -> Nat \cup {None}]

-----------------------------------------------------------------------------

Live == {k \in Keys : map[k] # None}

Full == Cardinality(Live) >= Capacity

Expired(e) == now - e.inserted > Ttl

At(t, step) == op[t] # None /\ op[t].step = step

\* The order mutex is held from the eviction loop to the end of put().
HoldsOrder(t) == At(t, "evict") \/ At(t, "remove") \/ At(t, "append") \/ At(t, "compact")

OrderFree == \A t \in Threads : ~HoldsOrder(t)

OwnToken(t) == [key |-> op[t].key, generation |-> op[t].generation]

OwnEntry(t) == [payload |-> op[t].payload, inserted |-> now, generation |-> op[t].generation]

\* The entry of the key is the one put() t stored.
Stored(t) == map[op[t].key] # None /\ map[op[t].key].generation = op[t].generation

\* put() returns.
Return(t) ==
    /\ op' = [op EXCEPT ![t] = None]
    /\ returned' = IF Stored(t) THEN [returned EXCEPT ![op[t].key] = generation] ELSE returned

Goto(t, step) == op' = [op EXCEPT ![t].step = step]

\* The entry of put() t is in the map: a get() may expect it.
Bind(t) ==
    /\ map' = [map EXCEPT ![op[t].key] = OwnEntry(t)]
    /\ promise' = [promise EXCEPT ![op[t].key] = [payload |-> op[t].payload, until |-> now + Ttl]]
    /\ returned' = [returned EXCEPT ![op[t].key] = None]

Unbind(k) ==
    /\ map' = [map EXCEPT ![k] = None]
    /\ promise' = [promise EXCEPT ![k] = None]
    /\ returned' = [returned EXCEPT ![k] = None]

-----------------------------------------------------------------------------

\* put(): fetch_add on the generation counter, before any lock.
StartPut(t, p) ==
    /\ op[t] = None
    /\ generation < MaxPuts
    /\ generation + now < MaxLoad
    /\ generation' = generation + 1
    /\ op' = [op EXCEPT ![t] = [key |-> KeyOf[p], payload |-> p, generation |-> generation,
                                step |-> "probe", popped |-> None, left |-> {}, live |-> {}]]
    /\ UNCHANGED <<now, map, order, promise, returned>>

\* get_mut finds the payload: a refresh under the shard lock.
Refresh(t) ==
    /\ At(t, "probe")
    /\ map[op[t].key] # None
    /\ map[op[t].key].payload = op[t].payload
    /\ Bind(t)
    /\ Goto(t, "refreshed")
    /\ UNCHANGED <<now, order, generation>>

\* get_mut finds another payload.
Collide(t) ==
    /\ At(t, "probe")
    /\ map[op[t].key] # None
    /\ map[op[t].key].payload # op[t].payload
    /\ Goto(t, "collided")
    /\ UNCHANGED <<now, map, order, generation, promise, returned>>

\* get_mut finds nothing.
Miss(t) ==
    /\ At(t, "probe")
    /\ map[op[t].key] = None
    /\ Goto(t, "absent")
    /\ UNCHANGED <<now, map, order, generation, promise, returned>>

\* remove_if(payload differs): drop the ambiguous binding, and return.
DropCollision(t) ==
    /\ At(t, "collided")
    /\ IF map[op[t].key] # None /\ map[op[t].key].payload # op[t].payload
       THEN Unbind(op[t].key)
       ELSE UNCHANGED <<map, promise, returned>>
    /\ op' = [op EXCEPT ![t] = None]
    /\ UNCHANGED <<now, order, generation>>

\* order.lock() on the path of a new entry.
LockOrder(t) ==
    /\ At(t, "absent")
    /\ OrderFree
    /\ Goto(t, "evict")
    /\ UNCHANGED <<now, map, order, generation, promise, returned>>

\* The token names the entry as last stored, not a tombstone.
Matches(token) == map[token.key] # None /\ map[token.key].generation = token.generation

\* A turn of evict_until_under_capacity finds the map full and pops a token.
PopToken(t) ==
    /\ At(t, "evict")
    /\ Full
    /\ order # <<>>
    /\ order' = Tail(order)
    /\ op' = [op EXCEPT ![t].step = "remove", ![t].popped = Head(order)]
    /\ UNCHANGED <<now, map, generation, promise, returned>>

\* remove_if(same generation), under the shard lock: a put() may have stored
\* the entry anew since the pop.
RemovePopped(t) ==
    /\ At(t, "remove")
    /\ IF Matches(op[t].popped)
       THEN Unbind(op[t].popped.key)
       ELSE UNCHANGED <<map, promise, returned>>
    /\ op' = [op EXCEPT ![t].step = "evict", ![t].popped = None]
    /\ UNCHANGED <<now, order, generation>>

\* Mutant of InsertEntry: nothing is evicted before the insertion.
InsertUnbounded(t) ==
    /\ At(t, "evict")
    /\ Bind(t)
    /\ Goto(t, "append")
    /\ UNCHANGED <<now, order, generation>>

\* The loop ends, below capacity or with no token left, and the entry goes in
\* over whatever the map then holds for the key.
InsertEntry(t) ==
    /\ At(t, "evict")
    /\ ~Full \/ order = <<>>
    /\ Bind(t)
    /\ Goto(t, "append")
    /\ UNCHANGED <<now, order, generation>>

\* Mutant of Overgrown: the queue is never compacted.
NeverOvergrown(queue) == FALSE

\* Tombstones have accumulated.
Overgrown(queue) == Len(queue) > 2 * Capacity

\* Mutant of PushToken: a refresh, which inserts nothing, queues no token.
PushInserted(t) ==
    /\ At(t, "append") \/ (At(t, "refreshed") /\ OrderFree)
    /\ order' = IF At(t, "append") THEN Append(order, OwnToken(t)) ELSE order
    /\ Return(t)
    /\ UNCHANGED <<now, map, generation, promise>>

\* Mutant of PushToken: the token goes to the front of the queue.
PushFront(t) ==
    /\ At(t, "append") \/ (At(t, "refreshed") /\ OrderFree)
    /\ order' = <<OwnToken(t)>> \o order
    /\ Return(t)
    /\ UNCHANGED <<now, map, generation, promise>>

\* push_back of the token, with the order mutex held since before the
\* insertion, or taken now after a refresh; then compaction if it is due.
PushToken(t) ==
    /\ At(t, "append") \/ (At(t, "refreshed") /\ OrderFree)
    /\ order' = Append(order, OwnToken(t))
    /\ IF Overgrown(order')
       THEN /\ op' = [op EXCEPT ![t].step = "compact", ![t].left = Keys]
            /\ UNCHANGED returned
       ELSE Return(t)
    /\ UNCHANGED <<now, map, generation, promise>>

\* Mutant of CollectToken: the key just put is skipped, its token being queued.
CollectOthers(t, k) ==
    /\ At(t, "compact")
    /\ k \in op[t].left
    /\ op' = [op EXCEPT
           ![t].left = op[t].left \ {k},
           ![t].live = IF map[k] = None \/ k = op[t].key THEN op[t].live
                       ELSE op[t].live \cup {[key |-> k, generation |-> map[k].generation]}]
    /\ UNCHANGED <<now, map, order, generation, promise, returned>>

\* compact_order_queue reads one entry of the map.
CollectToken(t, k) ==
    /\ At(t, "compact")
    /\ k \in op[t].left
    /\ op' = [op EXCEPT
           ![t].left = op[t].left \ {k},
           ![t].live = IF map[k] = None THEN op[t].live
                       ELSE op[t].live \cup {[key |-> k, generation |-> map[k].generation]}]
    /\ UNCHANGED <<now, map, order, generation, promise, returned>>

\* The sequences that hold each of the tokens once, by generation.
SortedSeqs(tokens) ==
    {q \in [1..Cardinality(tokens) -> tokens] :
        /\ \A x \in tokens : \E i \in DOMAIN q : q[i] = x
        /\ \A i, j \in DOMAIN q : i < j => q[i].generation < q[j].generation}

\* ... and replaces the queue by the tokens of the entries it read.
CompactOrderQueue(t) ==
    /\ At(t, "compact")
    /\ op[t].left = {}
    /\ order' \in SortedSeqs(op[t].live)
    /\ Return(t)
    /\ UNCHANGED <<now, map, generation, promise>>

\* get() of an expired entry; every other get() changes nothing.
StartGet(t, k) ==
    /\ op[t] = None
    /\ map[k] # None
    /\ Expired(map[k])
    /\ op' = [op EXCEPT ![t] = [key |-> k, payload |-> None, generation |-> None,
                                step |-> "reap", popped |-> None, left |-> {}, live |-> {}]]
    /\ UNCHANGED <<now, map, order, generation, promise, returned>>

\* Mutant of Reap: remove() instead of remove_if().
ReapAnyway(t) ==
    /\ At(t, "reap")
    /\ map' = [map EXCEPT ![op[t].key] = None]
    /\ returned' = [returned EXCEPT ![op[t].key] = None]
    /\ op' = [op EXCEPT ![t] = None]
    /\ UNCHANGED <<now, order, generation, promise>>

\* remove_if(still expired): a put() may have refreshed the entry meanwhile.
Reap(t) ==
    /\ At(t, "reap")
    /\ IF map[op[t].key] # None /\ Expired(map[op[t].key])
       THEN Unbind(op[t].key)
       ELSE UNCHANGED <<map, promise, returned>>
    /\ op' = [op EXCEPT ![t] = None]
    /\ UNCHANGED <<now, order, generation>>

Tick ==
    /\ now < MaxTime
    /\ generation + now < MaxLoad
    /\ now' = now + 1
    /\ UNCHANGED <<map, order, generation, op, promise, returned>>

-----------------------------------------------------------------------------

Init ==
    /\ now = 0
    /\ map = [k \in Keys |-> None]
    /\ order = <<>>
    /\ generation = 0
    /\ op = [t \in Threads |-> None]
    /\ promise = [k \in Keys |-> None]
    /\ returned = [k \in Keys |-> None]

PutStep(t) ==
    \/ Refresh(t)
    \/ Collide(t)
    \/ Miss(t)
    \/ DropCollision(t)
    \/ LockOrder(t)
    \/ PopToken(t)
    \/ RemovePopped(t)
    \/ InsertEntry(t)
    \/ PushToken(t)
    \/ \E k \in Keys : CollectToken(t, k)
    \/ CompactOrderQueue(t)

Next ==
    \/ \E t \in Threads, p \in Payloads : StartPut(t, p)
    \/ \E t \in Threads, k \in Keys : StartGet(t, k)
    \/ \E t \in Threads : PutStep(t) \/ Reap(t)
    \/ Tick

Spec == Init /\ [][Next]_vars

-----------------------------------------------------------------------------
(* Properties *)

\* Token x is queued, or a put() in progress will queue it or has popped it to
\* remove its entry.
InFlight(x) ==
    \/ \E i \in DOMAIN order : order[i] = x
    \/ \E t \in Threads : At(t, "remove") /\ op[t].popped = x
    \/ \E t \in Threads : (At(t, "refreshed") \/ At(t, "append")) /\ OwnToken(t) = x

\* No entry is ever out of the eviction loop's reach: each has a token with
\* its own generation queued, about to be, or popped to evict it, whatever
\* refreshes, blind inserts and compactions interleave.
EvictionReaches ==
    \A k \in Live : InFlight([key |-> k, generation |-> map[k].generation])

\* A compaction under way loses no entry: of those not in its snapshot, each
\* is still to be read or has a put() about to queue its token.
CompactionKeepsAll ==
    \A t \in Threads : At(t, "compact") =>
        \A k \in Live \ op[t].left :
            LET x == [key |-> k, generation |-> map[k].generation]
            IN  x \in op[t].live
                \/ \E u \in Threads : At(u, "refreshed") /\ OwnToken(u) = x

\* The map never exceeds its capacity.
NeverExceedsCapacity == Cardinality(Live) <= Capacity

\* It holds with at least as many slots as threads: the only entries the
\* eviction loop cannot reach are the refreshes in flight, one per other
\* thread, so that no more than that many and the new entry are ever left.
CapacityOverrunBound ==
    \/ Cardinality(Live) <= Capacity
    \/ Cardinality(Live) <= Cardinality(Threads)

\* Tombstones stay bounded: compaction keeps the queue within twice the
\* capacity whenever no put() is inside the order mutex.  It takes at
\* most two threads per slot, since the map may hold one entry per thread.
QueueBounded == OrderFree => Len(order) <= 2 * Capacity

\* The token queue does its work: well formed, it can evict every entry, and
\* the tombstones that refreshes and reaps leave in it stay bounded.
QueueSound == TypeOK /\ EvictionReaches /\ QueueBounded

\* Step: the eviction loop removes the entry of key k.
Evicts(k) ==
    /\ map[k] # None
    /\ map'[k] = None
    /\ \E t \in Threads : At(t, "remove") /\ op'[t].step = "evict"

\* Eviction is FIFO: an entry is never evicted while an entry whose put() had
\* returned before this one's began is live.
EvictsInOrder ==
    [][\A k \in Keys : Evicts(k) =>
          \A j \in Live : returned[j] # None => map[k].generation < returned[j]]_vars

\* What was put and not evicted, dropped in a collision or overwritten by a
\* racing put() stays, unexpired, for its TTL: no get() that saw the entry expired reaps a refreshed one.
PromiseKept ==
    \A k \in Keys : (promise[k] # None /\ now <= promise[k].until) =>
        map[k] # None /\ map[k].payload = promise[k].payload /\ ~Expired(map[k])

\* Conflicting payloads under one hash delete the binding; none replaces
\* another in place.
NoSilentRebind ==
    [][\A k \in Keys : (map[k] # None /\ map'[k] # None) =>
          map'[k].payload = map[k].payload]_vars

=============================================================================
