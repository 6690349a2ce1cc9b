--------------------------- MODULE RouterRecovery ---------------------------
(***************************************************************************)
(* What compress() ships and what stays retrievable: concurrent calls of   *)
(* ContentRouter.apply() share the two-tier CompressionCache, the engine's *)
(* CCR store and, per namespace, the Python CompressionStore that          *)
(* furl_retrieve reads.  A compressed message carries <<ccr:HASH>> or      *)
(* bracket markers; shipping it promises that each marker resolves.  The   *)
(* four stores expire and evict independently of one another.              *)
(*                                                                         *)
(* The two CCR stores appear by their contracts (their own modules are     *)
(* CompressionStore and InMemoryCcrStore): each operation is one step, an  *)
(* expired entry is absent, one content per hash, no spill tier.           *)
(***************************************************************************)
EXTENDS Integers, FiniteSets, Sequences

CONSTANTS
    Contents,    \* compressible messages
    Hashes,      \* marker hashes
    MarkersOf,   \* the hashes in the compressed form, [Contents -> SUBSET Hashes]
    Crushed,     \* contents SmartCrusher compresses; the others persist their own key
    Borderline,  \* contents whose ratio only a relaxed min_ratio accepts
    Calls,       \* concurrent compress() calls
    Requests,    \* what each may be asked, [Calls -> SUBSET Request]
    Stores,      \* CCR stores, one per namespace
    StoreOf,     \* the store a call is bound to, [Calls -> Stores]
    StoreCap,    \* max_entries
    EngineCap,   \* capacity of the engine's store
    Ttl,         \* ttl of both CCR stores
    TierCap,     \* max_entries of a tier of the result cache
    CacheTtl,    \* ttl_seconds of the result cache
    SweepEvery,  \* _SWEEP_EVERY_N_INSERTIONS
    Contention,  \* may a durable write lose the lock race
    MaxTime,     \* bound on the clock
    None         \* an absent value

VARIABLES
    now,        \* the clock
    store,      \* per namespace and hash, when the row and the overlay entry were written
    engine,     \* the engine's store, oldest first
    results,    \* Tier 2: results, oldest insertion first
    skip,       \* Tier 1: contents that will not compress
    insertions, \* _insertions_since_sweep
    tight,      \* per call, is its min_ratio the tight one
    slot,       \* per call and message, where it is in the passes
    left,       \* per call and message, the markers still to handle
    lost        \* history: per call, the hashes lost by its store since it began

vars == <<now, store, engine, results, skip, insertions, tight, slot, left, lost>>

Times == 0..MaxTime

Backing == [row : Times \cup {None}, overlay : Times \cup {None}]

Stamped(K) == [key : K, at : Times]

\* Pass 1 (skip tier next, result tier, relocation, mirror, verification,
\* invalidation), Pass 2 (putting in the engine's store, persisting),
\* Pass 3 (computed, vetoed, failed), and what the slot finally holds.
Slot == {"absent", "todo", "get", "demote", "mirror", "verify", "stale",
         "crush", "persist", "computed", "vetoed", "failed",
         "original", "cached", "fresh"}

\* The compressible messages of the request, and whether its min_ratio is tight.
Request == [messages : (SUBSET Contents) \ {{}}, tight : BOOLEAN]

ASSUME RecoveryAssumption ==
    /\ MarkersOf \in [Contents -> SUBSET Hashes]
    /\ \A c \in Contents : MarkersOf[c] # {}
    /\ Crushed \subseteq Contents
    /\ Borderline \subseteq Contents
    /\ Requests \in [Calls -> SUBSET Request]
    /\ StoreOf \in [Calls -> Stores]
    /\ {StoreCap, EngineCap, TierCap, SweepEvery} \subseteq Nat \ {0}
    /\ {Ttl, CacheTtl, MaxTime} \subseteq Nat
    /\ Contention \in BOOLEAN
    /\ None \notin Nat

TypeOK ==
    /\ now \in Times
    /\ store \in [Stores -> [Hashes -> Backing]]
    /\ engine \in Seq(Stamped(Hashes))
    /\ results \in Seq(Stamped(Contents))
    /\ skip \in Seq(Stamped(Contents))
    /\ insertions \in Nat
    /\ tight \in [Calls -> BOOLEAN]
    /\ slot \in [Calls -> [Contents -> Slot]]
    /\ left \in [Calls -> [Contents -> SUBSET Hashes]]
    /\ lost \in [Calls -> SUBSET Hashes]

-----------------------------------------------------------------------------
(* The Python store *)

Gone == [row |-> None, overlay |-> None]

Held(b) == b.row # None \/ b.overlay # None

\* Reads prefer the row to the overlay entry.
Created(b) == IF b.row # None THEN b.row ELSE b.overlay

\* retrieve(h) of the call's store answers.
Resolves(s, h) == Held(store[s][h])

\* _evict_if_needed: at capacity the oldest entry goes, whatever is stored.
Evicted(s) ==
    LET held == {h \in Hashes : Held(store[s][h])}
    IN  IF Cardinality(held) < StoreCap THEN {{}}
        ELSE {{h} : h \in {x \in held : \A y \in held :
                              Created(store[s][x]) <= Created(store[s][y])}}

\* A write reaches the row, or, the lock race lost, the overlay.
WriteOutcomes == IF Contention THEN {"durable", "volatile"} ELSE {"durable"}

Written(b, outcome) ==
    IF outcome = "durable" THEN [row |-> now, overlay |-> None] ELSE [b EXCEPT !.overlay = now]

\* No call is in progress.
Idle(t) == \A c \in Contents : slot[t][c] = "absent"

\* What the stores lose in a step, for the calls in progress bound to them.
Losing == lost' = [t \in Calls |-> IF Idle(t) THEN {} ELSE lost[t] \cup
    {h \in Hashes : LET b == store[StoreOf[t]][h]
                        c == store'[StoreOf[t]][h]
                    IN  (Held(b) /\ ~Held(c)) \/ (b.row # None /\ c.row = None)}]

\* store(explicit_hash=h, require_durable=True).
Save(s, h, outcome) ==
    /\ \E victims \in Evicted(s) :
          LET kept == [x \in Hashes |-> IF x \in victims THEN Gone ELSE store[s][x]]
          IN  store' = [store EXCEPT ![s] = [kept EXCEPT ![h] = Written(kept[h], outcome)]]
    /\ Losing

-----------------------------------------------------------------------------
(* The engine's store and the result cache: timestamped keys in order *)

\* The entries of q at the positions, in their order.
Sublist(q, positions) ==
    LET place(n) == CHOOSE i \in positions : Cardinality({j \in positions : j < i}) = n - 1
    IN  [n \in 1..Cardinality(positions) |-> q[place(n)]]

Without(q, k) == Sublist(q, {i \in DOMAIN q : q[i].key # k})

Has(q, k) == \E i \in DOMAIN q : q[i].key = k

Stamp(q, k) == CHOOSE i \in DOMAIN q : q[i].key = k

\* InMemoryCcrStore::put: a refresh moves the key behind; FIFO eviction else.
EnginePut(h) ==
    LET e == [key |-> h, at |-> now]
    IN  IF Has(engine, h) THEN Append(Without(engine, h), e)
        ELSE IF Len(engine) < EngineCap THEN Append(engine, e)
        ELSE Append(Tail(engine), e)

\* ccr_get(h) answers.
EngineHas(h) == \E i \in DOMAIN engine : engine[i].key = h /\ now - engine[i].at <= Ttl

Fresh(e) == now - e.at < CacheTtl

FreshIn(tier, c) == \E i \in DOMAIN tier : tier[i].key = c /\ Fresh(tier[i])

\* Mutant of TierPut: the cap is checked before the insertion.
TierPutUncapped(tier, c) ==
    IF Has(tier, c) THEN [tier EXCEPT ![Stamp(tier, c)].at = now]
    ELSE Append(IF Len(tier) > TierCap THEN Tail(tier) ELSE tier, [key |-> c, at |-> now])

\* Dict assignment keeps the position of a key; FIFO eviction over the cap.
TierPut(tier, c) ==
    IF Has(tier, c) THEN [tier EXCEPT ![Stamp(tier, c)].at = now]
    ELSE LET longer == Append(tier, [key |-> c, at |-> now])
         IN  IF Len(longer) > TierCap THEN Tail(longer) ELSE longer

Swept(tier) == Sublist(tier, {i \in DOMAIN tier : Fresh(tier[i])})

\* Every SweepEvery insertions the expired entries of both tiers are dropped.
Insert(newResults, newSkip) ==
    IF insertions + 1 >= SweepEvery
    THEN /\ insertions' = 0
         /\ results' = Swept(newResults)
         /\ skip' = Swept(newSkip)
    ELSE /\ insertions' = insertions + 1
         /\ results' = newResults
         /\ skip' = newSkip

-----------------------------------------------------------------------------
(* Pass 1: _lookup_cached_disposition, one message after the other *)

InLookup == {"get", "demote", "mirror", "verify", "stale"}

Pass1Done(t) == \A c \in Contents : slot[t][c] \notin InLookup \cup {"todo"}

Goto(t, c, place) == slot' = [slot EXCEPT ![t][c] = place]

\* Enter a place with markers to handle.
Enter(t, c, place, markers) ==
    /\ Goto(t, c, place)
    /\ left' = [left EXCEPT ![t][c] = markers]

\* The message joins the tasks of Pass 2, not yet begun.
Begin(c) == IF c \in Crushed THEN "crush" ELSE "persist"

Defer(t, c) == Enter(t, c, Begin(c), MarkersOf[c])

Running(t, c) ==
    /\ slot[t][c] \in {"crush", "persist"}
    /\ <<slot[t][c], left[t][c]>> # <<Begin(c), MarkersOf[c]>>

StartCall(t, request) ==
    /\ Idle(t)
    /\ slot' = [slot EXCEPT ![t] =
           [c \in Contents |-> IF c \in request.messages THEN "todo" ELSE "absent"]]
    /\ tight' = [tight EXCEPT ![t] = request.tight]
    /\ lost' = [lost EXCEPT ![t] = {}]
    /\ UNCHANGED <<now, store, engine, results, skip, insertions, left>>

\* is_skipped, which pops the mark if it has expired.
LookupSkip(t, c) ==
    /\ slot[t][c] = "todo"
    /\ \A d \in Contents : slot[t][d] \notin InLookup
    /\ Goto(t, c, IF FreshIn(skip, c) THEN "original" ELSE "get")
    /\ skip' = IF FreshIn(skip, c) THEN skip ELSE Without(skip, c)
    /\ UNCHANGED <<now, store, engine, results, insertions, tight, left, lost>>

\* The ratio does not clear the call's min_ratio.
Rejects(t, c) == tight[t] /\ c \in Borderline

\* get of the result tier: a miss or an expired entry, which it pops.
LookupMiss(t, c) ==
    /\ slot[t][c] = "get"
    /\ ~FreshIn(results, c)
    /\ Defer(t, c)
    /\ results' = Without(results, c)
    /\ UNCHANGED <<now, store, engine, skip, insertions, tight, lost>>

\* Mutant of LookupHit: a cached ratio is served whatever the call accepts.
LookupHitAnyRatio(t, c) ==
    /\ slot[t][c] = "get"
    /\ FreshIn(results, c)
    /\ Enter(t, c, IF c \in Crushed THEN "mirror" ELSE "verify", MarkersOf[c])
    /\ UNCHANGED <<now, store, engine, results, skip, insertions, tight, lost>>

\* get of the result tier: a hit, whose <<ccr:HASH>> markers are mirrored
\* again from the engine's store unless the ratio no longer qualifies.
LookupHit(t, c) ==
    /\ slot[t][c] = "get"
    /\ FreshIn(results, c)
    /\ IF Rejects(t, c) THEN Enter(t, c, "demote", {})
       ELSE IF c \in Crushed THEN Enter(t, c, "mirror", MarkersOf[c])
       ELSE Enter(t, c, "verify", MarkersOf[c])
    /\ UNCHANGED <<now, store, engine, results, skip, insertions, tight, lost>>

MoveToSkip(t, c) ==
    /\ slot[t][c] = "demote"
    /\ Insert(Without(results, c), TierPut(skip, c))
    /\ Goto(t, c, "original")
    /\ UNCHANGED <<now, store, engine, tight, left, lost>>

\* One marker handled: the next place once none is left.
Advance(t, c, h, place) ==
    /\ left' = [left EXCEPT ![t][c] = left[t][c] \ {h}]
    /\ slot' = IF left[t][c] \ {h} = {} THEN [slot EXCEPT ![t][c] = place] ELSE slot

\* _mirror_single_hash_to_python_store of a scraped hash the engine lacks.
MirrorSkip(t, c, h) ==
    /\ slot[t][c] = "mirror"
    /\ h \in left[t][c]
    /\ ~EngineHas(h)
    /\ IF left[t][c] = {h} THEN Enter(t, c, "verify", MarkersOf[c])
       ELSE Advance(t, c, h, "verify")
    /\ UNCHANGED <<now, store, engine, results, skip, insertions, tight, lost>>

\* ... and of one the engine holds.  A write that stays volatile raises, which
\* ensure_ccr_backed swallows: the remaining hashes are not mirrored.
Mirror(t, c, h) ==
    /\ slot[t][c] = "mirror"
    /\ h \in left[t][c]
    /\ EngineHas(h)
    /\ \E outcome \in WriteOutcomes :
          /\ Save(StoreOf[t], h, outcome)
          /\ IF outcome = "volatile" \/ left[t][c] = {h}
             THEN Enter(t, c, "verify", MarkersOf[c])
             ELSE Advance(t, c, h, "verify")
    /\ UNCHANGED <<now, engine, results, skip, insertions, tight>>

\* Mutant of Verify: one marker that resolves is enough.
VerifyOne(t, c, h) ==
    /\ slot[t][c] = "verify"
    /\ h \in left[t][c]
    /\ Goto(t, c, IF Resolves(StoreOf[t], h) THEN "cached" ELSE "stale")
    /\ UNCHANGED <<now, store, engine, results, skip, insertions, tight, left, lost>>

\* retrieve(h): the message is served from the cache once every marker of it
\* resolves, and recomputed if one does not.
Verify(t, c, h) ==
    /\ slot[t][c] = "verify"
    /\ h \in left[t][c]
    /\ IF Resolves(StoreOf[t], h) THEN Advance(t, c, h, "cached")
       ELSE Enter(t, c, "stale", {})
    /\ UNCHANGED <<now, store, engine, results, skip, insertions, tight, lost>>

Invalidate(t, c) ==
    /\ slot[t][c] = "stale"
    /\ results' = Without(results, c)
    /\ Defer(t, c)
    /\ UNCHANGED <<now, store, engine, skip, insertions, tight, lost>>

-----------------------------------------------------------------------------
(* Pass 2: _compress_pending, the pending messages in parallel *)

\* persist_dropped: the crusher puts the original in the engine's store.
Put(t, c, h) ==
    /\ slot[t][c] = "crush"
    /\ Pass1Done(t)
    /\ h \in left[t][c]
    /\ engine' = EnginePut(h)
    /\ IF left[t][c] = {h} THEN Enter(t, c, "persist", MarkersOf[c])
       ELSE Advance(t, c, h, "persist")
    /\ UNCHANGED <<now, store, results, skip, insertions, tight, lost>>

\* A typed hash the engine's store no longer has: CcrMirrorError.
MissTyped(t, c, h) ==
    /\ slot[t][c] = "persist"
    /\ Pass1Done(t)
    /\ h \in left[t][c]
    /\ c \in Crushed
    /\ ~EngineHas(h)
    /\ Enter(t, c, "failed", {})
    /\ UNCHANGED <<now, store, engine, results, skip, insertions, tight, lost>>

\* Mutant of Persist: a volatile write is taken for a success.
PersistAnyhow(t, c, h) ==
    /\ slot[t][c] = "persist"
    /\ Pass1Done(t)
    /\ h \in left[t][c]
    /\ c \in Crushed => EngineHas(h)
    /\ \E outcome \in WriteOutcomes : Save(StoreOf[t], h, outcome)
    /\ Advance(t, c, h, "computed")
    /\ UNCHANGED <<now, engine, results, skip, insertions, tight>>

\* The original reaches the Python store, durably, before its marker ships;
\* else the crusher's mirror raises and the other compressors veto.
Persist(t, c, h) ==
    /\ slot[t][c] = "persist"
    /\ Pass1Done(t)
    /\ h \in left[t][c]
    /\ c \in Crushed => EngineHas(h)
    /\ \E outcome \in WriteOutcomes :
          /\ Save(StoreOf[t], h, outcome)
          /\ IF outcome = "durable" THEN Advance(t, c, h, "computed")
             ELSE Enter(t, c, IF c \in Crushed THEN "failed" ELSE "vetoed", {})
    /\ UNCHANGED <<now, engine, results, skip, insertions, tight>>

-----------------------------------------------------------------------------
(* Pass 3: the results are merged, or compress() fails open *)

Pass2Done(t) ==
    /\ Pass1Done(t)
    /\ \A c \in Contents : slot[t][c] \notin {"crush", "persist"}

Failed(t) == \E c \in Contents : slot[t][c] = "failed"

\* _store_disposition of a result that clears min_ratio.
Accept(t, c) ==
    /\ Pass2Done(t)
    /\ ~Failed(t)
    /\ slot[t][c] = "computed"
    /\ ~Rejects(t, c)
    /\ Insert(TierPut(results, c), skip)
    /\ Goto(t, c, "fresh")
    /\ UNCHANGED <<now, store, engine, tight, left, lost>>

\* ... and of one that does not; a vetoed result, the original, never does.
Reject(t, c) ==
    /\ Pass2Done(t)
    /\ ~Failed(t)
    /\ slot[t][c] = "vetoed" \/ (slot[t][c] = "computed" /\ Rejects(t, c))
    /\ Insert(results, TierPut(skip, c))
    /\ Goto(t, c, "original")
    /\ UNCHANGED <<now, store, engine, tight, left, lost>>

\* Mutant of FailOpen: what is already compressed ships nevertheless.
FailOpenPartly(t) ==
    /\ Failed(t)
    /\ \A c \in Contents : ~Running(t, c)
    /\ slot' = [slot EXCEPT ![t] =
           [c \in Contents |-> CASE slot[t][c] = "absent" -> "absent"
                            [] slot[t][c] = "computed" -> "fresh"
                            [] OTHER -> "original"]]
    /\ UNCHANGED <<now, store, engine, results, skip, insertions, tight, left, lost>>

\* An exception in a worker: once none runs, every message ships as it was.
\* Run inline, the messages after the failed one are still pending.
FailOpen(t) ==
    /\ Failed(t)
    /\ \A c \in Contents : ~Running(t, c)
    /\ slot' = [slot EXCEPT ![t] =
           [c \in Contents |-> IF slot[t][c] = "absent" THEN "absent" ELSE "original"]]
    /\ UNCHANGED <<now, store, engine, results, skip, insertions, tight, left, lost>>

Shipped(t, c) == slot[t][c] \in {"cached", "fresh"}

\* compress() returns.
Return(t) ==
    /\ ~Idle(t)
    /\ \A c \in Contents : slot[t][c] \in {"absent", "original", "cached", "fresh"}
    /\ slot' = [slot EXCEPT ![t] = [c \in Contents |-> "absent"]]
    /\ tight' = [tight EXCEPT ![t] = FALSE]
    /\ left' = [left EXCEPT ![t] = [c \in Contents |-> {}]]
    /\ lost' = [lost EXCEPT ![t] = {}]
    /\ UNCHANGED <<now, store, engine, results, skip, insertions>>

\* What has expired is dropped from both tiers of an entry.
Unexpired(b, time) ==
    LET kept(at) == IF at # None /\ time - at > Ttl THEN None ELSE at
    IN  [row |-> kept(b.row), overlay |-> kept(b.overlay)]

\* Entries whose row has expired and whose overlay copy has not.
Shadowing(time) == {e \in Stores \X Hashes :
    LET b == store[e[1]][e[2]]
    IN  b.row # None /\ Unexpired(b, time).row = None /\ Unexpired(b, time).overlay # None}

\* Time passes: entries of the Python stores expire.  An overlay copy newer than
\* its row answers again if a purge drops the row, and goes with it if a read
\* reaps the key first.
Tick ==
    /\ now < MaxTime
    /\ now' = now + 1
    /\ \E reaped \in SUBSET Shadowing(now') :
          store' = [s \in Stores |-> [h \in Hashes |->
              IF <<s, h>> \in reaped THEN Gone ELSE Unexpired(store[s][h], now')]]
    /\ Losing
    /\ UNCHANGED <<engine, results, skip, insertions, tight, slot, left>>

\* purge of an entry, by another actor.
Delete(s, h) ==
    /\ Held(store[s][h])
    /\ store' = [store EXCEPT ![s][h] = Gone]
    /\ Losing
    /\ UNCHANGED <<now, engine, results, skip, insertions, tight, slot, left>>

-----------------------------------------------------------------------------

Init ==
    /\ now = 0
    /\ store = [s \in Stores |-> [h \in Hashes |-> Gone]]
    /\ engine = <<>>
    /\ results = <<>>
    /\ skip = <<>>
    /\ insertions = 0
    /\ tight = [t \in Calls |-> FALSE]
    /\ slot = [t \in Calls |-> [c \in Contents |-> "absent"]]
    /\ left = [t \in Calls |-> [c \in Contents |-> {}]]
    /\ lost = [t \in Calls |-> {}]

Lookup(t, c) ==
    \/ LookupSkip(t, c)
    \/ LookupMiss(t, c)
    \/ LookupHit(t, c)
    \/ MoveToSkip(t, c)
    \/ \E h \in Hashes : MirrorSkip(t, c, h) \/ Mirror(t, c, h) \/ Verify(t, c, h)
    \/ Invalidate(t, c)

CompressPending(t, c) ==
    \E h \in Hashes : Put(t, c, h) \/ MissTyped(t, c, h) \/ Persist(t, c, h)

Next ==
    \/ \E t \in Calls : \E request \in Requests[t] : StartCall(t, request)
    \/ \E t \in Calls, c \in Contents :
          Lookup(t, c) \/ CompressPending(t, c) \/ Accept(t, c) \/ Reject(t, c)
    \/ \E t \in Calls : FailOpen(t) \/ Return(t)
    \/ \E s \in Stores, h \in Hashes : Delete(s, h)
    \/ Tick

Spec == Init /\ [][Next]_vars

-----------------------------------------------------------------------------
(* Properties *)

\* What a call ships resolves in the call's own store: no marker of a message
\* served from the cache or freshly compressed misses, unless the store lost
\* the entry (expiry, eviction, purge) after the call had begun.
ShippedResolves ==
    \A t \in Calls, c \in Contents : Shipped(t, c) =>
        \A h \in MarkersOf[c] : Resolves(StoreOf[t], h) \/ h \in lost[t]

\* A freshly compressed message never rests on a volatile copy: when its
\* marker ships the original is on disk, or was and has been lost since.
FreshIsDurable ==
    \A t \in Calls, c \in Contents : slot[t][c] = "fresh" =>
        \A h \in MarkersOf[c] : store[StoreOf[t]][h].row # None \/ h \in lost[t]

\* Both, for every message a call ships.
MarkersBacked == ShippedResolves /\ FreshIsDurable

\* A message served from the cache rests on no volatile copy either.
CachedIsDurable ==
    \A t \in Calls, c \in Contents : slot[t][c] = "cached" =>
        \A h \in MarkersOf[c] : store[StoreOf[t]][h].row # None \/ h \in lost[t]

\* Both tiers stay within the cap, with one entry per content, whatever calls
\* interleave lookups, relocations, sweeps and insertions.
CacheBounded ==
    \A tier \in {results, skip} :
        /\ Len(tier) <= TierCap
        /\ \A i, j \in DOMAIN tier : tier[i].key = tier[j].key => i = j

\* Every variable has its type, and the cache is bounded.
WellFormed == TypeOK /\ CacheBounded

-----------------------------------------------------------------------------
(* The contract of compress() *)

\* What a slot of the passes amounts to for the caller.
OutcomeOf(place) ==
    IF place \in {"absent", "original", "cached", "fresh"} THEN place ELSE "open"

\* What each store answers for, and what of it is durable.
HeldIn == [s \in Stores |-> {h \in Hashes : Held(store[s][h])}]

DurableIn == [s \in Stores |-> {h \in Hashes : store[s][h].row # None}]

Decided == [t \in Calls |-> [c \in Contents |-> OutcomeOf(slot[t][c])]]

Contract == INSTANCE RecoveryContract WITH
    held <- HeldIn, onDisk <- DurableIn, strict <- tight, outcome <- Decided

\* Passes, caches, mirrors and parallel workers together keep the contract: each
\* message of a request is decided once, ships compressed only when the call's
\* threshold accepts it and its markers are backed, and a failure anywhere takes
\* back what the call had decided.
KeepsContract == Contract!Spec

=============================================================================
