# furl-ctx in TLA+

furl-ctx compresses LLM context and keeps what it removed: a compressed message
carries `<<ccr:HASH>>` markers, and `furl_retrieve` turns a marker back into the
original. The promise users rely on is that a marker that was shipped resolves,
to its own content, inside its retention window, and is a loud miss afterwards.
Several stores that evict, expire and fail independently stand behind that
promise, and several threads, processes and gateways use them at once. This
project models the stores, the flow that ships markers, the tools and hooks
around them, checks the models with TLC and proves the central facts with TLAPS.

Contents: [the system](#the-system) ·
[modules](#modules-and-the-code-they-model) ·
[runs](#what-each-run-checks) · [disagreements](#where-code-and-documentation-disagree) ·
[bounds](#bounds) · [fairness](#fairness) · [proofs](#what-is-proved) ·
[not modelled](#what-is-not-modelled) · [plan](#plan)

## The system

`compress()` runs a `TransformPipeline` (an opt-in `CacheAligner` that only
detects, `CrossMessageDeduper`, `ContentRouter`, which first runs the
`ReadLifecycle`). The router walks the messages in three passes: look up the
result cache, compress what is pending on a thread pool, merge. Arrays go to the
Rust `SmartCrusher`, which puts dropped rows in its own `CcrStore`; the Python
side mirrors them into the `CompressionStore` that `furl_retrieve`, the CLI and
the MCP server read.

| Part | State | Operations | Talks to | Hard behaviour | What makes it correct | Module |
|---|---|---|---|---|---|---|
| `CompressionStore` (`cache/compression_store.py`) | entries in a backend, eviction heap, stale count, optional spill tier | store, retrieve, search, exists, delete, delete_cascade, clear, get_stats, import | its backend, by calls under one lock | the clock is read before the lock, retries sleep outside it, failed writes go on, restarts; a tool's answer spans lock sections | a shipped marker resolves; the heap evicts everything and stays bounded; a purge is real; an answer is true | `CompressionStore`, `StoreQueries` |
| Store of a namespace (end of the same file) | registry, singleton, context variable | resolve, build, bind, reset | `compress()`, middleware, worker threads | two first users, failures between bind and restore | no namespace reads another's entries | `NamespaceStores` |
| `SqliteBackend` (`cache/backends/sqlite.py`) | rows shared by processes, volatile overlay, per-process row counter, degraded flag | get, set_durable, delete, purge, clear, counters | a file other processes write | lost lock races, counter drift, permanent degradation | durable means on disk; the row cap holds; a note is written once | `SqliteBackend` |
| Engine store (`crates/furl-core/src/ccr/in_memory.rs`) | DashMap, token queue, generation | put, get, len | GIL-free callers | steps of two puts interleave over shard locks and an order mutex | no entry escapes eviction, FIFO, bounded tombstones | `InMemoryCcrStore` |
| Result cache and recovery (`content_router.py`, `router_cache.py`, `router_ccr_mirror.py`) | two tiers, insertion counter | lookup, accept, reject, move_to_skip, invalidate, sweep | engine store, `CompressionStore` | four independent lifetimes, concurrent calls and workers | nothing ships whose marker does not resolve | `RouterRecovery`, `RecoveryContract` |
| Block walk (`router_blocks.py`) | one conversation's blocks over the result cache | decide each unit, every turn | result cache | shapes that share keys, moving protection windows, thresholds | a block ships its own form, the same every turn | `ContentBlocks` |
| Engine of one content (`router_engine.py`, `router_split.py`, `router_dispatch.py`, ingest) | one content | split, dispatch, join, guard, offload | compressors, store | fallbacks that blank, grow or fail to store | nothing lost, reported as it is | `ContentEngine` |
| Pipeline, `CrossMessageDeduper`, `ReadLifecycle`, gates | circuit breaker; one request | apply, dedup, replace, classify | `CompressionStore` | breaker shared by concurrent calls; a veto half-way; the next turn's breakpoint | persist before replace; frozen prefix untouched; breaker opens on a streak | `CompressCall` |
| `RetrievalFeedback` | bounded deques of times per shape | record, hints, clear | retrieval path | clock read before the lock | counts honest, memory bounded | `RetrievalFeedback` |
| MCP server (`ccr/mcp_server.py`) | shared statistics file, store handle, file cache | compress, retrieve, read, search, list, purge, stats | store, on worker threads | several servers write one store, append to and prune one file | a purge stays; no event lost | `McpTools`, `SharedStats`, `StoreQueries` |
| Filters and modes (`ccr/retrieve_filters.py`, `retrieve_spans.py`, `compress_modes.py`, `regex_budget.py`) | the process timer | select rows and lines, split runs, match under a budget | furl_retrieve, furl_compress | type rules at both ends, caps, an alarm over the caller's alarm | nothing hidden without a sign; the caller's alarm survives | `RowViews`, `MatchBudget` |
| Remote gateway (`deploy/remote`) | slots, tenant locks, workspaces or rows | call, prune | one worker process per call | lock timeouts, pruning beside use | one worker per tenant, no snapshot lost | `TenantWorkers`, `PostgresWorkers` |
| Hooks (`plugins/furl/hooks`) | durable counters, one capture file | wrap, capture, compress output | `compress()`, counters | every process of the pipe and the hooks can fail or be killed | output lost or repeated only behind such a failure, each run accounted for | `ToolCallHooks`, `SqliteBackend` |
| Compressors, codecs, tokenizers, scores | none | pure functions | – | boundaries, round trips | decode of encode is the identity | – |

`PROJECT.json` lists every part with its status, and under `hazards` the lines
where each hard behaviour bites, with the properties that cover it.

## Modules and the code they model

`PROJECT.json` maps each definition to its lines. The tables below say how the
state corresponds; an action has the name of the function or of the lock section
it stands for.

### CompressionStore

One process's store and the threads that share it. A content is a model value
and `KeyOf` the hash function, so that a collision is a `KeyOf` that is not
injective.

| Model | Code |
|---|---|
| `file`, `memory` | the SQLite rows; the in-memory dict, or SQLite's volatile overlay |
| `spill` | the tier `FURL_CCR_SPILL=1` adds |
| `heap`, `stale`, `rebuilt` | `_eviction_heap`, `_stale_heap_entries`, `rebuilt_since_progress` |
| `call[t]` | the `store()` of thread `t`: waiting for the lock, in the eviction loop, asleep between retries |
| `shipped`, `promise` | history: the markers callers hold, and what they may expect |

`store()` is several actions because the code lets others in between:
`BeginStore` (hash and `created_at`, before the lock), `EnterStore` (lock, reap,
rebuild when half the heap is stale), the turns of the eviction loop
(`EvictOldest`, `PopStale`, `RebuildDrained`), `DropCollision` or `Persist`, and
`RetryPersist` after each backoff. The loop holds the store lock; what interleaves
with its turns is time, `ccr_import`, which takes no lock, other threads' clock reads,
and a kill. Every other operation is one critical section and one action. Reads
prefer the row to the overlay, as `SqliteBackend.get` does; a write under
`Contention` reaches the file or fails open to the overlay; a delete under
`Contention` may leave the row.

### StoreQueries

The questions the model asks: `furl_retrieve` by hash with and without a query,
its search over every entry, `furl_search` and `furl_list`. Each worker's `ask`
holds the call in progress; an action is one lock section (`Retrieve`;
`Search`, `Results`, and `Exists`, `StatusClock` and `Status` of a miss;
`Snapshot`, `Decode` per key and `Rank` of `search_all`; `Open` and `Find` or
`List` of the listings).
`Store`, `Drop`, `Reap` and `Tick` change the store in between. A call also
records what it could have witnessed: the hashes live at some moment (`seen`)
and those absent at some moment (`lost`), against which the properties hold its
answer.

### NamespaceStores

Processes with environments, callers, and the middleware that binds a tenant's
store. `registry[p][k]` is `_namespace_stores` and, under `Global`, the
singleton; `made` and `inMemory` are the stores built and whose entries a
memory backend holds; `files` the SQLite files; `bound` the context variable.
`Begin`/`Build` separate the check of the registry from the lock that registers
(`Registered`), `Serve`, `Store`, `Fail` and `Leave` are a `compress()` from the
binding to the `finally` that restores (`Restored`), and `Reset` is
`reset_compression_store`.

### SqliteBackend

Several processes over one file. `rows` and `counter` are the tables;
`rowCount`, `putCount`, `degraded`, `memory` and `tally` belong to a process.
`set_durable` is `Probe`, outside any transaction, and `Commit`, which is one
step under SQLite's writer lock: upsert, the purge every n-th put or the eviction
over the cap, and the counter (`CountedRows`); `SetFailsOpen` is a lost race,
`Degrade` any other error, `SetDegraded` what a degraded process does.
`Increment` writes the first-run note when it returns one.

### SharedStats

`lines` is the shared file as the set of its events, numbered as they are logged,
with their times in `logged`: no step depends on their order. `LogEvent` appends under the lock, `ReadEvents` reads
it and takes the lines to keep, `Rewrite` or `RewriteFails` (which truncates
first) write them back. `Look` is `_hook_activity_block` over counters that hooks
bump and a purge of everything wipes, with `Rebaselined` for its snapshot.

### InMemoryCcrStore

The engine's store. `put()` is a step for each shard-lock or mutex section:
`StartPut` claims a generation, `Refresh`/`Collide`/`Miss` are the probe,
`DropCollision` the conditional removal, `LockOrder`, `EvictToken` per turn of the
eviction loop, `InsertEntry`, `PushToken`, and compaction reads the map one key
at a time (`CollectToken`) before it replaces the queue (`CompactOrderQueue`).
`get()` of an expired entry is `StartGet` then `Reap`.

### RouterRecovery and RecoveryContract

Concurrent `compress()` calls over the result cache, the engine store and one
Python store per namespace. Here the two CCR stores appear by their contracts:
one step per operation, an expired entry absent, one content per hash.

| Model | Code |
|---|---|
| `slot[t][c]`, `left[t][c]` | where message `c` of call `t` is in the three passes, and the markers still to mirror, verify, put or persist |
| `results`, `skip`, `insertions` | the two tiers of `CompressionCache` and the sweep counter |
| `engine` | the engine store, oldest first |
| `store[s][h]` | when the row and the overlay copy of hash `h` were written |
| `lost[t]` | history: what the call's store lost since the call began |

Pass 1 is `LookupSkip`, `LookupMiss`, `LookupHit`, `MoveToSkip`, `Mirror` and
`MirrorSkip` per hash, `Verify` per hash and `Invalidate`; Pass 2 is `Put`,
`MissTyped` and `Persist` per hash, with pending messages interleaved; Pass 3 is
`Accept`, `Reject`, or `FailOpen` when a worker raised. Rows are kept or evicted
by `Save`; `Delete` is a purge by someone else, `Tick` lets entries expire.

`RecoveryContract` is what `compress()` promises with none of that in sight: per
call and message an `outcome` that is settled once (`Keep`, `ShipCached`,
`ShipFresh`), stores that change on their own (`Change`), and a call that fails
and ships nothing compressed. `RouterRecovery` implements it (`KeepsContract`,
an `INSTANCE ... WITH`) under this mapping: a message's outcome is open until its
slot is decided (`OutcomeOf`), a store holds the hashes with an unexpired row or
overlay copy (`HeldIn`) and has on disk those with an unexpired row
(`DurableIn`).

### ContentBlocks

Conversations that grow by turns and share the result cache. A unit is a flat
tool result, a part of a nested one, or a text block; the walk decides them in
order (`Decide`), with the protection gates as operators (`TextProtected`,
`ToolProtected`, `ErrorProtected`, `Skipped`), the key of each shape (`KeyOf`)
and the dispositions of the cache as actions (`ServeCached`, `Demote`, `Miss`,
`Accept`, `Reject`, `Forget`).

### ContentEngine

One content as lines of seven kinds, through `IsMixed`, `Split` (one operator per
section kind), the strategy arms of the dispatcher (`Tabular`, `Envelope`,
`Extracted`, `Json`, `Log`, `Text`), the join, the empty-output `Guard` and the
`Offload` of what nothing shrinks. What a compressor makes of a section is a
form and a size, chosen freely; the store may refuse.

### CompressCall

`compress()` in two threads over several turns: `Start` (the breaker, the frozen
prefix, the warning about a breakpoint that moved), then the passes message by
message: deduplication (`DedupKeep`, `DedupReplace`, with `Persist` before every
pointer), read lifecycle (`ReadKeep`, `ReadReplace`), the router's gate chain
(`Disposition`) as `RouteKeep`/`RouteReplace`, and `Deliver`, `Raise`, `Panic` or
`Return`. Routing one message is one step here; `RouterRecovery` has its inside.

### McpTools

The tools that change what is stored, on the worker threads of two servers over
one file. `RetrieveRead` and `RetrieveBump` are the two halves of `retrieve()`
under the server's store lock; a purge is the walk of `delete_cascade_detailed`,
per hash `PurgeCheck` (co-references), `PurgeCollect` (its markers) and
`PurgeErase`, and the read-back `Verify`; `furl_compress` stores its nested rows, then
its top (`StoreNested`, `StoreTop`); `furl_read` has its file cache.

### RowViews and MatchBudget

`RowViews`: one stored original, the summary that ships in its place
(`Summarize`: dominant array, histograms, examples), the answer of a filtered
retrieve (rows by field, range and limit; lines by pattern, range and context)
and the split into runs of `furl_compress`. These are pure, so there is one
action per question and the properties relate its operators to definitions
stated independently. `MatchBudget`: one action for each statement around one
`re.search` (`Install`, `Arm`, `Clock`, `Enter`, `Search`, `Except`, `Disarm`,
`RestoreHandler`, `Rearm`, `SetTimer`), with the timer and the handler; time may pass and a
signal may be handled between any two. A pattern is one that RE2 takes and
reads as `re` does, one that it takes and reads otherwise (`divergent`), or one it does not
take; `re` may fail in the match. `slip` adds up
the pauses between a timer call and the clock reading beside it, which is how much later
than asked the caller's alarm may be set. A caller's repeating interval is put back
with its alarm and has no variable of its own.

### RetrievalFeedback, TenantWorkers, PostgresWorkers

`RetrievalFeedback`: `ReadClock`, then `RecordRetrieval` or `GetHints` under the
lock. `TenantWorkers`: the asyncio gateway; what lies between two awaits is one
action (`Call`, `Enter`, `GiveUp`, `Finish`, `Prune`), `locks` are the tenant
locks with their reference counts. `PostgresWorkers`: `Prepare` (which also
prunes), `Begin` when the row lock is granted, `Commit` or `Abort`; `begun` is
what `now()` means inside the transaction.

### ToolCallHooks

One tool call, process by process.

| Model | Code |
|---|---|
| `Announce`, `Clause` | the session banner over the settings it reads (`Announced`), or that it does not know |
| `Wrap`, `LeaveAlone`, `GateFails` | the PreToolUse gate over the settings it reads (`Gated`), which are those of the banner only if `CLAUDE_PROJECT_DIR` is set; `Edit` changes a settings file between the two |
| `Capture`, `KilledInCapture`, `RunPlain` | the capture into a file with its traps; the `else` branch and a plain command |
| `Decide`, `CompressorEnds` | `_decide` of the compressor, then its one write and its status: it may be killed before, in or after the write, and `cat` shows the file behind a status that is not 0 |
| `Respond` | the host's response with its fields |
| `HookStarts`, `Gates`, `Answer`, `CountOutcome`, `Flush` | the PostToolUse hook: the count of its run, the gates down to an answer, its serialisation, the count of its outcome, the end of the process, at which the answer leaves its buffer |
| `HookFails` | the host's timeout or the catch-all exit, between any two of these |
| `mishap` | history: what was lost or repeated, an increment that was lost or a process that died (`lapse`), an edit of the settings |
| `tally` | the increments that reached the counters, in order |

A text is its origin, its form and how much of it is there: whole, cut off behind its
marker, or a stub without one. `Prefixes` is what a process that dies in its write
leaves.

### Compositions, MC modules and proof modules

`Sharing` composes what processes, threads and calls share (`SqliteBackend`,
`SharedStats`, `TenantWorkers`, `PostgresWorkers`, `RetrievalFeedback`,
`NamespaceStores`, `ContentBlocks`, `StoreQueries`), `ClientCalls` what one call or
tool does (`McpTools`, `CompressCall`, `ContentEngine`, `RowViews`, `MatchBudget`,
`ToolCallHooks`). The parts share no state, so `part` says which one a behaviour
exercises and the variables of the others stay `None`. Both are specifications over
abstract constants; their properties are those of the parts, named `Backend!`,
`Stats!`, `Compress!` and so on in the definitions.

`MCCompressionStore`, `MCInMemoryCcrStore`, `MCRouterRecovery`, `MCSharing` and
`MCCalls` extend a specification and define the values of its constants; the `.cfg`
assigns them. Where a value is a definition of the MC module under the constant's
name with `MC` in front that only names another one, it is there so that TLC
evaluates it once.

`CompressionStoreProofs`, `InMemoryCcrStoreProofs`, `RouterRecoveryProofs` and
`RouterContractProofs` hold the theorems of their component. `SharingProofs` and
`ContentBlocksProofs` extend `Sharing`, `CompressCallProofs` and `ToolCallsProofs`
extend `ClientCalls`: their theorems are about the specification the runs check,
and name the properties the runs check.

## What each run checks

| Run | Shows |
|---|---|
| `store_heap` | Two threads, four keys, three slots, in-memory backend: the heap holds one live tuple per entry plus the counted stale ones, covers every entry and stays within twice the cap (`HeapExact`), the cap holds (`CapacityBound`) and eviction is oldest-created-first (`EvictsOldestFirst`), although times are read before the lock. |
| `store_collision` | Two contents under one key: no step replaces one by the other (`NoSilentRebind`), and the eviction loop always ends (`StoreTerminates`, under fairness). |
| `store_spill` | Failing spill writes and deletes, imports and restarts: markers resolve in their window (`PromiseKept`), and once a purge's read-back says gone, the only step that brings a key back is the write of a store or an import of that very key (`GoneStaysGone`). |
| `store_durable` | SQLite with lock contention, durable retries and restarts (`DurableRetriesSound`): a marker shipped under `require_durable` survives a kill, and a retry that puts an evicted entry back overruns the cap by at most one entry per other thread. |
| `store_restart_order`, `store_live_contention` | violated: see below. |
| `engine_store_puts` | Two threads make six puts of four payloads, two under one hash, over two slots: no live entry is without a token and tombstones stay bounded (`QueueSound`), compaction loses none (`CompactionKeepsAll`), eviction is FIFO (`EvictsInOrder`), `get()` never reaps a refreshed entry (`PromiseKept`), the cap holds when there are at least as many slots as threads (`CapacityOverrunBound`). |
| `engine_store_rebind` | violated: see below. |
| `recovery_passes` | Two calls with different thresholds: the passes implement the contract of `compress()` (`KeepsContract`), so each message is settled once, ships compressed only if the call's own threshold accepts it, and a failing call ships nothing compressed; every marker that shipped answers, a fresh one from disk, unless the store lost it during the call (`MarkersBacked`); the tiers are well formed and keep their cap (`WellFormed`). |
| `recovery_overlay` | violated: see below. |
| `sharing` | What processes, threads and calls share; table below. |
| `calls` | What one call or tool does; table below. |

| `sharing` | Module | Shows |
|---|---|---|
| `RowCounterHolds` | `SqliteBackend` | A process's counter is exact while nobody else changes the set of rows, and however the counters of processes drift the file never exceeds the cap and what the others put between two recounts. |
| `NoteOnce` | `SqliteBackend` | Hooks of degraded processes, lost races and restarts write the first-run note at most once. |
| `WriteIsRead` | `SqliteBackend` | A put reported durable is the row that is read, with the two exceptions the property names. |
| `EventsKept` | `SharedStats` | An event inside the window stays in the file, but for a kill or an error in the middle of a rewrite. |
| `SessionExact` | `SharedStats` | `this_session` counts since the first look or the last wipe. |
| `WorkspaceHeld` | `TenantWorkers` | A running call is alone in its tenant's workspace, and pruning has not removed it. |
| `SnapshotsKept` | `PostgresWorkers` | What a returned call wrote stays in its tenant's row. |
| `CountHonest` | `RetrievalFeedback` | An answer misses no retained retrieval and over-counts at most one per other caller. |
| `NamespacesHold` | `NamespaceStores` | No tenant reads another's entries, and what was stored is in the store later calls get. |
| `AnswersTrue` | `StoreQueries` | What a tool says of the store was so at some moment of the call; a search passes over no better entry; the pages of a listing tile it; counts only what was shown. |
| `BlocksHold` | `ContentBlocks` | A block ships a form made of its own payload under its own tool's bias, the same every turn unless its cache entry changed; retrieval results and cached blocks are never touched. |

| `calls` | Module | Shows |
|---|---|---|
| `ErasedStaysGone` | `McpTools` | What a purge verified gone stays gone for its server until it is stored again. |
| `NestedResolves` | `McpTools` | A cascade never erases rows that a durable original still names. |
| `Recoverable` | `CompressCall` | Whatever passes rewrote a message, its original is durable when the result is returned. |
| `PointersGrounded` | `CompressCall` | A pointer names an earlier message that the deduplication kept and that holds the text or enough of its rows; no chains; no pointer from or to a failed output; nothing replaced in the frozen prefix. |
| `OpensOnStreak` | `CompressCall` | The breaker opens only after a streak of failed runs, whichever threads they ran on. |
| `MovedBreakpointWarned` | `CompressCall` | A caller whose breakpoint moved past a message that shipped transformed is told so. |
| `SectionsCover` | `ContentEngine` | Splitting and reassembling a mixed content lose and double no line. |
| `ResultSound` | `ContentEngine` | The engine blanks nothing, reports no saving it did not make, and ships no view whose original is not stored. |
| `ViewsHold` | `RowViews` | Summary and filtered retrieve agree; no answer hides a match without a sign; runs tile. |
| `BudgetTransparent` | `MatchBudget` | A match that returns leaves the caller's handler, and the caller's alarm due when it was: never earlier, later by the pauses beside the timer calls at most. It answers as `re` does, or as RE2 where they differ, and says the budget ran out only if it did. |
| `OutputOnce` | `ToolCallHooks` | What a command that ends by itself has shown is whole unless the compressor lied about its write; cut off or repeated only behind a signal or a broken compressor, and repeated raw; compressed twice by the two hooks only behind a stub. With `CLAUDE_PROJECT_DIR` and settings left alone, nothing is wrapped under a banner that says the pipe is off. |
| `HookAccounts` | `ToolCallHooks` | A response keeps its fields, and one that the hook processed shows nothing a redaction pattern matches. No process counts two runs or two outcomes, one without a lapse counts an outcome per run, and a compression is counted only once its answer is written. |

The type invariants are conjuncts: `TypeOK` of `sharing` has those of its parts,
`HeapExact`, `QueueSound` and `WellFormed` those of their modules,
`NestedResolves` and `SectionsCover` those of `McpTools` and `ContentEngine`.

Each property of a passing run has a mutant of the code in its module (a
definition whose comment starts with "Mutant of") under which TLC finds the
property violated.

## Where code and documentation disagree

- `store_restart_order`. A restarted process starts with an empty eviction heap
  over a file with rows (`compression_store.py:500`). At the cap it pops the
  tuples of its own stores and so evicts the entry it just wrote, keeping every
  older row, until a rebuild. CCR-RETENTION.md says oldest-created-first.
- `store_live_contention`. While another process keeps the SQLite write lock,
  deletes fail open; the loop notes progress anyway
  (`compression_store.py:1841`), drains its heap, rebuilds it and starts again,
  holding the store lock. `sqlite.py:22` promises a bounded retry.
- `engine_store_rebind`. Two puts of different payloads under one hash that both
  saw it absent leave the second in place (`in_memory.rs:166`); the comment at
  `in_memory.rs:106` says conflicting payloads delete the binding.
- `recovery_overlay`. A cache hit whose mirror write reached only the overlay
  swallows the error (`router_ccr_mirror.py:116`), verifies against that
  overlay and ships; `smart_crusher.py:676` says such a marker never ships.

Observations that no run carries, met while modelling; the models do what the
code does:

*Stores.* `in_memory.rs:155` says the map never exceeds its capacity even
transiently, which needs at least as many slots as threads. A durable retry
writes without a second look at the cap or the key (`compression_store.py:736`).
A put can evict the row it just wrote although `set_durable` returns true, if the
others are no older. `get_entry_status` is asked after `retrieve()` has deleted an
expired entry, so "expired" (`compression_store.py:222`) is reported only when
the expiry falls between two lock sections; a store in between gives an error
with status "available". When `items()` loses its lock retries, `furl_list` says
there are no entries. Pages of `furl_list` are no snapshot: a removal or a
refresh between them skips entries. An expired entry is not demoted to the spill
tier, though CCR-RETENTION.md speaks of capacity and TTL. `get_compression_store`
checks the singleton and reads it again: a reset in between makes it return
`None`. A namespace with a plugin as `FURL_CCR_BACKEND` gets a memory store
(`compression_store.py:2040`), though 2152-2155 promise an error; after a reset a
closed `SqliteBackend` cached in a thread degrades to memory.

*Router.* A result vetoed by a transient lock loss enters the skip tier as if it
did not compress, and a call with a tight threshold moves a result there and so
hides it from relaxed calls, both until the cache's TTL. Two calls that compute
one key at once can leave it in both tiers, so a form shipped this turn flips next
turn. Flat error results over `error_protection_max_chars` are compressed while
nested ones are protected whole (`router_blocks.py:212`, `:454`). Blank content of
4000 characters is offloaded, and huge content tries the offload twice. A mixed
routing log counts fences after but not before.

*compress().* It never passes `compression_store`, so the read lifecycle is inert
through it although `config.py:87` says "On by default". The breaker counts
`except Exception`: a Rust panic neither counts nor resets. Deduplication may
point at a read that the lifecycle then marks stale, and ignores
`exclude_tools`. The lifecycle's strict UTF-8 encoding raises on lone surrogates.

*Tools.* `retrieve()`'s write-back resurrects a row that another server purged in
between; a cascade can delete a nested blob that a concurrent compress shares
(`compression_store.py:1657`); both are named exceptions of the properties. Two
`furl_read`s that find a file gone race on one `del`. A failed first look makes
`this_session` the lifetime count, and a kill between truncation and write loses
the events file. `retrieval_feedback.py:284` says each deque is non-decreasing,
which the clock read before the lock refutes. The MCP server keeps its store after
a reset.

*Views.* The preview hint's counts are keyed by text, so the key shown for a
number never matches `_equals`, equal texts of different types merge, and a value
"_distinct" is overwritten. `select_field` alone selects rows whose field is null.
A line over the time budget, or one whose search `re` refuses, counts as no match
without a sign. An object with a
repeated member makes the raw selection an error its comment calls unreachable. An
alarm that lands outside the `try` of `regex_budget` raises out of a function
documented not to raise, with our handler still installed if it came before the
`finally`.

*Hooks.* `pipe_compress.py` returns 0 when stdin cannot be read (line 180), so
`|| cat` never runs and the output is lost; a compressor killed in or after its write is
followed by `cat`, which repeats the output raw; a signal after `trap - INT TERM` loses
the capture. Without `CLAUDE_PROJECT_DIR` the banner may read rules that the gate of a
command elsewhere does not, and say "off" of a pipe that runs. A hook killed
before its outcome is counted leaves a run without one, and one killed before its buffer is
flushed an outcome of an answer nobody saw. The already-compressed gate of the PostToolUse hook precedes the scan
of stderr. A size-reroute is counted before a serialisation that fails.

## Bounds

All bounds are constants of the modules, given in the `.cfg` and the MC modules. They are small but not below where the interesting
case happens:

- `store_heap` uses three slots: with one or two, stale tuples never reach the
  top of the heap before a rebuild removes them. `MaxStale = 3` lets half of the
  heap be stale, which is where the rebuild triggers. The clock has three values,
  so that a late thread enters with an older time than the newest entry.
- `store_durable` uses three keys for one slot: an eviction between a failed
  write and its retry then puts two entries over a cap of one. `TickSize = 2`
  with a TTL of 1 separates inside and outside the window.
- `store_spill` lets every spill operation fail and imports one checkpoint row.
- `engine_store_puts` makes six puts over two slots: the queue passes twice the
  capacity with the fifth, so that compaction runs beside a refresh or an insertion in
  flight. `Ttl = 0` and one tick make an entry expire; `MaxLoad` bounds puts and ticks
  together, so that an expiry takes the place of the sixth put.
- `recovery_passes` has a crushed array with two markers, which the engine store
  of two slots holds until they expire, and a log with a marker of its own, whose
  ratio one call accepts and the other rejects. The Python store has two slots for
  the three markers, so that each message can evict the other's; tiers have one
  entry, and each insertion sweeps. One namespace is shared by both calls; the
  theorems hold for any number, and for engine stores that evict.
- `sharing`, durable file: two processes, three keys over a cap of one row, a
  purge at every second put, two increments of one counter, one fault. The bound on the rows is
  two, so the third key could exceed it; two increments let two durable bumps meet. `MaxLoad`
  bounds rows, overlay copies and the counter together, so that these are not all at
  their largest at once. Statistics: two servers, two events, two
  counters, one mishap. Gateways: three calls, two of one tenant, so that one
  waits while another runs and a third prunes. Feedback: two callers, deques of
  two, two shapes over a cap of one. Namespaces: a process without a namespace and
  two that spell one directory differently, two stores built. Blocks: two
  conversations of two turns over three units, of which two have the same payload
  in different shapes. Queries: three originals that match not at all, weakly
  and strongly, pages of one, a result cap of one, three changes by others.
- `calls`, tools: two servers, two workers, one original, its rows, a file that
  quotes their marker, one fault; retrieves and purges ask for the original or the rows. `compress()`: two threads and three requests:
  one text four times, of which the first output failed; a file read twice with nearly the
  same rows and edited in a later turn, so that the second read becomes a pointer and then
  outdated; and a marked duplicate before a system message. One array is remembered as a source
  (`MaxSources`). Engine: one line of each of seven kinds, all contents of up to three
  lines of prose, fences and brackets, and six contents of four lines for the
  orders that matter. Views: arrays
  of up to three rows over six row shapes, objects of up to three members, four
  lines of five kinds, and every combination of filter the requests list. Match: a
  budget of two in five ticks, each pattern class on and off the main thread, with and without
  an alarm of the caller's. Hooks: responses of every shape with texts that are clean, match
  or overrun the scan, with and without a marker and a second field, and a command without
  output under every setting with a rule or an unreadable file in one place; failures
  are not bounded, one edit of the settings.

Symmetry is used over threads, processes or servers, and over keys where no
definition tells them apart; never in a run with a liveness property. Deadlock is
not checked where the bounds make the system stop.

## Fairness

`StoreTerminates` assumes weak fairness of a thread's own steps in `store()`. A
Python thread that is runnable runs; nothing is assumed of the store lock, which
other threads may take first for ever, and nothing of operations other than the
one that is inside the loop. The other specifications state no fairness: their
properties are about what a step may do.

## What is proved

The theorems hold for every set of keys, contents and threads, every cap, TTL
and clock bound. They assume the ASSUMEs of their module: the type of each
constant, a finite `Keys`, positive TTLs, no spill beside a durable primary, and that
the absent value is none of the values. What a theorem assumes beyond that is in
its ASSUME and below.

`CompressionStoreProofs`:

- `TypeCorrect`: `Spec => []TypeOK`, in every configuration.
- `HeapAccounted`, `HeapCovers`, `CapacityBounded`, `HeapStaysBounded` and
  `OldestEvictedFirst`, for the in-memory backend: `Volatile`, no imports; and
  `HeapStaysExact`, which joins them to the property the run checks.
  `HeapAccounting` is not inductive alone, because it counts tuples without
  saying which are live. The inductive invariant says that `heap` is finite,
  each present entry has a tuple with its creation time (`HeapCoverage`), the
  number of tuples is entries plus stale count, and the loop's bounds hold where
  the lock is held. One lemma per kind of heap change (push, pop of a real or a
  stale tuple, rebuild, loss of an entry) gives its cardinalities; one step per
  action applies it. `OldestEvictedFirst` follows from coverage: the top of the heap
  names an entry, and every other entry has a tuple no older than it.
  `CapacityBounded` needs `MaxEntries > 0`, as the code with a cap of zero
  stores one entry at a time.
- `PromiseAlwaysKept`, in every configuration, durable, volatile or spilling. A
  promise says nothing of the tier it rests on, so `PromiseInv` does: with the entry
  in a durable file the row answers for it; in memory the entry does; after an
  eviction the spill row, and no newer entry in front of it. One lemma says that a
  promise is kept when entries go whose window ended or that it does not rest on.
  `ImportsMatch` (an imported row is bound to the key of its own content) is what
  the export of the same store guarantees.
- `DurableRetriesStaySound`: durable retries put entries back after the eviction
  loop of another call counted without them. `OverrunInv` counts what is present
  together with what the sleeping calls may still put back: it exceeds the cap by
  the other threads at most.
- `GoneAlwaysStaysGone` (without a durable primary): what neither tier holds live is
  expired there or absent, and every step but a store or an import leaves it so;
  an eviction only spills what was live.
- `NeverSilentlyRebound` (volatile): the one step that writes an entry over another
  has looked for a collision in the same critical section. A durable retry or an
  import has not, which is why the theorem excludes them.

`InMemoryCcrStoreProofs`:

- `EngineTypeCorrect`: `Spec => []TypeOK`.
- `EvictionReachesAlways` and `CompactionKeepsAllAlways`. Neither property is
  inductive alone: an entry keeps its token through a compaction only because
  the compaction has collected it, has it still to read, or its refresh is in
  flight; and the refresh cannot push before the mutex is free. The invariant is
  `Reach`: types, both properties and the mutual exclusion of the order mutex.
- `CapacityOverrunAlwaysBound`, from `Reach`: the loop ends over capacity only
  with an empty queue, and then each entry has a thread of its own about to queue
  its token, so that a larger map would contradict the pigeonhole principle.
- `QueueAlwaysBounded`, under `FewThreads` (`Cardinality(Threads) <= 2 * Capacity`):
  what a compaction has collected and has still to read together stay within
  twice the capacity, because nothing is inserted while it holds the mutex.
  `QueueStaysSound` joins it with types and reach.
- `PromiseAlwaysKept`: a promise was made by the entry still in the map.
- `EvictsAlwaysInOrder`. The queue is not sorted: a token is pushed under the order
  mutex long after its generation was handed out. What holds is `Fifo`: the entry
  of a put that has returned has its token queued behind tokens handed out before
  that return (`Settled`), generations in flight belong to one put each (`Apart`), and
  none is ahead of the counter (`Issued`).

`RouterRecoveryProofs`:

- `ShippedMarkersResolve`, `FreshMarkersDurable` and their conjunction
  `ShippedMarkersBacked`, the property the run checks. The invariant adds what
  each place of the walk has already established: a message being verified has
  checked every marker no longer in `left`, one being persisted has a row for each
  marker no longer in `left`, and each such fact holds or the marker is in `lost`.
  Any step of another call either leaves the call's store alone or records the
  loss, which is the lemma the actions share.
- `CacheAlwaysWellFormed`: both tiers of the result cache are bounded and name each
  content once, and the engine's queue keeps its type. What a pop or a sweep leaves
  is a part of the tier in its order (`Sublist`): its entries have places of their own in
  the tier, because a set of positions has exactly one at each rank (`Ranks`).

`RouterContractProofs`:

- `PassesKeepContract`: `Spec => Contract!Spec`, the refinement. Initial states
  map to initial states; each action maps to one action of `RecoveryContract` or
  to a stutter, one lemma per group of actions. A lookup, a mirror or a put that
  writes to a store is a `Change`, `Verify` of the last marker is `ShipCached`,
  `Accept` is `ShipFresh`, `Reject`, a relocation and a skip are `Keep`. It rests on
  the invariant of `RouterRecoveryProofs` for the markers, and on `Cleared`: a
  message about to be served from the cache has a ratio the call's threshold
  accepts.

`ToolCallsProofs`, over `ClientCalls` (finite sets of hashes):

- `ToolsInvariant`, and from it `VerifiedErasureHolds` and `CascadeSpares`. Neither
  property is inductive alone. The first needs that between the read and the
  write back of a retrieve nothing verifies the entry gone (`ReadNotErased`), the
  second that what a cascade is about to erase was counted: whatever entry still
  holds the marker came after the count or is in the cascade itself (`Counted`).
- `OutputAlwaysOnce` and `HookAlwaysAccounts` of `ToolCallHooks`. The invariant has two
  halves. `ShapeSound` follows the text: what was shown is nothing, one piece, or a
  piece with the raw capture behind it, with what excuses it (`ShownSound`); the response is
  what the host makes of it, and the hook's answer keeps its fields and is clean.
  `TallySound` says at each step which runs and outcomes are counted, once or
  never (`Few`), and that without a lapse they are the same. The lemmas about `_extract_text`
  and `_reinject` (`FieldForms`, `Reinjected`, `Replaced`) say which field is replaced and
  which rides beside it, `CountedConcat` what an increment adds to the counters.
- `BudgetAlwaysTransparent` of `MatchBudget`. The invariant says what each statement
  finds: our handler from its installation to its restoration and the caller's outside
  them, and, once our budget has replaced the caller's timer, a saved remainder from
  which the deadline of the caller's alarm can be computed again, later by the
  pauses counted in `slip` at most.
- `SectionsAlwaysCover` and `ResultAlwaysSound` of `ContentEngine`, for any lines and
  compressors. `EngineInv` says that the sections routed and those to come are in
  order and hold each line that is no fence once (`Planned`), which outcome a phase leaves
  behind (`Phased`, `Sized`), and that a view's range is stored before it is listed
  (`Kept`). Where a section ends is a `CHOOSE`; that there is such a line, and that a
  sum over the sections is what its parts add up to, is by well-founded induction on
  line numbers (`SplitExists`, `SumsExist`).
- `ViewsAlwaysHold` of `RowViews`, for any originals and filters. The state is simple:
  summary, answer and runs are those of the stored original (`ViewsInv`). The work is in the
  operators: each line is in the run of the last start before it (`RunOfLine`), the spans
  of a raw answer are those of the rows selected from (`SpansAreRows`), what is cut off
  is within the count the answer reports (`RowsHonest`, `LinesHonest`), and a sum over the values
  that print alike is at least each one's count, so that the histogram names as many rows
  as a selection by that value finds (`FoldBounds`, `AgreeHolds`).

`CompressCallProofs`, over `ClientCalls` (a tool call precedes its output in a request, texts have
finitely many rows):

- `CallsSound`, `ReplacedRecoverable` and `PointersAlwaysGrounded`. `CallInv` says it
  of the call in progress: each message is in a form of its own text, a pointer
  leads back to a message that is none, and what deduplication has yet to reach is
  whole, so that its candidates stay what they were when it chose them.
- `BreakerOpensOnStreak`: consecutive failures never outnumber the streak.
- `MovedBreakpointAlwaysWarned`, from `CallInv` of the returned call.

`SharingProofs`, over `Sharing`:

- `WorkspaceAlwaysHeld`: a lock's count is the number of calls that refer to it, so
  that it is dropped only when none does, and calls of a tenant meet at one lock.
- `SnapshotsAlwaysKept`: a call that holds its row has read what returned calls wrote.
- `CountersExact`: the counter of a process that is alone is exact also between its
  probe and its commit (`ProbeTrue`); `WritesAlwaysRead` follows from that state.
- `RowCounterAlwaysHolds` adds the cap on the rows (`RowCapBound`). The invariant is an
  account (`Balanced`). A process that watches the cap has counted every row except those
  charged to others: the puts they made since they last recounted, and all the puts one
  may have made before it degraded. A probed row that another process deletes before the
  transaction is counted twice. A process that opened a file already over the cap evicts
  nothing for the others, so it is charged in full to those that opened the file before
  it; the order in which they did is the witness of the invariant. When the last
  process that accounts for the rows stops watching, there is still room for all puts
  the others can make (`Spare`). Summed over processes these counts are the cardinality
  of a set of slots, one for each put between two recounts. It assumes that there is a
  process.
- `EventsAlwaysKept`: what a rewriter holds to write back contains every recent event
  of the file; `SessionAlwaysExact`: the counters stand at the bumps counted on top of
  the baseline.
- `NamespacesAlwaysHold`: a store is in the registry of one process under one key, a
  binding is the one its call will restore, and stores and files hold one owner's
  entries.
- `HashAnswersAlwaysTrue`: `HashAnswersTrue` and `CountsShown` of `StoreQueries`. A running
  call has already witnessed the answers that are true now, and what it read before
  it took the lock again was true when it read it.
- `AnswersAlwaysTrue` adds the answers about every entry (`RankingComplete`, `PagesTile`), for
  any hashes, scores and limits. A ranking has decoded, or has still to decode, every
  entry that was there all along (`Ranking`), and the best of what it read passes over
  none (`BestIsBest`). A listing is an order in which an entry's place is the number of
  entries ahead of it (`SortedPlaces`). Without a removal or a refresh these only grow, so
  that what is not listed yet has at least as many ahead of it as are listed, and the
  next page, which starts there, misses none; without an addition either, each listed
  entry is still at its place (`Paging`). That the order is total, so that the `CHOOSE` of
  `InOrder` finds it, is by induction on the number of entries (`Sortable`). The steps of
  others are described once (`Env`) and preserve all of this (`UnderwayFollows`).
- `CountAlwaysHonest` of `RetrievalFeedback`. A deque is its history without a prefix that
  has aged. An aged entry survives a pruning only behind a younger head, recorded by
  a caller that read the clock before. For every time and shape, `Outrun` counts the
  entries in that position together with the callers that may still add one: once a
  younger entry is there, they are fewer than the callers, because the one that
  recorded it is not among them, and a later clock cannot add to them.

`ContentBlocksProofs`, over `Sharing`:

- `BlocksAlwaysHold`: every shipped form is the unit's own, what is protected ships
  verbatim, and a unit ships what it shipped last turn. A computed form would shift
  a unit only if an entry appeared since it shipped; the invariant keeps, for each
  decision whose entries did not change, that the cache would answer it again.
- `SharedTypesHold`: the type invariants of all parts of `Sharing` (this module extends
  `SharingProofs`, whose invariants have most of them). What was missing is that the aggregator
  never knows more than `max_shapes` shapes (`Registered`): it makes room before it
  adds one (`RoomMade`), and pruning adds none; and that the calls of `StoreQueries` keep
  their records (`QueriesTyping`).

In a composition the invariant of a part is stated of the behaviours that exercise
it (`part = "backend" => ...`); a lemma per part reduces the composed specification
to the part's own `Init` and `[Next]_vars`. `SharingAssumption` and `CallsAssumption`
collect the assumptions on the constants of the parts.

Attempts at these proofs changed the models where they were wrong: arms of the
recount of `SqliteBackend` overlapped, so that it was nondeterministic; a refresh in
`CompressionStore` reopened a window that had ended; the biases of
`ContentBlocks` left out the neutral one.

A theorem states every invariant and action property of the passing runs, under assumptions
that the run's configuration meets. Model-checked alone are `StoreTerminates`, a liveness
property, and the disagreements that the `violation` runs show.

Liveness, ENABLED and RECURSIVE operators are out of the prover's reach; no module
declares a RECURSIVE operator. Neither can a theorem whose parameter is an operator, such as the
library's induction rules or facts about folds, be used: where a proof needs induction
(`Downwards`, `Upwards`, `SumsExist`, `FoldExists`, `Sortable`), it argues with a least counterexample
of one definition.

## What is not modelled

In `CompressionStore`: rejection of invalid arguments, retrieval logs and events,
`get_metadata`, `close()`, the spill's own row cap and contended reads (in WAL mode
readers do not block). Other processes and degradation are in `SqliteBackend`, whose
entries have no content. In `InMemoryCcrStore`: overflow of the 64-bit generation,
`len()`, which only reads, and `Instant::now()` apart from the insertion that
stores it. In `RouterRecovery`: how a content compresses (the marker sets, whether
it is crushed and whether its ratio is borderline are constants), the
net-mutation gate, the offload of a whole content (`ContentEngine` has it), equal
contents twice in a request, which are one message, and messages are looked up in
any order. An overlay write that a durable retry heals is a durable write. In
`StoreQueries`: how an original splits into items and how BM25 scores them; scores
are given. In `McpTools`: capacity and expiry appear as `Lose`. In
`ContentEngine`, what a compressor writes; in `CompressCall`, the inside of one
routed message, redaction and the reporting of hashes. In `ToolCallHooks`, JSON
shapes beyond those that take another path, a failure of `cat` other than a signal, a
stderr that is cut off, and a banner that is switched off, which is taken with one that does
not know. In `MatchBudget`, the interval of a repeating alarm.

Not modelled at all: the text compressors and codecs in Python and Rust (pure
functions over text, mostly scoring and floating point), SmartCrusher's analysis
and planning, tokenizers and relevance, marker text, the command line, the HTTP
transport and the PyO3 bindings. `PROJECT.json` gives the reason per part under
`components`; benchmarks, site, scripts, tests and CI are left aside.

## Plan

1. The keep-set plan of `planning.rs` and the column encodings of
   `compaction/encodings.rs` as operators, each against a reference definition or
   its round trip; the log-template codec (`log_template*.py`) likewise.
2. The jail of `furl_read` (`_open_jailed`, `_read_jailed_file`): a path that
   changes between the check and the open.
3. Abstract specifications of the stores: a map with expiry that
   `CompressionStore` and `InMemoryCcrStore` implement, so that `RouterRecovery`'s
   use of their contracts is a composition and not a convention.

Theorem next: that the crash recovery of the durable store refines a map with expiry.
