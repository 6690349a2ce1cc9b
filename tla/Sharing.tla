------------------------------- MODULE Sharing -------------------------------
(***************************************************************************)
(* What processes, threads and calls share: the durable file, the          *)
(* statistics, the gateways' workspaces and rows, the retrieval signals,   *)
(* the stores of namespaces, the result cache under the block walk and the *)
(* store under the tools' questions.  They share nothing with each other,  *)
(* so a behaviour exercises one of them and the variables of the others    *)
(* are idle.                                                               *)
(***************************************************************************)
EXTENDS Integers, Sequences

CONSTANTS
    \* SqliteBackend, and Procs of SharedStats
    RowKeys, Procs, MaxRows, PurgeEvery, Ttl, MaxTime, MaxCount, MaxDrift, MaxFaults,
    MaxLoad, \* bound on what the file, its fallbacks and its counter hold together
    \* SharedStats
    SessionWindow, LastStamp, MaxEvents, Names, MaxTally, MaxMishaps,
    \* TenantWorkers
    Tasks, Tenants, MaxWorkers, MaxTenants, MaxClock,
    \* PostgresWorkers
    Calls, TenantOf, RowTtl, MaxNow,
    \* RetrievalFeedback
    Threads, Shapes, Anonymous, WindowTime, MaxPer, MaxShapes, HintMin, SkipMin, LastTime,
    \* NamespaceStores; Homes: the processes the callers may run in
    Hosts, Callers, Ids, EnvOf, RootOf, Backends, MaxMade, Homes,
    \* ContentBlocks
    Convs, Texts, Small, Long, Errors, Pinned, Phrased, Borderline, Units, Excluded, Retrieval,
    BiasOf, Hints, Queries, MinWindow, Share, AssistantText, MaxTurns,
    \* StoreQueries
    Askers, Hashes, ScoreOf, ItemScore, MaxResults, LimitCap, Limits, LastTick, MaxChanges, MaxShown,
    None

VARIABLES
    part, \* the component that runs
    now, rows, counter, memory, tally, degraded, rowCount, putCount, pending, noted, foreign, faults,
    lines, keep, logged, lost, counters, baseline, session, counted, wiped, blurred, mishaps,
    clock, marker, locks, task,
    dbNow, table, state, begun, scratch, returned,
    clockNow, events, read, hints, recent,
    backend, home, registry, made, inMemory, files, bound, request, serving, kept,
    results, skips, turn, walked, shipped, moved,
    tick, entries, count, changes, ask, shown

Backend == INSTANCE SqliteBackend WITH Keys <- RowKeys
Stats == INSTANCE SharedStats WITH Window <- SessionWindow, MaxTime <- LastStamp,
         MaxCount <- MaxTally
Workers == INSTANCE TenantWorkers
Rows == INSTANCE PostgresWorkers WITH Ttl <- RowTtl
Feedback == INSTANCE RetrievalFeedback
Spaces == INSTANCE NamespaceStores WITH Procs <- Hosts
Blocks == INSTANCE ContentBlocks
Questions == INSTANCE StoreQueries WITH rows <- entries

\* The assumptions on the constants of every part.
ASSUME SharingAssumption ==
    /\ Backend!SqliteAssumption /\ Stats!StatsAssumption /\ Workers!WorkersAssumption
    /\ Rows!PostgresAssumption /\ Feedback!FeedbackAssumption
    /\ Spaces!NamespaceAssumption /\ Blocks!BlocksAssumption /\ Questions!QueriesAssumption

backendVars == <<rows, counter, memory, tally, degraded, rowCount, putCount, pending, noted, foreign, faults>>
statsVars == <<lines, keep, logged, lost, counters, baseline, session, counted, wiped, blurred, mishaps>>
workerVars == <<clock, marker, locks, task>>
rowVars == <<dbNow, table, state, begun, scratch, returned>>
feedbackVars == <<clockNow, events, read, hints, recent>>
storeVars == <<backend, home, registry, made, inMemory, files, bound, request, serving, kept>>
blockVars == <<results, skips, turn, walked, shipped, moved>>
queryVars == <<tick, entries, count, changes, ask, shown>>

vars == <<part, now, backendVars, statsVars, workerVars, rowVars, feedbackVars, storeVars, blockVars,
          queryVars>>

Parts == {"backend", "stats", "workers", "rows", "feedback", "namespaces", "blocks", "queries"}

\* The state of the parts that do not run.
NoBackend ==
    /\ rows = None /\ counter = None /\ memory = None /\ tally = None /\ degraded = None
    /\ rowCount = None /\ putCount = None /\ pending = None /\ noted = None /\ foreign = None
    /\ faults = None
NoStats ==
    /\ lines = None /\ keep = None /\ logged = None /\ lost = None /\ counters = None
    /\ baseline = None /\ session = None /\ counted = None /\ wiped = None /\ blurred = None
    /\ mishaps = None
NoWorkers == clock = None /\ marker = None /\ locks = None /\ task = None
NoRows ==
    /\ dbNow = None /\ table = None /\ state = None /\ begun = None /\ scratch = None
    /\ returned = None
NoFeedback == clockNow = None /\ events = None /\ read = None /\ hints = None /\ recent = None
NoStores ==
    /\ backend = None /\ home = None /\ registry = None /\ made = None /\ inMemory = None
    /\ files = None /\ bound = None /\ request = None /\ serving = None /\ kept = None
NoBlocks ==
    /\ results = None /\ skips = None /\ turn = None /\ walked = None /\ shipped = None
    /\ moved = None
NoQueries ==
    /\ tick = None /\ entries = None /\ count = None /\ changes = None /\ ask = None
    /\ shown = None

Init ==
    /\ part \in Parts
    /\ now = 0
    /\ IF part = "backend" THEN Backend!Init ELSE NoBackend
    /\ IF part = "stats" THEN Stats!Init ELSE NoStats
    /\ IF part = "workers" THEN Workers!Init ELSE NoWorkers
    /\ IF part = "rows" THEN Rows!Init ELSE NoRows
    /\ IF part = "feedback" THEN Feedback!Init ELSE NoFeedback
    /\ IF part = "namespaces" THEN Spaces!Init /\ home \in Homes ELSE NoStores
    /\ IF part = "blocks" THEN Blocks!Init ELSE NoBlocks
    /\ IF part = "queries" THEN Questions!Init ELSE NoQueries

\* A bound: a behaviour that fills the file, the fallbacks or the counter leaves the others
\* short.  Rows and counters are two tables, which only clear() touches together.
WithinLoad ==
    LET copies == {x \in Procs \X RowKeys : memory[x[1]][x[2]] # None} IN
    Backend!Cardinality(Backend!Stored(rows)) + Backend!Cardinality(copies) + counter <= MaxLoad

Next ==
    /\ UNCHANGED part
    /\ IF part \in {"backend", "stats"} THEN TRUE ELSE UNCHANGED now
    /\ IF part = "backend" THEN Backend!Next /\ WithinLoad' ELSE UNCHANGED backendVars
    /\ IF part = "stats" THEN Stats!Next ELSE UNCHANGED statsVars
    /\ IF part = "workers" THEN Workers!Next ELSE UNCHANGED workerVars
    /\ IF part = "rows" THEN Rows!Next ELSE UNCHANGED rowVars
    /\ IF part = "feedback" THEN Feedback!Next ELSE UNCHANGED feedbackVars
    /\ IF part = "namespaces" THEN Spaces!Next ELSE UNCHANGED storeVars
    /\ IF part = "blocks" THEN Blocks!Next ELSE UNCHANGED blockVars
    /\ IF part = "queries" THEN Questions!Next ELSE UNCHANGED queryVars

Spec == Init /\ [][Next]_vars

-----------------------------------------------------------------------------

\* Every variable of every part has its type.
TypeOK ==
    /\ part = "backend" => Backend!TypeOK
    /\ part = "stats" => Stats!TypeOK
    /\ part = "workers" => Workers!TypeOK
    /\ part = "rows" => Rows!TypeOK
    /\ part = "feedback" => Feedback!TypeOK
    /\ part = "namespaces" => Spaces!TypeOK
    /\ part = "blocks" => Blocks!TypeOK
    /\ part = "queries" => Questions!TypeOK

\* A process's row counter is exact while it is alone, and bounds the overrun of
\* the row cap by the inserts of others (SqliteBackend).
RowCounterHolds == part = "backend" => Backend!ExactWhenAlone /\ Backend!RowCapBound

\* The first-run note appears at most once (SqliteBackend).
NoteOnce == part = "backend" => Backend!NoteOnce

\* A durable put is readable from the file (SqliteBackend).
WriteIsRead == [][part = "backend" => \A p \in Procs : Backend!CommitIsRead(p)]_vars

\* An event inside the window is in the shared file (SharedStats).
EventsKept == part = "stats" => Stats!EventsKept

\* this_session counts from the first look or the last wipe (SharedStats).
SessionExact == [][part = "stats" => Stats!LookIsExact]_vars

\* A running call is alone in its workspace (TenantWorkers).
WorkspaceHeld == part = "workers" => Workers!WorkspaceHeld

\* A returned call's writes stay in its tenant's row (PostgresWorkers).
SnapshotsKept == part = "rows" => Rows!SnapshotsKept

\* An answer of the aggregator is an honest count (RetrievalFeedback).
CountHonest == [][part = "feedback" => \A t \in Threads : Feedback!HintsAreHonest(t)]_vars

\* No namespace reads another's entries, and each finds its own (NamespaceStores).
NamespacesHold == part = "namespaces" => Spaces!NamespacesHold

\* What a tool says of the store was so during the call, and no search or listing passes
\* over an entry that was there all along (StoreQueries).
AnswersTrue == part = "queries" => Questions!AnswersTrue

\* The block walk ships a unit's own form, the same turn after turn (ContentBlocks).
BlocksHold ==
    /\ [](part = "blocks" => Blocks!OwnForm /\ Blocks!NeverTouched)
    /\ [][part = "blocks" => Blocks!StableStep]_vars

=============================================================================
