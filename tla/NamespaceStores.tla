--------------------------- MODULE NamespaceStores ---------------------------
(***************************************************************************)
(* Which CCR store a call reads and writes (the resolution at the end of   *)
(* furl_ctx/cache/compression_store.py, and compress(), which binds it).   *)
(* A process keeps one store per namespace and one for calls without any;  *)
(* each is built by the first call that needs it.  compress() binds the    *)
(* store of its namespace to its context; middleware may have bound one.   *)
(***************************************************************************)
EXTENDS Naturals, FiniteSets, Sequences

CONSTANTS
    Procs,    \* processes over one workspace
    Callers,  \* threads that call the library
    Ids,      \* what session_id and agent_id name together
    EnvOf,    \* FURL_CCR_NAMESPACE and FURL_CCR_PROJECT_DIR, [Procs -> [ns, dir]]
    RootOf,   \* the canonical directory a spelling of it resolves to
    Backends, \* values of FURL_CCR_BACKEND: memory, sqlite, plugin
    MaxMade,  \* bound on the stores built
    None      \* an absent value

VARIABLES
    backend,  \* FURL_CCR_BACKEND
    home,     \* the process of each caller
    registry, \* per process and key, the store in service; that of Global is the singleton
    made,     \* the key each store was built for
    inMemory, \* per store, whose entries its in-memory backend holds
    files,    \* per key, whose entries its sqlite file holds
    bound,    \* the store in each caller's context, _request_ccr_store
    request,  \* the call a caller is in
    serving,  \* is a caller serving a request of the middleware's tenant
    kept      \* history: process and key of the entries stored and not cleared since

storeVars == <<backend, home, registry, made, inMemory, files, bound, request, serving, kept>>

\* No namespace at all.
Global == [ns |-> None, id |-> None, dir |-> None]

\* The requests of the middleware's tenant.
Tenant == [ns |-> "middleware", id |-> None, dir |-> None]

\* _namespace_key: the explicit identity, else the project, else none.
NamespaceKey(p, id) ==
    LET env == EnvOf[p] IN
    IF env.ns = None /\ id = None
    THEN [Global EXCEPT !.dir = IF env.dir = None THEN None ELSE RootOf[env.dir]]
    ELSE [ns |-> env.ns, id |-> id, dir |-> None]

StoreKeys == {NamespaceKey(p, id) : p \in Procs, id \in Ids \cup {None}} \cup {Global}

Owners == StoreKeys \cup {Tenant}

\* Store 0 is the middleware's own.
StoreIds == 0..MaxMade

Call == [at : {"build", "fetch", "work"}, exports : BOOLEAN, key : StoreKeys, owner : Owners,
         outer : StoreIds \cup {None}, got : StoreIds \cup {None}, late : BOOLEAN]

\* The assumptions on the constants.
NamespaceAssumption ==
    /\ \A p \in Procs : EnvOf[p].dir # None => EnvOf[p].dir \in DOMAIN RootOf
    /\ Backends \subseteq {"memory", "sqlite", "plugin"}
    /\ MaxMade \in Nat
    /\ None \notin Nat \cup Call

TypeOK ==
    /\ backend \in Backends
    /\ home \in [Callers -> Procs]
    /\ registry \in [Procs -> [StoreKeys -> StoreIds \cup {None}]]
    /\ made \in Seq(StoreKeys)
    /\ inMemory \in [StoreIds -> SUBSET Owners]
    /\ files \in [StoreKeys -> SUBSET Owners]
    /\ bound \in [Callers -> StoreIds \cup {None}]
    /\ request \in [Callers -> Call \cup {None}]
    /\ serving \subseteq Callers
    /\ kept \subseteq Procs \X StoreKeys

-----------------------------------------------------------------------------

\* Is the store's backend a file?  The middleware's store is not.
Filed(i) == backend = "sqlite" /\ i # 0

\* Whose entries a store holds.
Holds(i) == IF Filed(i) THEN files[made[i]] ELSE inMemory[i]

\* One place of the store gains an entry of the owner's.
Write(i, owner, filed) ==
    /\ files' = IF filed THEN [files EXCEPT ![made[i]] = @ \cup {owner}] ELSE files
    /\ inMemory' = IF filed THEN inMemory ELSE [inMemory EXCEPT ![i] = @ \cup {owner}]

\* Middleware serves a request of its tenant.
SetRequestStore(t) ==
    /\ request[t] = None /\ t \notin serving
    /\ serving' = serving \cup {t}
    /\ bound' = [bound EXCEPT ![t] = 0]
    /\ UNCHANGED <<backend, home, registry, made, inMemory, files, request, kept>>

ClearRequestStore(t) ==
    /\ request[t] = None /\ t \in serving
    /\ serving' = serving \ {t}
    /\ bound' = [bound EXCEPT ![t] = None]
    /\ UNCHANGED <<backend, home, registry, made, inMemory, files, request, kept>>

\* Whose entries the call's are: its namespace's, else those of the tenant served.
OwnerOf(t, key) == IF key = Global /\ t \in serving THEN Tenant ELSE key

\* compress() binds the store of its namespace; an export works on it unbound.
Serve(t, call, i) ==
    /\ bound' = IF call.exports THEN bound ELSE [bound EXCEPT ![t] = i]
    /\ request' = [request EXCEPT ![t] =
           [call EXCEPT !.at = "work", !.got = IF call.exports THEN i ELSE None]]

\* A call begins, and looks for its store without the lock.
Begin(t, id, exports) ==
    LET key == NamespaceKey(home[t], id)
        found == registry[home[t]][key]
        call == [at |-> "work", exports |-> exports, key |-> key, owner |-> OwnerOf(t, key),
                 outer |-> bound[t], got |-> None, late |-> FALSE]
    IN  /\ request[t] = None
        /\ IF key = Global /\ bound[t] # None
           THEN request' = [request EXCEPT ![t] = call] /\ UNCHANGED bound
           ELSE IF found = None
           THEN request' = [request EXCEPT ![t] = [call EXCEPT !.at = "build"]] /\ UNCHANGED bound
           ELSE IF key = Global
           THEN request' = [request EXCEPT ![t] = [call EXCEPT !.at = "fetch"]] /\ UNCHANGED bound
           ELSE Serve(t, call, found)
        /\ UNCHANGED <<backend, home, registry, made, inMemory, files, serving, kept>>

\* Mutant of Registered: the look under the lock is left out.
RegisteredBlind(p, key) == None

\* The second look, under the lock.
Registered(p, key) == registry[p][key]

\* The store is built by one caller.
Build(t) ==
    LET p == home[t]
        key == request[t].key
        found == Registered(p, key)
        i == IF found = None THEN Len(made) + 1 ELSE found
    IN  /\ request[t] # None /\ request[t].at = "build"
        /\ i \in StoreIds
        /\ made' = IF found = None THEN Append(made, key) ELSE made
        /\ registry' = [registry EXCEPT ![p][key] = i]
        /\ IF key = Global
           THEN request' = [request EXCEPT ![t] = [request[t] EXCEPT !.at = "fetch"]] /\ UNCHANGED bound
           ELSE Serve(t, request[t], i)
        /\ UNCHANGED <<backend, home, inMemory, files, serving, kept>>

\* get_compression_store reads the singleton again to return it: a reset in
\* between makes that nothing.
Fetch(t) ==
    /\ request[t] # None /\ request[t].at = "fetch"
    /\ request' = [request EXCEPT ![t] =
           [request[t] EXCEPT !.at = "work", !.got = registry[home[t]][Global]]]
    /\ UNCHANGED <<backend, home, registry, made, inMemory, files, bound, serving, kept>>

\* Mutant of Restored: the binding is cleared, not reset.
RestoredToNone(t) == None

\* The binding a call leaves behind, whether it succeeds or not.
Restored(t) == request[t].outer

Leave(t) ==
    /\ bound' = [bound EXCEPT ![t] = Restored(t)]
    /\ request' = [request EXCEPT ![t] = None]

\* The store the call's transforms see, in its own thread or in a worker that
\* runs in a copy of its context.
Current(t) == IF request[t].got # None THEN request[t].got ELSE bound[t]

Working(t) == request[t] # None /\ request[t].at = "work" /\ Current(t) # None

\* The call stores an entry.  One that outlived a reset holds a closed store,
\* which has fallen back to memory in the thread that closed it.
Store(t) ==
    LET i == Current(t) IN
    /\ Working(t) /\ ~request[t].exports
    /\ \E filed \in IF request[t].late THEN {FALSE, Filed(i)} ELSE {Filed(i)} :
          Write(i, request[t].owner, filed)
    /\ kept' = IF request[t].late \/ request[t].owner = Tenant THEN kept
               ELSE kept \cup {<<home[t], request[t].key>>}
    /\ Leave(t)
    /\ UNCHANGED <<backend, home, registry, made, serving>>

\* ccr_export: the entries the store holds are copied into the caller's file.
Export(t) ==
    /\ Working(t) /\ request[t].exports
    /\ Leave(t)
    /\ UNCHANGED <<backend, home, registry, made, inMemory, files, serving, kept>>

\* There is nothing to store, no store, or the plugin's backend, which only the
\* singleton uses, does not come up.
Fail(t) ==
    /\ request[t] # None
    /\ \/ request[t].at = "work"
       \/ request[t].at = "build" /\ request[t].key = Global /\ backend = "plugin"
    /\ Leave(t)
    /\ UNCHANGED <<backend, home, registry, made, inMemory, files, serving, kept>>

\* reset_compression_store clears and drops the singleton, then the stores of
\* the namespaces: two sections, each under its lock.
Reset(p, keys) ==
    LET gone == {registry[p][k] : k \in {x \in keys : registry[p][x] # None}} IN
    /\ gone # {}
    /\ registry' = [registry EXCEPT ![p] =
           [k \in StoreKeys |-> IF k \in keys THEN None ELSE registry[p][k]]]
    /\ inMemory' = [i \in StoreIds |-> IF i \in gone THEN {} ELSE inMemory[i]]
    /\ files' = [k \in StoreKeys |->
           IF backend = "sqlite" /\ \E i \in gone : made[i] = k THEN {} ELSE files[k]]
    /\ kept' = {e \in kept : ~(e[2] \in keys /\ (e[1] = p \/ backend = "sqlite"))}
    /\ request' = [t \in Callers |-> IF request[t] # None /\ home[t] = p
           THEN [request[t] EXCEPT !.late = TRUE] ELSE request[t]]
    /\ UNCHANGED <<backend, home, made, bound, serving>>

-----------------------------------------------------------------------------

Init ==
    /\ backend \in Backends
    /\ home \in [Callers -> Procs]
    /\ registry = [p \in Procs |-> [k \in StoreKeys |-> None]]
    /\ made = <<>>
    /\ inMemory = [i \in StoreIds |-> {}]
    /\ files = [k \in StoreKeys |-> {}]
    /\ bound = [t \in Callers |-> None]
    /\ request = [t \in Callers |-> None]
    /\ serving = {}
    /\ kept = {}

Next ==
    \/ \E t \in Callers : SetRequestStore(t) \/ ClearRequestStore(t)
    \/ \E t \in Callers, id \in Ids \cup {None}, exports \in BOOLEAN : Begin(t, id, exports)
    \/ \E t \in Callers : Build(t) \/ Fetch(t) \/ Store(t) \/ Export(t) \/ Fail(t)
    \/ \E p \in Procs : Reset(p, {Global}) \/ Reset(p, StoreKeys \ {Global})

Spec == Init /\ [][Next]_storeVars

-----------------------------------------------------------------------------

\* No tenant reads another's: a store and a file hold entries of one owner, and
\* what a call works on holds those of its own, whatever calls, nested bindings,
\* failures and resets go by.
TenantsIsolated ==
    /\ inMemory[0] \subseteq {Tenant}
    /\ \A i \in DOMAIN made : inMemory[i] \subseteq {made[i]}
    /\ \A k \in StoreKeys : files[k] \subseteq {k}
    /\ \A t \in Callers : Working(t) => Holds(Current(t)) \subseteq {request[t].owner}

\* What a call stored is in the store that later calls of its namespace are given,
\* two first users of it included, and, on files, those of every process.
StoresFind ==
    \A e \in kept : \A p \in IF backend = "sqlite" THEN Procs ELSE {e[1]} :
        LET i == registry[p][e[2]] IN
        /\ p = e[1] => i # None \/ backend = "sqlite"
        /\ i # None => e[2] \in Holds(i)

\* Both.
NamespacesHold == TenantsIsolated /\ StoresFind

=============================================================================
