------------------------------ MODULE McpTools ------------------------------
(***************************************************************************)
(* The tools of the MCP server that change what is stored                  *)
(* (furl_ctx/ccr/mcp_server.py) over the store operations they call        *)
(* (furl_ctx/cache/compression_store.py).  Several server processes share  *)
(* one durable file; in a server, tool calls run on worker threads and     *)
(* take the store lock for one store operation at a time.  retrieve() is a *)
(* read and a write under that lock: the lock keeps the server's own       *)
(* workers out, not the other servers.  Every other store operation is one *)
(* step; capacity and expiry, which CompressionStore models, appear as     *)
(* Lose.                                                                   *)
(***************************************************************************)
EXTENDS FiniteSets, Sequences, SequencesExt

CONSTANTS
    Servers,    \* server processes
    Workers,    \* worker threads of all servers
    Hashes,     \* hashes of originals
    Tops,       \* those that furl_compress stores under their own name
    Files,      \* those that furl_read stores
    Asked,      \* those that furl_retrieve and furl_purge are asked for
    Nested,     \* per hash, the hashes of the markers its stored texts hold, in order
    MaxFaults,  \* bound on lost lock races, kills and evictions
    None        \* an absent value

VARIABLES
    home,       \* the server of each worker
    file,       \* hashes in the durable file
    overlay,    \* per server, hashes in the volatile fallback
    cache,      \* per server, furl_read's cache of one path: the hash of its content
    call,       \* per worker, the tool call in progress
    faults,     \* how many of the faults have happened
    since,      \* history: per worker, hashes stored since its last co-reference check
    excused,    \* history: hashes whose loss no cascade decided alone
    erased      \* history: per server, hashes a purge verified gone and nothing stored since

vars == <<home, file, overlay, cache, call, faults, since, excused, erased>>

\* The assumptions on the constants.
ToolsAssumption ==
    /\ IsFiniteSet(Hashes)
    /\ Nested \in [Hashes -> Seq(Hashes)]
    /\ Tops \subseteq Hashes
    /\ Files \subseteq Hashes
    /\ Asked \subseteq Hashes
    /\ MaxFaults \in Nat
    /\ None \notin Hashes

\* hash: the one the call names; agenda: the hashes still to store, check or verify;
\* visited, deleted: the sets of delete_cascade_detailed.
Call == [step : {"bump", "check", "collect", "erase", "verify", "nested", "top",
                 "alive", "forget", "keep"},
         hash : Hashes, agenda : Seq(Hashes),
         visited : SUBSET Hashes, deleted : SUBSET Hashes]

TypeOK ==
    /\ home \in [Workers -> Servers]
    /\ file \subseteq Hashes
    /\ overlay \in [Servers -> SUBSET Hashes]
    /\ cache \in [Servers -> Files \cup {None}]
    /\ call \in [Workers -> Call \cup {None}]
    /\ faults \in 0..MaxFaults
    /\ since \in [Workers -> SUBSET Hashes]
    /\ excused \subseteq Hashes
    /\ erased \in [Servers -> SUBSET Hashes]

-----------------------------------------------------------------------------

At(w, step) == call[w] # None /\ call[w].step = step

\* Mutant of LockFree: the read and the write of retrieve() are two lock sections.
LockIgnored(w) == w \in Workers

\* The store lock of w's server is free: nobody is between retrieve()'s read and write.
LockFree(w) == ~\E v \in Workers : home[v] = home[w] /\ At(v, "bump")

Live(s) == file \cup overlay[s]

Refs(h) == ToSet(Nested[h])

Markers == UNION {Refs(h) : h \in Hashes}

Start(step, h, agenda) ==
    [step |-> step, hash |-> h, agenda |-> agenda, visited |-> {}, deleted |-> {}]

Goto(w, step) == call' = [call EXCEPT ![w].step = step]

Return(w) == call' = [call EXCEPT ![w] = None]

Fault == faults < MaxFaults /\ faults' = faults + 1

\* A set_durable() by server s: the row lands, or a lost lock race leaves the entry in
\* the volatile fallback.
Write(s, h, lands) ==
    /\ IF lands
       THEN /\ file' = file \cup {h}
            /\ overlay' = [overlay EXCEPT ![s] = @ \ {h}]
            /\ UNCHANGED faults
       ELSE /\ overlay' = [overlay EXCEPT ![s] = @ \cup {h}]
            /\ Fault
            /\ UNCHANGED file

\* What a write of h makes of the histories: the walks that have looked for
\* co-references have not seen it, and markers of h that do not resolve when it lands
\* are not for a later cascade to break.
NoteWritten(h, lands) ==
    /\ since' = [w \in Workers |-> IF At(w, "collect") \/ At(w, "erase") THEN since[w] \cup {h} ELSE {}]
    /\ excused' = IF lands THEN (excused \ {h}) \cup (Refs(h) \ file) ELSE excused

\* What a store of h, by any server, makes of what purges verified.
NoteStored(h, lands) ==
    /\ NoteWritten(h, lands)
    /\ erased' = [s \in Servers |-> erased[s] \ {h}]

-----------------------------------------------------------------------------

\* furl_retrieve, in full or with a query that finds something: the entry is read and, with the lock
\* still held, written back with its access recorded.
RetrieveRead(w, h) ==
    /\ call[w] = None /\ LockFree(w)
    /\ h \in Live(home[w])
    /\ call' = [call EXCEPT ![w] = Start("bump", h, <<>>)]
    /\ UNCHANGED <<file, overlay, cache, faults, since, excused, erased>>

\* Another server may have erased the row in between: then the write-back restores it,
\* and what that server's purge verified holds no longer.
RetrieveBump(w, lands) ==
    /\ At(w, "bump")
    /\ Write(home[w], call[w].hash, lands)
    /\ NoteWritten(call[w].hash, lands)
    /\ erased' = [s \in Servers |->
           IF s = home[w] THEN erased[s] ELSE erased[s] \ {call[w].hash}]
    /\ Return(w)
    /\ UNCHANGED cache

-----------------------------------------------------------------------------

\* furl_purge of one hash: delete_cascade_detailed() is a walk over the markers, each of
\* its store operations a lock section of its own.  The markers of the entry are read
\* before it is deleted; an absent entry has none.
Descend(w, c, h) ==
    [c EXCEPT !.step = "erase",
              !.visited = @ \cup {h},
              !.agenda = <<h>> \o (IF h \in Live(home[w]) THEN Nested[h] ELSE <<>>) \o @]

\* The walk over, the read-back covers the named hash and every hash that was deleted.
Advance(c) ==
    IF c.agenda = <<>>
    THEN [c EXCEPT !.step = "verify", !.agenda = SetToSeq({c.hash} \cup c.deleted)]
    ELSE [c EXCEPT !.step = "check"]

StartPurge(w, h) ==
    /\ call[w] = None /\ LockFree(w)
    /\ call' = [call EXCEPT ![w] = Descend(w, Start("collect", h, <<>>), h)]
    /\ UNCHANGED <<file, overlay, cache, faults, since, excused, erased>>

\* An entry with this marker that the check before this erase could not count: stored
\* since, or back after the cascade deleted it.
Uncounted(w, h) ==
    \E p \in since[w] \cup (call[w].visited \cap file) : h \in Refs(p)

\* delete() in both tiers; a lost lock race leaves the row.
PurgeErase(w, reached) ==
    /\ At(w, "erase") /\ LockFree(w)
    /\ LET s == home[w]
           h == Head(call[w].agenda)
           gone == h \in overlay[s] \/ (reached /\ h \in file) IN
       /\ IF reached
          THEN file' = file \ {h} /\ UNCHANGED faults
          ELSE Fault /\ UNCHANGED file
       /\ overlay' = [overlay EXCEPT ![s] = @ \ {h}]
       /\ call' = [call EXCEPT ![w] = Advance(
              [call[w] EXCEPT !.agenda = Tail(@), !.deleted = IF gone THEN @ \cup {h} ELSE @])]
       /\ excused' = IF h = call[w].hash \/ Uncounted(w, h) THEN excused \cup ({h} \cap Markers) ELSE excused
    /\ since' = [since EXCEPT ![w] = {}]
    /\ UNCHANGED <<cache, erased>>

\* Mutant of CoReferenced: only the entries of the volatile fallback are looked at.
CoReferencedInFallback(w, h) ==
    \E p \in overlay[home[w]] \ (call[w].visited \cup {h}) : h \in Refs(p)

\* _is_co_referenced(): a live entry outside the cascade's own still holds the marker.
CoReferenced(w, h) ==
    \E p \in Live(home[w]) \ (call[w].visited \cup {h}) : h \in Refs(p)

\* A marker the cascade has met is passed over, a shared one is kept, and the walk
\* descends into the others.
PurgeCheck(w) ==
    /\ At(w, "check") /\ LockFree(w)
    /\ LET h == Head(call[w].agenda)
           rest == [call[w] EXCEPT !.agenda = Tail(@)] IN
       call' = [call EXCEPT ![w] =
           IF h \in call[w].visited \/ CoReferenced(w, h)
           THEN Advance(rest)
           ELSE [rest EXCEPT !.step = "collect", !.agenda = <<h>> \o @]]
    /\ UNCHANGED <<file, overlay, cache, faults, since, excused, erased>>

PurgeCollect(w) ==
    /\ At(w, "collect") /\ LockFree(w)
    /\ LET h == Head(call[w].agenda) IN
       call' = [call EXCEPT ![w] = Descend(w, [call[w] EXCEPT !.agenda = Tail(@)], h)]
    /\ UNCHANGED <<file, overlay, cache, faults, since, excused, erased>>

\* exists_any_tier(): what it finds fails the purge, what it misses is reported erased.
Verify(w) ==
    /\ At(w, "verify") /\ LockFree(w)
    /\ LET h == Head(call[w].agenda)
           s == home[w] IN
       erased' = IF h \in Live(s) THEN erased ELSE [erased EXCEPT ![s] = @ \cup {h}]
    /\ IF Len(call[w].agenda) = 1
       THEN Return(w)
       ELSE call' = [call EXCEPT ![w].agenda = Tail(@)]
    /\ UNCHANGED <<file, overlay, cache, faults, since, excused>>

\* furl_purge all=true: clear() and its count of what is still there are one lock
\* section; nothing left is reported as everything erased.
PurgeAll(w, reached) ==
    /\ call[w] = None /\ LockFree(w)
    /\ IF reached THEN file' = {} /\ UNCHANGED faults ELSE Fault /\ UNCHANGED file
    /\ overlay' = [overlay EXCEPT ![home[w]] = {}]
    /\ excused' = Markers
    /\ erased' = IF file' = {} THEN [erased EXCEPT ![home[w]] = Hashes] ELSE erased
    /\ UNCHANGED <<cache, call, since>>

-----------------------------------------------------------------------------

\* furl_compress: compress() stores the dropped rows, then the tool stores the original.
StartCompress(w, h) ==
    /\ call[w] = None
    /\ call' = [call EXCEPT ![w] = Start(IF Nested[h] = <<>> THEN "top" ELSE "nested", h, Nested[h])]
    /\ UNCHANGED <<file, overlay, cache, faults, since, excused, erased>>

\* Rows that do not reach the file veto the compression: nothing is stored for it.
StoreNested(w, lands) ==
    /\ At(w, "nested") /\ LockFree(w)
    /\ Write(home[w], Head(call[w].agenda), lands)
    /\ NoteStored(Head(call[w].agenda), lands)
    /\ IF lands
       THEN call' = [call EXCEPT ![w].agenda = Tail(@),
                                 ![w].step = IF Len(call[w].agenda) = 1 THEN "top" ELSE @]
       ELSE Return(w)
    /\ UNCHANGED cache

\* The original itself is stored last.  After a veto the hash is reported as volatile
\* only while the entry is there, and otherwise the original goes back uncompressed.
StoreTop(w, lands) ==
    /\ At(w, "top") /\ LockFree(w)
    /\ Write(home[w], call[w].hash, lands)
    /\ NoteStored(call[w].hash, lands)
    /\ Return(w)
    /\ UNCHANGED cache

-----------------------------------------------------------------------------

\* furl_read of the path, whose content may have changed since.
StartRead(w, h, fresh) ==
    /\ call[w] = None
    /\ LET step == IF ~fresh /\ cache[home[w]] = h THEN "alive" ELSE "keep" IN
       call' = [call EXCEPT ![w] = Start(step, h, <<>>)]
    /\ UNCHANGED <<file, overlay, cache, faults, since, excused, erased>>

\* The cached hash is answered while the store holds it.
ReadCached(w) ==
    /\ At(w, "alive") /\ LockFree(w)
    /\ IF call[w].hash \in Live(home[w]) THEN Return(w) ELSE Goto(w, "forget")
    /\ UNCHANGED <<file, overlay, cache, faults, since, excused, erased>>

\* The stale cache entry goes.  When another worker has just removed it, the del raises
\* and the tool call fails.
ReadForget(w) ==
    /\ At(w, "forget")
    /\ IF cache[home[w]] = None THEN Return(w) ELSE Goto(w, "keep")
    /\ cache' = [cache EXCEPT ![home[w]] = None]
    /\ UNCHANGED <<file, overlay, faults, since, excused, erased>>

\* The content is stored, and cached only if that write is durable.
ReadStore(w, lands) ==
    /\ At(w, "keep") /\ LockFree(w)
    /\ Write(home[w], call[w].hash, lands)
    /\ NoteStored(call[w].hash, lands)
    /\ cache' = IF lands THEN [cache EXCEPT ![home[w]] = call[w].hash] ELSE cache
    /\ Return(w)

-----------------------------------------------------------------------------

\* Eviction at the cap, or expiry.
Lose(h) ==
    /\ h \in file /\ Fault
    /\ file' = file \ {h}
    /\ excused' = excused \cup ({h} \cap Markers)
    /\ UNCHANGED <<overlay, cache, call, since, erased>>

\* A server dies with its volatile entries, its cache and its calls, and comes back.
Restart(s) ==
    /\ Fault
    /\ overlay' = [overlay EXCEPT ![s] = {}]
    /\ cache' = [cache EXCEPT ![s] = None]
    /\ call' = [w \in Workers |-> IF home[w] = s THEN None ELSE call[w]]
    /\ UNCHANGED <<file, since, excused, erased>>

Init ==
    /\ home \in [Workers -> Servers]
    /\ file = {}
    /\ overlay = [s \in Servers |-> {}]
    /\ cache = [s \in Servers |-> None]
    /\ call = [w \in Workers |-> None]
    /\ faults = 0
    /\ since = [w \in Workers |-> {}]
    /\ excused = {}
    /\ erased = [s \in Servers |-> {}]

Next ==
    /\ UNCHANGED home
    /\ \/ \E w \in Workers :
            \/ \E h \in Asked : RetrieveRead(w, h) \/ StartPurge(w, h)
            \/ \E h \in Tops : StartCompress(w, h)
            \/ \E h \in Files, fresh \in BOOLEAN : StartRead(w, h, fresh)
            \/ PurgeCheck(w) \/ PurgeCollect(w) \/ Verify(w)
            \/ ReadCached(w) \/ ReadForget(w)
            \/ \E lands \in BOOLEAN :
                \/ RetrieveBump(w, lands) \/ StoreNested(w, lands) \/ StoreTop(w, lands)
                \/ ReadStore(w, lands) \/ PurgeErase(w, lands) \/ PurgeAll(w, lands)
       \/ \E h \in Hashes : Lose(h)
       \/ \E s \in Servers : Restart(s)

Spec == Init /\ [][Next]_vars

-----------------------------------------------------------------------------

\* What a purge verified gone stays gone for its server until something stores it
\* again; the exception is a retrieve of another server that had read the entry before
\* the delete (mcp_server.py:2788).
ErasedStaysGone ==
    \A s \in Servers : erased[s] \cap Live(s) = {}

\* A durable original never holds a marker that a cascade has erased on its own
\* decision: the marker resolves, or it was named, cleared, evicted or expired, or the
\* entry that holds it was one the cascade could not count (compression_store.py:1657).
NestedResolves ==
    \A p \in file : \A h \in Refs(p) : h \in file \cup excused

=============================================================================
