--------------------------- MODULE SqliteBackend ---------------------------
(***************************************************************************)
(* The durable backend (furl_ctx/cache/backends/sqlite.py) as several      *)
(* processes use it over one file.  In a process the store lock serialises *)
(* the callers, so an actor is a process.  Python's sqlite3 opens a        *)
(* transaction at the first statement that writes: the existence probe of  *)
(* set() runs before it, and everything from the upsert to the commit is   *)
(* one step under SQLite's writer lock.  A lock race that outlasts the     *)
(* retries fails open for one operation; any other error degrades the      *)
(* process to its in-memory fallback for good.                             *)
(***************************************************************************)
EXTENDS Integers, FiniteSets

CONSTANTS
    Keys,       \* hash keys
    Procs,      \* processes that share the file
    MaxRows,    \* max_rows
    PurgeEvery, \* purge_every_n_puts
    Ttl,        \* the ttl of every entry
    MaxTime,    \* bound on the clock
    MaxCount,   \* bound on a counter
    MaxDrift,   \* bound on how far below zero deletes of others' rows take _row_count
    MaxFaults,  \* bound on the retries, lock races lost for good, errors and restarts
    None        \* an absent value

VARIABLES
    now,        \* the clock
    rows,       \* ccr_entries: created_at per key
    counter,    \* ccr_counters: the value of hook_invocations_seen
    memory,     \* per process, the entries of the in-memory fallback
    tally,      \* per process, the counter of the in-memory fallback
    degraded,   \* per process, _degraded
    rowCount,   \* per process, _row_count
    putCount,   \* per process, _put_count modulo purge_every_n_puts
    pending,    \* per process, the set() between its probe and its transaction
    noted,      \* history: first-run notes written since the counters were last cleared
    foreign,    \* history: per process, whether another one changed the set of rows
                \* since it last counted them
    faults      \* how many of the faults have happened

vars == <<now, rows, counter, memory, tally, degraded, rowCount, putCount,
          pending, noted, foreign, faults>>

perProcess == <<memory, tally, degraded, rowCount, putCount, pending>>

Times == 0..MaxTime
Entries == [Keys -> Times \cup {None}]
Pending == [key : Keys, created : Times, existed : BOOLEAN]

\* The assumptions on the constants.
SqliteAssumption ==
    /\ IsFiniteSet(Keys) /\ IsFiniteSet(Procs) /\ Procs # {}
    /\ MaxRows \in Nat \ {0}
    /\ PurgeEvery \in Nat \ {0}
    /\ Ttl \in Nat
    /\ MaxTime \in Nat
    /\ MaxCount \in Nat
    /\ MaxDrift \in Nat
    /\ MaxFaults \in Nat
    /\ None \notin Int \cup Pending

TypeOK ==
    /\ now \in Times
    /\ rows \in Entries
    /\ counter \in Nat
    /\ memory \in [Procs -> Entries]
    /\ tally \in [Procs -> Nat]
    /\ degraded \in [Procs -> BOOLEAN]
    /\ rowCount \in [Procs -> Int]
    /\ putCount \in [Procs -> 0..(PurgeEvery - 1)]
    /\ pending \in [Procs -> Pending \cup {None}]
    /\ noted \in Nat
    /\ foreign \in [Procs -> BOOLEAN]
    /\ faults \in 0..MaxFaults

-----------------------------------------------------------------------------

Empty == [k \in Keys |-> None]

MinOf(a, b) == IF a < b THEN a ELSE b

MaxOf(a, b) == IF a < b THEN b ELSE a

Stored(table) == {k \in Keys : table[k] # None}

Without(table, gone) == [k \in Keys |-> IF k \in gone THEN None ELSE table[k]]

Expired(table) == {k \in Stored(table) : table[k] + Ttl < now}

\* Mutant of OldestSets: the newest rows.
NewestSets(table, n) ==
    {gone \in SUBSET Stored(table) :
        /\ Cardinality(gone) = MinOf(MaxOf(n, 0), Cardinality(Stored(table)))
        /\ \A k \in gone, j \in Stored(table) \ gone : table[k] >= table[j]}

\* What a DELETE of the n oldest rows may take: ties are broken by the keys' bytes,
\* which the model does not fix.
OldestSets(table, n) ==
    {gone \in SUBSET Stored(table) :
        /\ Cardinality(gone) = MinOf(MaxOf(n, 0), Cardinality(Stored(table)))
        /\ \A k \in gone, j \in Stored(table) \ gone : table[k] =< table[j]}

Idle(p) == pending[p] = None

Fault == faults < MaxFaults /\ faults' = faults + 1

\* Every other process learns nothing of a change in the set of rows.
Unseen(p, new, counted) ==
    foreign' = [q \in Procs |->
        IF q = p THEN foreign[q] /\ ~counted
        ELSE foreign[q] \/ Stored(new) # Stored(rows)]

-----------------------------------------------------------------------------

\* set() of a degraded process keeps the entry in memory only.  The store reads an
\* entry's created_at before it takes its lock: it may be any time up to now.
SetDegraded(p, k, created) ==
    /\ Idle(p) /\ degraded[p]
    /\ memory' = [memory EXCEPT ![p][k] = created]
    /\ UNCHANGED <<now, rows, counter, tally, degraded, rowCount, putCount, pending, noted, foreign, faults>>

\* The existence probe, in no transaction; a retry after a lock race probes again.
Probe(p, k, created) ==
    /\ ~degraded[p]
    /\ \/ Idle(p) /\ UNCHANGED faults
       \/ ~Idle(p) /\ pending[p].key = k /\ pending[p].created = created /\ Fault
    /\ pending' = [pending EXCEPT ![p] =
           [key |-> k, created |-> created, existed |-> rows[k] # None]]
    /\ UNCHANGED <<now, rows, counter, memory, tally, degraded, rowCount, putCount, noted, foreign>>

PurgeNow(p) == putCount[p] + 1 = PurgeEvery

Put(p) == [rows EXCEPT ![pending[p].key] = pending[p].created]

\* Mutant of PutAndPurge: every put purges, but only the cadence recounts.
PurgeAlways(p) == Without(Put(p), Expired(Put(p)))

PutAndPurge(p) == IF PurgeNow(p) THEN Without(Put(p), Expired(Put(p))) ELSE Put(p)

\* _row_count kept up to date by what the probe saw; alone, a mutant of CountedRows: the
\* cadence purges but does not recount.
CountedByProbe(p) == IF pending[p].existed THEN rowCount[p] ELSE rowCount[p] + 1

\* _row_count before the cap: counted on the purge cadence.
CountedRows(p) ==
    IF PurgeNow(p) THEN Cardinality(Stored(PutAndPurge(p))) ELSE CountedByProbe(p)

\* The transaction of set(): upsert, purge and recount on the cadence, evict the
\* oldest rows over the cap; then the fallback's copy of the key goes.
Commit(p) ==
    /\ ~Idle(p)
    /\ \E gone \in OldestSets(PutAndPurge(p), CountedRows(p) - MaxRows) :
        /\ rows' = Without(PutAndPurge(p), gone)
        /\ rowCount' = [rowCount EXCEPT ![p] = CountedRows(p) - Cardinality(gone)]
    /\ putCount' = [putCount EXCEPT ![p] = IF PurgeNow(p) THEN 0 ELSE @ + 1]
    /\ memory' = [memory EXCEPT ![p][pending[p].key] = None]
    /\ pending' = [pending EXCEPT ![p] = None]
    /\ Unseen(p, rows', PurgeNow(p))
    /\ UNCHANGED <<now, counter, tally, degraded, noted, faults>>

\* Mutant of SetFailsOpen: the copy is stamped with the end of its life, not its start.
SetFailsLater(p, degrade) ==
    /\ ~Idle(p) /\ Fault
    /\ memory' = [memory EXCEPT ![p][pending[p].key] = pending[p].created + Ttl + 1]
    /\ degraded' = [degraded EXCEPT ![p] = degrade]
    /\ pending' = [pending EXCEPT ![p] = None]
    /\ UNCHANGED <<now, rows, counter, tally, rowCount, putCount, noted, foreign>>

\* A set() that fails open, degrading the process unless it lost a lock race.
SetFailsOpen(p, degrade) ==
    /\ ~Idle(p) /\ Fault
    /\ memory' = [memory EXCEPT ![p][pending[p].key] = pending[p].created]
    /\ degraded' = [degraded EXCEPT ![p] = degrade]
    /\ pending' = [pending EXCEPT ![p] = None]
    /\ UNCHANGED <<now, rows, counter, tally, rowCount, putCount, noted, foreign>>

\* delete(), purge_expired() and clear() take a set of rows out of the file, with
\* the counter's new value, and then the fallback's copies; on a degraded process
\* or under contention only the latter.
Remove(p, fromFile, fromMemory, count, reached) ==
    /\ Idle(p)
    /\ reached => ~degraded[p]
    /\ IF reached \/ degraded[p] THEN UNCHANGED faults ELSE Fault
    /\ rows' = IF reached THEN Without(rows, fromFile) ELSE rows
    /\ count >= -MaxDrift
    /\ rowCount' = [rowCount EXCEPT ![p] = IF reached THEN count ELSE @]
    /\ memory' = [memory EXCEPT ![p] = Without(@, fromMemory)]
    /\ Unseen(p, rows', FALSE)
    /\ UNCHANGED <<now, degraded, putCount, pending>>

Delete(p, k, reached) ==
    /\ Remove(p, {k}, {k}, IF rows[k] # None THEN rowCount[p] - 1 ELSE rowCount[p], reached)
    /\ UNCHANGED <<counter, tally, noted>>

PurgeExpired(p, reached) ==
    /\ Remove(p, Expired(rows), Expired(memory[p]),
              rowCount[p] - Cardinality(Expired(rows)), reached)
    /\ UNCHANGED <<counter, tally, noted>>

\* clear() drops the counters too, and resets _row_count after the commit.
Clear(p, reached) ==
    /\ Remove(p, Keys, Keys, 0, reached)
    /\ counter' = IF reached THEN 0 ELSE counter
    /\ noted' = IF reached THEN 0 ELSE noted
    /\ tally' = [tally EXCEPT ![p] = 0]

\* increment_counter() of a hook's invocation, and emit_first_run_note_if_first():
\* the durable value 1, read back in the transaction, writes the note.
Increment(p) ==
    /\ Idle(p) /\ ~degraded[p]
    /\ counter < MaxCount
    /\ counter' = counter + 1
    /\ noted' = IF counter' = 1 THEN noted + 1 ELSE noted
    /\ UNCHANGED <<now, rows, foreign, faults, perProcess>>

\* Mutant of IncrementFailsOpen: the fallback's tally is returned as the count.
IncrementReturnsTally(p) ==
    /\ Idle(p)
    /\ IF degraded[p] THEN UNCHANGED faults ELSE Fault
    /\ tally[p] < MaxCount
    /\ tally' = [tally EXCEPT ![p] = @ + 1]
    /\ noted' = IF tally'[p] = 1 THEN noted + 1 ELSE noted
    /\ UNCHANGED <<now, rows, counter, memory, degraded, rowCount, putCount, pending, foreign>>

\* Degraded, or lost to a lock race: only the fallback counts, and None is returned.
IncrementFailsOpen(p) ==
    /\ Idle(p)
    /\ IF degraded[p] THEN UNCHANGED faults ELSE Fault
    /\ tally[p] < MaxCount
    /\ tally' = [tally EXCEPT ![p] = @ + 1]
    /\ UNCHANGED <<now, rows, counter, memory, degraded, rowCount, putCount, pending, noted, foreign>>

\* Any other error in a read.
Degrade(p) ==
    /\ Idle(p) /\ Fault
    /\ degraded' = [degraded EXCEPT ![p] = TRUE]
    /\ UNCHANGED <<now, rows, counter, memory, tally, rowCount, putCount, pending, noted, foreign>>

\* The process dies and starts over: the schema, the startup purge and the count
\* are one transaction; when it fails, the process starts degraded.
Restart(p, opened) ==
    /\ Fault
    /\ rows' = IF opened THEN Without(rows, Expired(rows)) ELSE rows
    /\ rowCount' = [rowCount EXCEPT ![p] = IF opened THEN Cardinality(Stored(rows')) ELSE 0]
    /\ degraded' = [degraded EXCEPT ![p] = ~opened]
    /\ memory' = [memory EXCEPT ![p] = Empty]
    /\ tally' = [tally EXCEPT ![p] = 0]
    /\ putCount' = [putCount EXCEPT ![p] = 0]
    /\ pending' = [pending EXCEPT ![p] = None]
    /\ Unseen(p, rows', opened)
    /\ UNCHANGED <<now, counter, noted>>

Tick ==
    /\ now < MaxTime
    /\ now' = now + 1
    /\ UNCHANGED <<rows, counter, perProcess, noted, foreign, faults>>

-----------------------------------------------------------------------------

Init ==
    /\ now = 0
    /\ rows = Empty
    /\ counter = 0
    /\ memory = [p \in Procs |-> Empty]
    /\ tally = [p \in Procs |-> 0]
    /\ degraded = [p \in Procs |-> FALSE]
    /\ rowCount = [p \in Procs |-> 0]
    /\ putCount = [p \in Procs |-> 0]
    /\ pending = [p \in Procs |-> None]
    /\ noted = 0
    /\ foreign = [p \in Procs |-> FALSE]
    /\ faults = 0

Next ==
    \/ \E p \in Procs :
        \/ \E k \in Keys, created \in 0..now : SetDegraded(p, k, created) \/ Probe(p, k, created)
        \/ Commit(p)
        \/ \E degrade \in BOOLEAN : SetFailsOpen(p, degrade)
        \/ \E reached \in BOOLEAN :
            \/ \E k \in Keys : Delete(p, k, reached)
            \/ PurgeExpired(p, reached)
            \/ Clear(p, reached)
        \/ Increment(p)
        \/ IncrementFailsOpen(p)
        \/ Degrade(p)
        \/ \E opened \in BOOLEAN : Restart(p, opened)
    \/ Tick

Spec == Init /\ [][Next]_vars

-----------------------------------------------------------------------------

\* A process's counter equals the number of rows as long as nobody else changed the
\* set of rows since it last counted them (sqlite.py:653, "the maintained counter
\* stays exact within this process").
ExactWhenAlone ==
    \A p \in Procs : ~foreign[p] /\ ~degraded[p] => rowCount[p] = Cardinality(Stored(rows))

\* However the processes' counters drift, the file never holds more rows than the cap
\* and what each other process can put between two of its recounts
\* (sqlite.py:672).
RowCapBound ==
    Cardinality(Stored(rows)) =< MaxRows + (Cardinality(Procs) - 1) * (PurgeEvery - 1)

\* Any number of hook processes, some degraded and some losing lock races, write the
\* first-run note at most once for a lifetime of the counters (sqlite.py:704).
NoteOnce == noted =< 1

\* A durable write leaves no older copy of its key in the fallback, and its row in
\* the file, unless the row is expired, or a cap's worth of other rows are no
\* older, or another process has removed rows unseen: then the put evicts the row it
\* has just written, although it reports it durable (sqlite.py:317, sqlite.py:675).
CommitIsRead(p) ==
    Commit(p) =>
        LET k == pending[p].key IN
        /\ memory'[p][k] = None
        /\ \/ rows'[k] # None
           \/ foreign[p]
           \/ pending[p].created + Ttl < now
           \/ Cardinality({j \in Stored(rows) \ {k} : rows[j] >= pending[p].created}) >= MaxRows

WriteIsRead == [][\A p \in Procs : CommitIsRead(p)]_vars

=============================================================================
