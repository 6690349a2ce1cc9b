--------------------------- MODULE PostgresWorkers ---------------------------
(***************************************************************************)
(* The calls of the serverless gateway                                     *)
(* (deploy/remote/furl_remote/postgres.py): disposable instances keep each *)
(* tenant's store as a snapshot in a database row, locked from the restore *)
(* to the commit of the new snapshot.  A store is the set of calls whose   *)
(* writes it holds.                                                        *)
(***************************************************************************)
EXTENDS Naturals, FiniteSets

CONSTANTS
    Calls,      \* calls; each runs once, on an instance of its own
    Tenants,    \* tenant keys
    TenantOf,   \* the tenant of each call
    MaxTenants, \* rows of the table
    Ttl,        \* ttl_seconds
    MaxNow,     \* bound on the clock
    None        \* an absent value

VARIABLES
    dbNow,      \* the database's clock
    table,      \* per tenant, its row, or None
    state,      \* per call, how far it is
    begun,      \* per call, when its transaction began: what now() means inside it
    scratch,    \* per call, the store it restored
    returned    \* history: calls whose result was returned and whose row has not expired

postgresVars == <<dbNow, table, state, begun, scratch, returned>>

\* A tenant's row.
Row == [data : SUBSET Calls, expires : 0..(MaxNow + Ttl)]

\* The assumptions on the constants.
PostgresAssumption ==
    /\ TenantOf \in [Calls -> Tenants]
    /\ {MaxTenants, Ttl, MaxNow} \subseteq Nat
    /\ None \notin Row

States == {"new", "prepared", "running", "ended"}

TypeOK ==
    /\ dbNow \in 0..MaxNow
    /\ table \in [Tenants -> Row \cup {None}]
    /\ state \in [Calls -> States]
    /\ begun \in [Calls -> 0..MaxNow]
    /\ scratch \in [Calls -> SUBSET Calls]
    /\ returned \subseteq Calls

-----------------------------------------------------------------------------

\* Mutant of RowFree: the row is read without FOR UPDATE.
RowRead(k) == k \in Tenants

\* Nobody holds the row lock.
RowFree(k) == \A c \in Calls : state[c] = "running" => TenantOf[c] # k

Live(k, time) == table[k] # None /\ table[k].expires > time

\* Expired rows, without those that a call has locked.
Prunable(k) == table[k] # None /\ ~Live(k, dbNow) /\ RowFree(k)

End(c) == state' = [state EXCEPT ![c] = "ended"]

Of(k) == {c \in Calls : TenantOf[c] = k}

\* The transaction of the call itself.
Open(c) ==
    /\ state' = [state EXCEPT ![c] = "prepared"]
    /\ begun' = [begun EXCEPT ![c] = dbNow]

\* _prepare(): an existing row is enough; otherwise one allocation at a time prunes,
\* counts and inserts.
Prepare(c) ==
    /\ state[c] = "new"
    /\ LET k == TenantOf[c]
           left == [j \in Tenants |-> IF Prunable(j) THEN None ELSE table[j]] IN
       IF table[k] # None
       THEN Open(c) /\ UNCHANGED <<table, returned>>
       ELSE IF Cardinality({j \in Tenants : left[j] # None}) >= MaxTenants
       THEN End(c) /\ UNCHANGED <<table, begun, returned>>
       ELSE /\ table' = [left EXCEPT ![k] = [data |-> {}, expires |-> dbNow + Ttl]]
            /\ returned' = returned \ UNION {Of(j) : j \in {i \in Tenants : Prunable(i)}}
            /\ Open(c)
    /\ UNCHANGED <<dbNow, scratch>>

\* The row lock, then the restore; an expired row restores nothing, a row that has been
\* pruned rejects the call.
Begin(c) ==
    /\ state[c] = "prepared"
    /\ LET k == TenantOf[c] IN
       /\ RowFree(k)
       /\ IF table[k] = None
          THEN End(c) /\ UNCHANGED <<scratch, returned>>
          ELSE /\ state' = [state EXCEPT ![c] = "running"]
               /\ scratch' = [scratch EXCEPT ![c] = IF Live(k, begun[c]) THEN table[k].data ELSE {}]
               /\ returned' = IF Live(k, begun[c]) THEN returned ELSE returned \ Of(k)
    /\ UNCHANGED <<dbNow, table, begun>>

\* The worker has run on the scratch store, and its snapshot is committed; only then is
\* the result returned, unless the call has timed out or its instance has gone.  The
\* row's time runs from the start of the transaction.
Commit(c, answered) ==
    /\ state[c] = "running"
    /\ table' = [table EXCEPT ![TenantOf[c]] = [data |-> scratch[c] \cup {c}, expires |-> begun[c] + Ttl]]
    /\ returned' = IF answered THEN returned \cup {c} ELSE returned
    /\ End(c)
    /\ UNCHANGED <<dbNow, begun, scratch>>

\* A lost lock wait, a rejected result, a timeout, or the end of the instance: rollback.
Abort(c) ==
    /\ state[c] \in {"prepared", "running"}
    /\ End(c)
    /\ UNCHANGED <<dbNow, table, begun, scratch, returned>>

Tick ==
    /\ dbNow < MaxNow
    /\ dbNow' = dbNow + 1
    /\ UNCHANGED <<table, state, begun, scratch, returned>>

Init ==
    /\ dbNow = 0
    /\ table = [k \in Tenants |-> None]
    /\ state = [c \in Calls |-> "new"]
    /\ begun = [c \in Calls |-> 0]
    /\ scratch = [c \in Calls |-> {}]
    /\ returned = {}

Next ==
    \/ \E c \in Calls :
        \/ Prepare(c) \/ Begin(c) \/ Abort(c)
        \/ \E answered \in BOOLEAN : Commit(c, answered)
    \/ Tick

Spec == Init /\ [][Next]_postgresVars

-----------------------------------------------------------------------------

\* What a returned call wrote is in its tenant's row until the row expires: no other
\* call's snapshot overwrites it, and no allocation prunes the row under a running call
\* (postgres.py:145).
SnapshotsKept ==
    \A c \in returned : table[TenantOf[c]] # None /\ c \in table[TenantOf[c]].data

=============================================================================
