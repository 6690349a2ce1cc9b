---------------------------- MODULE TenantWorkers ----------------------------
(***************************************************************************)
(* The calls of the remote gateway over private workspaces                 *)
(* (deploy/remote/furl_remote/workers.py).  One event loop runs them, so   *)
(* what lies between two awaits is one step; a volume lock admits one      *)
(* gateway at a time.                                                      *)
(***************************************************************************)
EXTENDS Naturals, FiniteSets

CONSTANTS
    Tasks,      \* concurrent calls
    Tenants,    \* tenant keys
    MaxWorkers, \* slots for calls
    MaxTenants, \* workspaces on the volume
    Ttl,        \* ttl_seconds
    MaxClock,   \* bound on the clock
    None        \* an absent value

VARIABLES
    clock,      \* the wall clock
    marker,     \* per tenant, when its workspace was last used, or None
    locks,      \* per tenant, its lock object and the references to it, or None
    task        \* per task, the call it runs: its tenant and its lock object

workerVars == <<clock, marker, locks, task>>

LockIds == 1..Cardinality(Tasks)

Locks == [id : LockIds, refs : LockIds]

Runs == [runs : BOOLEAN, key : Tenants, lock : LockIds]

\* The assumptions on the constants.
WorkersAssumption ==
    /\ {MaxWorkers, MaxTenants, Ttl, MaxClock} \subseteq Nat
    /\ IsFiniteSet(Tasks)
    /\ None \notin Nat \cup Locks \cup Runs

TypeOK ==
    /\ clock \in 0..MaxClock
    /\ marker \in [Tenants -> 0..MaxClock \cup {None}]
    /\ locks \in [Tenants -> Locks \cup {None}]
    /\ task \in [Tasks -> Runs \cup {None}]

-----------------------------------------------------------------------------

Busy == {t \in Tasks : task[t] # None}

Running == {t \in Busy : task[t].runs}

Volume(m) == {k \in Tenants : m[k] # None}

\* A new lock object: none that a call still refers to.
NewLock == CHOOSE i \in LockIds : \A t \in Busy : task[t].lock # i

\* prune_idle(): workspaces past their time, unless a call refers to the tenant.
Idle(k) == locks[k] = None /\ marker[k] # None /\ clock > marker[k] + Ttl

Pruned == [k \in Tenants |-> IF Idle(k) THEN None ELSE marker[k]]

\* Mutant of Released: the entry goes with the first call that leaves.
ReleasedAtOnce(k) == [locks EXCEPT ![k] = None]

\* The reference a call gives back; the last one takes the entry with it.
Released(k) ==
    [locks EXCEPT ![k] = IF locks[k].refs = 1 THEN None
                         ELSE [id |-> locks[k].id, refs |-> locks[k].refs - 1]]

Leave(t) ==
    /\ locks' = Released(task[t].key)
    /\ task' = [task EXCEPT ![t] = None]

-----------------------------------------------------------------------------

\* A free slot, or the call is rejected; then a reference to the tenant's lock.
Call(t, k) ==
    /\ task[t] = None
    /\ Cardinality(Busy) < MaxWorkers
    /\ LET entry == IF locks[k] = None THEN [id |-> NewLock, refs |-> 0] ELSE locks[k] IN
       /\ locks' = [locks EXCEPT ![k] = [id |-> entry.id, refs |-> entry.refs + 1]]
       /\ task' = [task EXCEPT ![t] = [runs |-> FALSE, key |-> k, lock |-> entry.id]]
    /\ UNCHANGED <<clock, marker>>

Acquires(t) ==
    /\ task[t] # None /\ ~task[t].runs
    /\ \A u \in Running : task[u].lock # task[t].lock

\* The workspace is made or touched; making one prunes first and needs room.
Enter(t) ==
    /\ Acquires(t)
    /\ LET k == task[t].key
           room == IF marker[k] = None THEN Pruned ELSE marker IN
       IF marker[k] = None /\ Cardinality(Volume(room)) >= MaxTenants
       THEN marker' = room /\ Leave(t)
       ELSE /\ marker' = [room EXCEPT ![k] = clock]
            /\ task' = [task EXCEPT ![t] = [task[t] EXCEPT !.runs = TRUE]]
            /\ UNCHANGED locks
    /\ UNCHANGED clock

\* The wait for the lock times out or is cancelled.
GiveUp(t) ==
    /\ task[t] # None /\ ~task[t].runs
    /\ Leave(t)
    /\ UNCHANGED <<clock, marker>>

\* The worker answers, fails, is refused for its size, or times out.
Finish(t) ==
    /\ t \in Running
    /\ Leave(t)
    /\ UNCHANGED <<clock, marker>>

\* The background task.
Prune ==
    /\ marker' = Pruned
    /\ UNCHANGED <<clock, locks, task>>

\* The gateway stops with its calls, and the next one prunes when it starts.
Restart ==
    /\ locks' = [k \in Tenants |-> None]
    /\ task' = [t \in Tasks |-> None]
    /\ marker' = [k \in Tenants |->
           IF marker[k] # None /\ clock > marker[k] + Ttl THEN None ELSE marker[k]]
    /\ UNCHANGED clock

Tick ==
    /\ clock < MaxClock
    /\ clock' = clock + 1
    /\ UNCHANGED <<marker, locks, task>>

Init ==
    /\ clock = 0
    /\ marker = [k \in Tenants |-> None]
    /\ locks = [k \in Tenants |-> None]
    /\ task = [t \in Tasks |-> None]

Next ==
    \/ \E t \in Tasks :
        \/ \E k \in Tenants : Call(t, k)
        \/ Enter(t) \/ GiveUp(t) \/ Finish(t)
    \/ Prune \/ Restart \/ Tick

Spec == Init /\ [][Next]_workerVars

-----------------------------------------------------------------------------

\* A running call is alone in its tenant's workspace, and the workspace is there, however
\* old its marker is and whoever gave up waiting for it (workers.py:82, workers.py:130).
WorkspaceHeld ==
    \A t \in Running :
        /\ marker[task[t].key] # None
        /\ \A u \in Running \ {t} : task[u].key # task[t].key

=============================================================================
