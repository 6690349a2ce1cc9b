--------------------------- MODULE SharingProofs ---------------------------
(***************************************************************************)
(* Proofs about what processes, threads and calls share (Sharing): the     *)
(* workspaces and rows of the remote gateways, the durable file, the       *)
(* statistics, the stores of namespaces, the questions of the tools and    *)
(* the retrieval signals, each with an inductive invariant of its own that *)
(* holds whenever the component runs.                                      *)
(***************************************************************************)
EXTENDS Sharing, FiniteSets, FiniteSetTheorems, WellFoundedInduction, TLAPS

\* The part that runs starts as its component does.
LEMMA PartInit ==
    ASSUME Init
    PROVE  /\ part = "workers" => Workers!Init
           /\ part = "rows" => Rows!Init
           /\ part = "backend" => Backend!Init
           /\ part = "stats" => Stats!Init
           /\ part = "namespaces" => Spaces!Init
BY DEF Init

\* A step is one of the part that runs, or changes nothing.
LEMMA PartStep ==
    ASSUME [Next]_vars
    PROVE  /\ part' = part
           /\ part = "workers" => [Workers!Next]_(Workers!workerVars)
           /\ part = "rows" => [Rows!Next]_(Rows!postgresVars)
           /\ part = "backend" => [Backend!Next]_(Backend!vars)
           /\ part = "stats" => [Stats!Next]_(Stats!vars)
           /\ part = "namespaces" => [Spaces!Next]_(Spaces!storeVars)
<1>1. CASE Next
    <2>1. part' = part
        BY <1>1 DEF Next
    <2>2. part = "workers" => Workers!Next
        BY <1>1 DEF Next
    <2>3. part = "rows" => Rows!Next
        BY <1>1 DEF Next
    <2>4. part = "backend" => Backend!Next
        BY <1>1 DEF Next
    <2>5. part = "stats" => Stats!Next
        BY <1>1 DEF Next
    <2>6. part = "namespaces" => Spaces!Next
        BY <1>1 DEF Next
    <2> QED BY <2>1, <2>2, <2>3, <2>4, <2>5, <2>6
<1>2. CASE UNCHANGED vars
    <2>1. /\ UNCHANGED <<part, now>> /\ UNCHANGED backendVars /\ UNCHANGED statsVars
          /\ UNCHANGED workerVars /\ UNCHANGED rowVars /\ UNCHANGED storeVars
        BY <1>2 DEF vars
    <2> QED BY <2>1 DEF workerVars, rowVars, backendVars, statsVars, storeVars, Workers!workerVars,
                Rows!postgresVars, Backend!vars, Backend!perProcess, Stats!vars, Stats!file,
                Stats!counts, Spaces!storeVars
<1> QED BY <1>1, <1>2

-----------------------------------------------------------------------------
(* TenantWorkers: private workspaces.                                      *)

\* The calls that refer to a tenant's lock.
Holders(k) == {t \in Workers!Busy : task[t].key = k}

\* The entry of a tenant counts the calls that refer to it, and its lock is the one they
\* all wait for.
Referenced ==
    /\ \A k \in Tenants : locks[k] # None => locks[k].refs = Cardinality(Holders(k))
    /\ \A t \in Workers!Busy :
           locks[task[t].key] # None /\ locks[task[t].key].id = task[t].lock

\* A lock admits one call, and the workspace of a running call is there.
Admitted ==
    /\ \A t, u \in Workers!Running : t # u => task[t].lock # task[u].lock
    /\ \A t \in Workers!Running : marker[task[t].key] # None

WorkersInv == Workers!TypeOK /\ Referenced /\ Admitted

\* The instance counts as this module does.
LEMMA WorkersFinite == \A S : Workers!IsFiniteSet(S) <=> IsFiniteSet(S)
BY DEF IsFiniteSet, Workers!IsFiniteSet

LEMMA WorkersCardinality == \A S : Workers!Cardinality(S) = Cardinality(S)
BY DEF Cardinality, Workers!Cardinality

LEMMA WorkersInit ==
    ASSUME Workers!WorkersAssumption, Workers!Init
    PROVE  WorkersInv
<1>1. Workers!Busy = {}
    BY DEF Workers!Init, Workers!Busy
<1>2. Workers!TypeOK
    BY DEF Workers!Init, Workers!TypeOK, Workers!WorkersAssumption
<1>3. Referenced
    BY <1>1 DEF Workers!Init, Referenced
<1>4. Admitted
    BY <1>1 DEF Admitted, Workers!Running
<1> QED BY <1>2, <1>3, <1>4 DEF WorkersInv

\* A call that has no slot yet leaves a lock object for it.
LEMMA FreeLock ==
    ASSUME Workers!WorkersAssumption, WorkersInv, NEW t \in Tasks, task[t] = None
    PROVE  Workers!NewLock \in Workers!LockIds
<1> USE DEF Workers!Busy, Workers!LockIds, Workers!Runs
<1> DEFINE Lock == [u \in Workers!Busy |-> task[u].lock]
<1>1. /\ IsFiniteSet(Workers!Busy) /\ Cardinality(Workers!Busy) < Cardinality(Tasks)
      /\ Cardinality(Tasks) \in Nat /\ Cardinality(Workers!Busy) \in Nat
    <2>1. IsFiniteSet(Tasks) /\ Workers!Busy \subseteq Tasks /\ Workers!Busy # Tasks
        BY WorkersFinite DEF Workers!WorkersAssumption
    <2> QED BY <2>1, FS_Subset, FS_CardinalityType
<1>2. Lock \in [Workers!Busy -> Workers!LockIds]
    BY DEF WorkersInv, Workers!TypeOK
<1>3. CASE \E i \in Workers!LockIds : \A u \in Workers!Busy : task[u].lock # i
    BY <1>3 DEF Workers!NewLock
<1>4. CASE \A i \in Workers!LockIds : \E u \in Workers!Busy : task[u].lock = i
    <2>1. Lock \in Surjection(Workers!Busy, Workers!LockIds)
        BY <1>2, <1>4 DEF Surjection
    <2>2. Cardinality(Workers!LockIds) <= Cardinality(Workers!Busy)
        BY <1>1, <2>1, FS_Surjection
    <2>3. Cardinality(Workers!LockIds) = Cardinality(Tasks)
        BY <1>1, FS_Interval, WorkersCardinality
    <2> QED BY <1>1, <2>2, <2>3
<1> QED BY <1>3, <1>4

LEMMA WorkersCall ==
    ASSUME Workers!WorkersAssumption, WorkersInv, NEW t \in Tasks, NEW k \in Tenants, Workers!Call(t, k)
    PROVE  WorkersInv'
<1> DEFINE entry == IF locks[k] = None THEN [id |-> Workers!NewLock, refs |-> 0] ELSE locks[k]
           grown == [id |-> entry.id, refs |-> entry.refs + 1]
           run == [runs |-> FALSE, key |-> k, lock |-> entry.id]
<1>1. /\ task[t] = None
      /\ locks' = [locks EXCEPT ![k] = grown] /\ task' = [task EXCEPT ![t] = run]
      /\ UNCHANGED <<clock, marker>>
    BY DEF Workers!Call
<1>2. /\ locks \in [Tenants -> Workers!Locks \cup {None}]
      /\ task \in [Tasks -> Workers!Runs \cup {None}]
    BY DEF WorkersInv, Workers!TypeOK
<1>3. entry.id \in Workers!LockIds /\ entry.refs = Cardinality(Holders(k))
    <2>1. CASE locks[k] = None
        <3>1. Holders(k) = {}
            BY <2>1 DEF Holders, WorkersInv, Referenced
        <3>2. Workers!NewLock \in Workers!LockIds
            BY <1>1, FreeLock
        <3> QED BY <2>1, <3>1, <3>2, FS_EmptySet
    <2>2. CASE locks[k] # None
        BY <1>2, <2>2 DEF WorkersInv, Referenced, Workers!Locks
    <2> QED BY <2>1, <2>2
<1>4. /\ IsFiniteSet(Workers!Busy) /\ IsFiniteSet(Holders(k))
      /\ Cardinality(Holders(k)) \in Nat /\ Cardinality(Holders(k)) + 1 <= Cardinality(Tasks)
    <2>1. Holders(k) \subseteq Tasks \ {t}
        BY <1>1 DEF Holders, Workers!Busy
    <2>2. /\ IsFiniteSet(Tasks) /\ IsFiniteSet(Tasks \ {t})
          /\ Cardinality(Tasks \ {t}) = Cardinality(Tasks) - 1
        BY FS_RemoveElement, WorkersFinite DEF Workers!WorkersAssumption
    <2>3. IsFiniteSet(Holders(k)) /\ Cardinality(Holders(k)) <= Cardinality(Tasks \ {t})
        BY <2>1, <2>2, FS_Subset
    <2>4. IsFiniteSet(Workers!Busy)
        BY <2>2, FS_Subset DEF Workers!Busy
    <2>5. Cardinality(Holders(k)) \in Nat /\ Cardinality(Tasks) \in Nat
        BY <2>2, <2>3, FS_CardinalityType
    <2> HIDE DEF Holders
    <2> QED BY <2>2, <2>3, <2>4, <2>5
<1>5. grown \in Workers!Locks /\ run \in Workers!Runs
    <2>1. entry.refs + 1 \in Workers!LockIds
        <3> HIDE DEF entry
        <3>1. Cardinality(Tasks) \in Nat
            BY FS_CardinalityType, WorkersFinite DEF Workers!WorkersAssumption
        <3> QED BY <1>3, <1>4, <3>1, WorkersCardinality DEF Workers!LockIds
    <2> HIDE DEF entry
    <2> QED BY <1>3, <2>1 DEF Workers!Locks, Workers!Runs
<1>6. grown # None /\ run # None
    BY <1>5 DEF Workers!WorkersAssumption
<1> HIDE DEF entry
<1>7. Workers!Busy' = Workers!Busy \cup {t}
    BY <1>1, <1>2, <1>6 DEF Workers!Busy
<1>8. Workers!Running' = Workers!Running
    BY <1>1, <1>2, <1>7 DEF Workers!Running, Workers!Busy
<1>9. \A u \in Workers!Busy : u # t /\ task'[u] = task[u]
    BY <1>1, <1>2 DEF Workers!Busy
<1>10. Workers!TypeOK'
    BY <1>1, <1>2, <1>5 DEF WorkersInv, Workers!TypeOK
<1>11. Referenced'
    <2>1. task'[t] = run
        BY <1>1, <1>2
    <2>2. Holders(k)' = Holders(k) \cup {t}
        BY <1>7, <1>9, <2>1 DEF Holders
    <2>3. \A j \in Tenants : j # k => Holders(j)' = Holders(j)
        BY <1>7, <1>9, <2>1 DEF Holders
    <2>4. Cardinality(Holders(k) \cup {t}) = Cardinality(Holders(k)) + 1
        <3>1. t \notin Holders(k)
            BY <1>1 DEF Holders, Workers!Busy
        <3> QED BY <1>4, <3>1, FS_AddElement
    <2>5. \A j \in Tenants : locks'[j] # None => locks'[j].refs = Cardinality(Holders(j)')
        <3> TAKE j \in Tenants
        <3>1. CASE j = k
            BY <1>1, <1>2, <1>3, <2>2, <2>4, <3>1
        <3>2. CASE j # k
            BY <1>1, <1>2, <2>3, <3>2 DEF WorkersInv, Referenced
        <3> QED BY <3>1, <3>2
    <2>6. \A u \in Workers!Busy' :
              locks'[task'[u].key] # None /\ locks'[task'[u].key].id = task'[u].lock
        <3> TAKE u \in Workers!Busy'
        <3>1. CASE u = t
            BY <1>1, <1>2, <1>6, <2>1, <3>1
        <3>2. CASE u # t
            <4>1. u \in Workers!Busy /\ task'[u] = task[u] /\ task[u].key \in Tenants
                BY <1>2, <1>7, <1>9, <3>2 DEF Workers!Busy, Workers!Runs
            <4>2. locks[task[u].key] # None /\ locks[task[u].key].id = task[u].lock
                BY <4>1 DEF WorkersInv, Referenced
            <4>3. CASE task[u].key = k
                BY <1>1, <1>2, <1>6, <4>1, <4>2, <4>3 DEF entry
            <4>4. CASE task[u].key # k
                BY <1>1, <1>2, <4>1, <4>2, <4>4
            <4> QED BY <4>3, <4>4
        <3> QED BY <3>1, <3>2
    <2> QED BY <2>5, <2>6 DEF Referenced
<1>12. Admitted'
    BY <1>1, <1>8, <1>9 DEF WorkersInv, Admitted, Workers!Running
<1> QED BY <1>10, <1>11, <1>12 DEF WorkersInv

\* A call that leaves gives its reference back, and the last one takes the entry along.
LEMMA WorkersLeave ==
    ASSUME Workers!WorkersAssumption, WorkersInv, NEW t \in Workers!Busy, Workers!Leave(t)
    PROVE  /\ Workers!Busy' = Workers!Busy \ {t}
           /\ \A u \in Tasks \ {t} : task'[u] = task[u]
           /\ Workers!Running' = Workers!Running \ {t}
           /\ locks' \in [Tenants -> Workers!Locks \cup {None}]
           /\ task' \in [Tasks -> Workers!Runs \cup {None}]
           /\ Referenced'
<1> DEFINE k == task[t].key
<1>1. /\ locks \in [Tenants -> Workers!Locks \cup {None}]
      /\ task \in [Tasks -> Workers!Runs \cup {None}]
    BY DEF WorkersInv, Workers!TypeOK
<1>2. k \in Tenants /\ t \in Tasks /\ task[t] # None
    BY <1>1 DEF Workers!Busy, Workers!Runs
<1>3. locks[k] # None /\ locks[k] \in Workers!Locks /\ locks[k].refs = Cardinality(Holders(k))
    BY <1>1, <1>2 DEF WorkersInv, Referenced
<1> DEFINE left == [id |-> locks[k].id, refs |-> locks[k].refs - 1]
<1>4. /\ task' = [task EXCEPT ![t] = None]
      /\ locks' = [locks EXCEPT ![k] = IF locks[k].refs = 1 THEN None ELSE left]
    BY DEF Workers!Leave, Workers!Released
<1>5. t \in Holders(k)
    BY DEF Holders
<1> HIDE DEF k
<1>6. Workers!Busy' = Workers!Busy \ {t} /\ \A u \in Tasks \ {t} : task'[u] = task[u]
    BY <1>1, <1>4 DEF Workers!Busy
<1>7. Workers!Running' = Workers!Running \ {t}
    BY <1>6 DEF Workers!Running, Workers!Busy
<1>8. locks[k].refs \in Workers!LockIds /\ locks[k].id \in Workers!LockIds
    BY <1>3 DEF Workers!Locks
<1>9. locks[k].refs # 1 => left \in Workers!Locks /\ left # None
    <2>1. locks[k].refs # 1 => locks[k].refs - 1 \in Workers!LockIds
        <3>1. Workers!Cardinality(Tasks) \in Nat
            BY FS_CardinalityType, WorkersFinite, WorkersCardinality DEF Workers!WorkersAssumption
        <3> QED BY <1>8, <3>1 DEF Workers!LockIds
    <2>2. locks[k].refs # 1 => left \in Workers!Locks
        BY <1>8, <2>1 DEF Workers!Locks
    <2> QED BY <2>2 DEF Workers!WorkersAssumption
<1>10. /\ locks' \in [Tenants -> Workers!Locks \cup {None}]
       /\ task' \in [Tasks -> Workers!Runs \cup {None}]
    <2> HIDE DEF left
    <2> QED BY <1>1, <1>2, <1>4, <1>9
<1>11. \A j \in Tenants : /\ j = k => Holders(j)' = Holders(k) \ {t}
                          /\ j # k => Holders(j)' = Holders(j)
    BY <1>6 DEF Holders, Workers!Busy, k
<1>12. IsFiniteSet(Holders(k)) /\ Cardinality(Holders(k) \ {t}) = Cardinality(Holders(k)) - 1
    <2>1. Holders(k) \subseteq Tasks
        BY DEF Holders, Workers!Busy
    <2>2. IsFiniteSet(Holders(k))
        BY <2>1, WorkersFinite, FS_Subset DEF Workers!WorkersAssumption
    <2> QED BY <1>5, <2>2, FS_RemoveElement
<1>13. \A j \in Tenants : locks'[j] # None => locks'[j].refs = Cardinality(Holders(j)')
    <2> TAKE j \in Tenants
    <2>1. CASE j = k
        BY <1>1, <1>3, <1>4, <1>11, <1>12, <2>1
    <2>2. CASE j # k
        BY <1>1, <1>4, <1>11, <2>2 DEF WorkersInv, Referenced
    <2> QED BY <2>1, <2>2
<1>14. \A u \in Workers!Busy' :
           locks'[task'[u].key] # None /\ locks'[task'[u].key].id = task'[u].lock
    <2> TAKE u \in Workers!Busy'
    <2>1. /\ u \in Workers!Busy /\ u # t /\ task'[u] = task[u]
          /\ task[u].key \in Tenants
        BY <1>1, <1>6 DEF Workers!Busy, Workers!Runs
    <2>2. locks[task[u].key] # None /\ locks[task[u].key].id = task[u].lock
        BY <2>1 DEF WorkersInv, Referenced
    <2>3. CASE task[u].key # k
        BY <1>1, <1>4, <2>1, <2>2, <2>3
    <2>4. CASE task[u].key = k
        \* The other call holds a reference too.
        <3>1. u \in Holders(k) \ {t}
            BY <2>1, <2>4 DEF Holders
        <3>2. IsFiniteSet(Holders(k) \ {t})
            BY <1>12, FS_RemoveElement
        <3>3. Cardinality(Holders(k) \ {t}) # 0
            BY <3>1, <3>2, FS_EmptySet
        <3>4. locks[k].refs # 1
            BY <1>3, <1>12, <3>3, <3>2, FS_CardinalityType
        <3>5. locks'[k] = left
            BY <1>1, <1>2, <1>4, <3>4
        <3> QED BY <1>9, <2>1, <2>2, <2>4, <3>4, <3>5
    <2> QED BY <2>3, <2>4
<1>15. Referenced'
    BY <1>13, <1>14 DEF Referenced
<1> QED BY <1>6, <1>7, <1>10, <1>15

\* What a prune takes is no running call's workspace.
LEMMA WorkersPruned ==
    ASSUME Workers!WorkersAssumption, WorkersInv
    PROVE  /\ Workers!Pruned \in [Tenants -> 0..MaxClock \cup {None}]
           /\ \A t \in Workers!Busy : Workers!Pruned[task[t].key] = marker[task[t].key]
<1>1. /\ marker \in [Tenants -> 0..MaxClock \cup {None}]
      /\ task \in [Tasks -> Workers!Runs \cup {None}]
    BY DEF WorkersInv, Workers!TypeOK
<1>2. Workers!Pruned \in [Tenants -> 0..MaxClock \cup {None}]
    BY <1>1 DEF Workers!Pruned
<1>3. ASSUME NEW t \in Workers!Busy
      PROVE  Workers!Pruned[task[t].key] = marker[task[t].key]
    <2>1. locks[task[t].key] # None
        BY DEF WorkersInv, Referenced
    <2>2. task[t].key \in Tenants
        BY <1>1 DEF Workers!Busy, Workers!Runs
    <2> QED BY <2>1, <2>2 DEF Workers!Pruned, Workers!Idle
<1> QED BY <1>2, <1>3

LEMMA WorkersStep ==
    ASSUME Workers!WorkersAssumption, WorkersInv, [Workers!Next]_(Workers!workerVars)
    PROVE  WorkersInv'
<1>0. /\ clock \in 0..MaxClock
      /\ marker \in [Tenants -> 0..MaxClock \cup {None}]
      /\ locks \in [Tenants -> Workers!Locks \cup {None}]
      /\ task \in [Tasks -> Workers!Runs \cup {None}]
      /\ MaxClock \in Nat
    BY DEF WorkersInv, Workers!TypeOK, Workers!WorkersAssumption
<1>1. ASSUME NEW t \in Tasks, NEW k \in Tenants, Workers!Call(t, k)
      PROVE  WorkersInv'
    BY <1>1, WorkersCall
<1>2. ASSUME NEW t \in Workers!Busy, Workers!Leave(t), UNCHANGED clock,
             marker' \in [Tenants -> 0..MaxClock \cup {None}],
             \A u \in Workers!Busy : marker'[task[u].key] = marker[task[u].key]
      PROVE  WorkersInv'
    <2>1. /\ Workers!Busy' = Workers!Busy \ {t}
          /\ \A u \in Tasks \ {t} : task'[u] = task[u]
          /\ Workers!Running' = Workers!Running \ {t}
          /\ locks' \in [Tenants -> Workers!Locks \cup {None}]
          /\ task' \in [Tasks -> Workers!Runs \cup {None}]
          /\ Referenced'
        BY <1>2, WorkersLeave
    <2>2. Workers!TypeOK'
        BY <1>0, <1>2, <2>1 DEF Workers!TypeOK
    <2>3. Admitted'
        BY <1>2, <2>1 DEF WorkersInv, Admitted, Workers!Running, Workers!Busy
    <2> QED BY <2>1, <2>2, <2>3 DEF WorkersInv
<1>3. ASSUME NEW t \in Tasks, Workers!Enter(t)
      PROVE  WorkersInv'
    <2> DEFINE k == task[t].key
               room == IF marker[k] = None THEN Workers!Pruned ELSE marker
    <2>1. /\ t \in Workers!Busy /\ ~task[t].runs /\ k \in Tenants
          /\ \A u \in Workers!Running : task[u].lock # task[t].lock
          /\ UNCHANGED clock
        BY <1>0, <1>3 DEF Workers!Enter, Workers!Acquires, Workers!Busy, Workers!Runs
    <2>2. /\ room \in [Tenants -> 0..MaxClock \cup {None}]
          /\ \A u \in Workers!Busy : room[task[u].key] = marker[task[u].key]
        BY <1>0, WorkersPruned
    <2>3. \/ marker' = room /\ Workers!Leave(t)
          \/ /\ marker' = [room EXCEPT ![k] = clock]
             /\ task' = [task EXCEPT ![t] = [task[t] EXCEPT !.runs = TRUE]]
             /\ UNCHANGED locks
        BY <1>3 DEF Workers!Enter
    <2> HIDE DEF room
    <2>4. CASE marker' = room /\ Workers!Leave(t)
        BY <1>2, <2>1, <2>2, <2>4
    <2>5. CASE /\ marker' = [room EXCEPT ![k] = clock]
               /\ task' = [task EXCEPT ![t] = [task[t] EXCEPT !.runs = TRUE]]
               /\ UNCHANGED locks
        <3> DEFINE run == [task[t] EXCEPT !.runs = TRUE]
        <3>1. task[t] \in Workers!Runs
            BY <1>0, <2>1 DEF Workers!Busy
        <3>2. /\ run \in Workers!Runs
              /\ run.runs /\ run.key = task[t].key /\ run.lock = task[t].lock
            BY <3>1 DEF Workers!Runs
        <3>3. run # None
            BY <3>2 DEF Workers!WorkersAssumption
        <3>4. task' = [task EXCEPT ![t] = run]
            BY <2>5
        <3> HIDE DEF run, k
        <3>5. /\ Workers!Busy' = Workers!Busy
              /\ Workers!Running' = Workers!Running \cup {t}
              /\ \A u \in Tasks : task'[u].key = task[u].key /\ task'[u].lock = task[u].lock
            <4>1. /\ task'[t] = run
                  /\ \A u \in Tasks : u # t => task'[u] = task[u]
                BY <1>0, <3>4
            <4>2. Workers!Busy' = Workers!Busy
                BY <2>1, <3>3, <4>1 DEF Workers!Busy
            <4>3. Workers!Running' = Workers!Running \cup {t}
                BY <2>1, <3>2, <4>1, <4>2 DEF Workers!Running, Workers!Busy
            <4> QED BY <3>2, <4>1, <4>2, <4>3
        <3>6. Workers!TypeOK'
            BY <1>0, <2>1, <2>2, <2>5, <3>2, <3>4 DEF Workers!TypeOK
        <3>7. Referenced'
            BY <1>0, <2>5, <3>5 DEF WorkersInv, Referenced, Holders, Workers!Busy
        <3>8. \A u, v \in Workers!Running' : u # v => task'[u].lock # task'[v].lock
            BY <2>1, <3>5 DEF WorkersInv, Admitted, Workers!Running, Workers!Busy
        <3>9. \A u \in Workers!Running' : marker'[task'[u].key] # None
            <4> TAKE u \in Workers!Running'
            <4>1. u \in Workers!Busy /\ task'[u].key = task[u].key /\ task[u].key \in Tenants
                BY <1>0, <2>1, <3>5 DEF Workers!Running, Workers!Busy, Workers!Runs
            <4>2. CASE task[u].key = k
                <5>1. clock # None
                    BY <1>0 DEF Workers!WorkersAssumption
                <5> QED BY <2>1, <2>2, <2>5, <4>1, <4>2, <5>1
            <4>3. CASE task[u].key # k
                <5>1. u \in Workers!Running
                    BY <3>5, <4>3 DEF k
                <5> QED BY <2>1, <2>2, <2>5, <4>1, <4>3, <5>1 DEF WorkersInv, Admitted
            <4> QED BY <4>2, <4>3
        <3>10. Admitted'
            BY <3>8, <3>9 DEF Admitted
        <3> QED BY <3>6, <3>7, <3>10 DEF WorkersInv
    <2> QED BY <2>3, <2>4, <2>5
<1>4. ASSUME NEW t \in Tasks, Workers!GiveUp(t) \/ Workers!Finish(t)
      PROVE  WorkersInv'
    <2>1. t \in Workers!Busy /\ Workers!Leave(t) /\ UNCHANGED <<clock, marker>>
        BY <1>4 DEF Workers!GiveUp, Workers!Finish, Workers!Busy, Workers!Running
    <2> QED BY <1>0, <1>2, <2>1
<1>5. ASSUME Workers!Prune
      PROVE  WorkersInv'
    <2>1. /\ Workers!Busy' = Workers!Busy /\ Workers!Running' = Workers!Running
          /\ \A k : Holders(k)' = Holders(k)
        BY <1>5 DEF Workers!Prune, Workers!Busy, Workers!Running, Holders
    <2>2. /\ marker' = Workers!Pruned /\ UNCHANGED <<clock, locks, task>>
          /\ marker' \in [Tenants -> 0..MaxClock \cup {None}]
          /\ \A t \in Workers!Busy : marker'[task[t].key] = marker[task[t].key]
        BY <1>5, WorkersPruned DEF Workers!Prune
    <2>3. Workers!TypeOK' /\ Referenced'
        BY <1>0, <2>1, <2>2 DEF WorkersInv, Workers!TypeOK, Referenced
    <2>4. Admitted'
        BY <2>1, <2>2 DEF WorkersInv, Admitted, Workers!Running
    <2> QED BY <2>3, <2>4 DEF WorkersInv
<1>6. ASSUME Workers!Restart
      PROVE  WorkersInv'
    <2>1. Workers!Busy' = {}
        BY <1>6 DEF Workers!Restart, Workers!Busy
    <2>2. Workers!TypeOK'
        BY <1>0, <1>6 DEF Workers!Restart, Workers!TypeOK
    <2>3. Referenced' /\ Admitted'
        BY <1>6, <2>1 DEF Workers!Restart, Referenced, Admitted, Workers!Running
    <2> QED BY <2>2, <2>3 DEF WorkersInv
<1>7. ASSUME Workers!Tick \/ UNCHANGED Workers!workerVars
      PROVE  WorkersInv'
    <2>1. UNCHANGED <<marker, locks, task>> /\ clock' \in 0..MaxClock
        BY <1>0, <1>7 DEF Workers!Tick, Workers!workerVars
    <2>2. /\ Workers!Busy' = Workers!Busy /\ Workers!Running' = Workers!Running
          /\ \A k : Holders(k)' = Holders(k)
        BY <2>1 DEF Workers!Busy, Workers!Running, Holders
    <2> QED BY <1>0, <2>1, <2>2 DEF WorkersInv, Workers!TypeOK, Referenced, Admitted
<1> QED BY <1>1, <1>3, <1>4, <1>5, <1>6, <1>7 DEF Workers!Next

\* The private workspaces, for any tasks, tenants and limits: whichever calls wait, give
\* up or finish, and whatever is pruned meanwhile, a running call is alone in its tenant's
\* workspace, and the workspace is there.
THEOREM WorkspaceAlwaysHeld ==
    Spec => []WorkspaceHeld
<1> DEFINE Inv == part = "workers" => WorkersInv
<1>1. Init => Inv
    BY PartInit, WorkersInit, SharingAssumption
<1>2. Inv /\ [Next]_vars => Inv'
    BY PartStep, WorkersStep, SharingAssumption
<1>3. Inv => WorkspaceHeld
    BY DEF WorkersInv, Referenced, Admitted, WorkspaceHeld, Workers!WorkspaceHeld, Workers!Running
<1> QED BY <1>1, <1>2, <1>3, PTL DEF Spec

-----------------------------------------------------------------------------
(* PostgresWorkers: snapshots in locked rows.                              *)

Holding == {c \in Calls : state[c] = "running"}

\* A running call holds its tenant's row alone, the row is there, and the store it
\* restored has everything returned of the tenant.
RowsLocked ==
    /\ \A c, d \in Holding : c # d => TenantOf[c] # TenantOf[d]
    /\ \A c \in Holding :
           /\ table[TenantOf[c]] # None
           /\ returned \cap Rows!Of(TenantOf[c]) \subseteq scratch[c]

RowsInv == Rows!TypeOK /\ RowsLocked /\ Rows!SnapshotsKept

LEMMA RowsTyped ==
    ASSUME Rows!PostgresAssumption, RowsInv
    PROVE  /\ dbNow \in 0..MaxNow /\ MaxNow \in Nat /\ RowTtl \in Nat
           /\ table \in [Tenants -> Rows!Row \cup {None}]
           /\ state \in [Calls -> Rows!States]
           /\ begun \in [Calls -> 0..MaxNow]
           /\ scratch \in [Calls -> SUBSET Calls]
           /\ returned \subseteq Calls
           /\ TenantOf \in [Calls -> Tenants]
           /\ None \notin Rows!Row
BY DEF RowsInv, Rows!TypeOK, Rows!PostgresAssumption

LEMMA RowsPrepare ==
    ASSUME Rows!PostgresAssumption, RowsInv, NEW c \in Calls, Rows!Prepare(c)
    PROVE  RowsInv'
<1> USE RowsTyped
<1> DEFINE k == TenantOf[c]
           left == [j \in Tenants |-> IF Rows!Prunable(j) THEN None ELSE table[j]]
           taken == UNION {Rows!Of(j) : j \in {i \in Tenants : Rows!Prunable(i)}}
           row == [data |-> {}, expires |-> dbNow + RowTtl]
<1>1. /\ state[c] = "new" /\ UNCHANGED <<dbNow, scratch>>
      /\ state' \in [Calls -> Rows!States] /\ Holding' = Holding
    <2>1. state[c] = "new" /\ UNCHANGED <<dbNow, scratch>>
        BY DEF Rows!Prepare
    <2>2. state' = [state EXCEPT ![c] = "prepared"] \/ state' = [state EXCEPT ![c] = "ended"]
        BY DEF Rows!Prepare, Rows!Open, Rows!End
    <2> QED BY <2>1, <2>2 DEF Holding, Rows!States
<1>2. \/ UNCHANGED <<table, returned>> /\ (UNCHANGED begun \/ begun' = [begun EXCEPT ![c] = dbNow])
      \/ /\ table[k] = None /\ table' = [left EXCEPT ![k] = row] /\ returned' = returned \ taken
         /\ begun' = [begun EXCEPT ![c] = dbNow]
    BY DEF Rows!Prepare, Rows!Open, Rows!End
<1>3. CASE UNCHANGED <<table, returned>> /\ (UNCHANGED begun \/ begun' = [begun EXCEPT ![c] = dbNow])
    <2>1. Rows!TypeOK'
        BY <1>1, <1>3 DEF Rows!TypeOK
    <2>2. RowsLocked' /\ Rows!SnapshotsKept'
        BY <1>1, <1>3 DEF RowsInv, RowsLocked, Rows!SnapshotsKept, Rows!Of
    <2> QED BY <2>1, <2>2 DEF RowsInv
<1>4. CASE /\ table[k] = None /\ table' = [left EXCEPT ![k] = row] /\ returned' = returned \ taken
           /\ begun' = [begun EXCEPT ![c] = dbNow]
    <2>1. k \in Tenants /\ row \in Rows!Row
        BY DEF Rows!Row
    <2>2. Rows!TypeOK'
        BY <1>1, <1>4, <2>1 DEF Rows!TypeOK
    <2>3. \A d \in Holding : TenantOf[d] # k /\ ~Rows!Prunable(TenantOf[d])
        BY <1>4 DEF RowsInv, RowsLocked, Holding, Rows!Prunable, Rows!RowFree
    <2>4. \A d \in returned' : TenantOf[d] # k /\ ~Rows!Prunable(TenantOf[d])
        <3> SUFFICES ASSUME NEW d \in returned \ taken
                     PROVE  TenantOf[d] # k /\ ~Rows!Prunable(TenantOf[d])
            BY <1>4
        <3>1. d \in Calls /\ TenantOf[d] \in Tenants /\ table[TenantOf[d]] # None
            BY DEF RowsInv, Rows!SnapshotsKept
        <3>2. d \in Rows!Of(TenantOf[d])
            BY <3>1 DEF Rows!Of
        <3> QED BY <1>4, <3>1, <3>2
    <2>5. \A d \in Calls : TenantOf[d] # k /\ ~Rows!Prunable(TenantOf[d])
                           => table'[TenantOf[d]] = table[TenantOf[d]]
        BY <1>4, <2>1
    <2> HIDE DEF k, left, taken, row
    <2>6. RowsLocked'
        <3>1. \A d \in Holding : table'[TenantOf[d]] # None
            BY <2>3, <2>5 DEF RowsInv, RowsLocked, Holding
        <3>2. returned' \subseteq returned
            BY <1>4
        <3> QED BY <1>1, <3>1, <3>2 DEF RowsInv, RowsLocked, Rows!Of
    <2>7. Rows!SnapshotsKept'
        BY <1>4, <2>4, <2>5 DEF RowsInv, Rows!SnapshotsKept
    <2> QED BY <2>2, <2>6, <2>7 DEF RowsInv
<1> QED BY <1>2, <1>3, <1>4

LEMMA RowsBegin ==
    ASSUME Rows!PostgresAssumption, RowsInv, NEW c \in Calls, Rows!Begin(c)
    PROVE  RowsInv'
<1> USE RowsTyped
<1> DEFINE k == TenantOf[c]
           live == Rows!Live(k, begun[c])
<1>1. UNCHANGED <<dbNow, table, begun>> /\ Rows!RowFree(k) /\ k \in Tenants
    BY DEF Rows!Begin
<1>2. \/ state' = [state EXCEPT ![c] = "ended"] /\ UNCHANGED <<scratch, returned>>
      \/ /\ table[k] # None
         /\ state' = [state EXCEPT ![c] = "running"]
         /\ scratch' = [scratch EXCEPT ![c] = IF live THEN table[k].data ELSE {}]
         /\ returned' = IF live THEN returned ELSE returned \ Rows!Of(k)
    BY DEF Rows!Begin, Rows!End
<1>3. CASE state' = [state EXCEPT ![c] = "ended"] /\ UNCHANGED <<scratch, returned>>
    <2>1. Rows!TypeOK'
        BY <1>1, <1>3 DEF Rows!TypeOK, Rows!States
    <2>2. Holding' \subseteq Holding
        BY <1>3 DEF Holding
    <2>3. RowsLocked' /\ Rows!SnapshotsKept'
        BY <1>1, <1>3, <2>2 DEF RowsInv, RowsLocked, Rows!SnapshotsKept, Rows!Of
    <2> QED BY <2>1, <2>3 DEF RowsInv
<1>4. CASE /\ table[k] # None
           /\ state' = [state EXCEPT ![c] = "running"]
           /\ scratch' = [scratch EXCEPT ![c] = IF live THEN table[k].data ELSE {}]
           /\ returned' = IF live THEN returned ELSE returned \ Rows!Of(k)
    <2>1. table[k] \in Rows!Row /\ table[k].data \subseteq Calls
        BY <1>1, <1>4 DEF Rows!Row
    <2>2. returned' \subseteq returned
        BY <1>4
    <2> HIDE DEF live
    <2>3. Rows!TypeOK'
        BY <1>1, <1>4, <2>1, <2>2 DEF Rows!TypeOK, Rows!States
    <2>4. Rows!SnapshotsKept'
        BY <1>1, <2>2 DEF RowsInv, Rows!SnapshotsKept
    <2>5. Holding' = Holding \cup {c} /\ \A d \in Holding : d # c /\ TenantOf[d] # k
        BY <1>1, <1>4 DEF Holding, Rows!RowFree
    <2>6. returned' \cap Rows!Of(k) \subseteq scratch'[c]
        <3>1. CASE live
            <4>1. scratch'[c] = table[k].data /\ returned' = returned
                BY <1>4, <3>1
            <4> QED BY <4>1 DEF RowsInv, Rows!SnapshotsKept, Rows!Of
        <3>2. CASE ~live
            BY <1>4, <3>2
        <3> QED BY <3>1, <3>2
    <2>7. RowsLocked'
        <3>1. \A d \in Holding : /\ table'[TenantOf[d]] # None
                                 /\ returned' \cap Rows!Of(TenantOf[d]) \subseteq scratch'[d]
            BY <1>1, <1>4, <2>2, <2>5 DEF RowsInv, RowsLocked, Holding
        <3>2. Rows!Of(TenantOf[c])' = Rows!Of(TenantOf[c]) /\ \A j : Rows!Of(j)' = Rows!Of(j)
            BY DEF Rows!Of
        <3> QED BY <1>1, <1>4, <2>5, <2>6, <3>1, <3>2 DEF RowsInv, RowsLocked
    <2> QED BY <2>3, <2>4, <2>7 DEF RowsInv
<1> QED BY <1>2, <1>3, <1>4

LEMMA RowsCommit ==
    ASSUME Rows!PostgresAssumption, RowsInv, NEW c \in Calls, NEW answered \in BOOLEAN,
           Rows!Commit(c, answered)
    PROVE  RowsInv'
<1> USE RowsTyped
<1> DEFINE k == TenantOf[c]
           row == [data |-> scratch[c] \cup {c}, expires |-> begun[c] + RowTtl]
<1>1. /\ state[c] = "running" /\ table' = [table EXCEPT ![k] = row]
      /\ returned' = IF answered THEN returned \cup {c} ELSE returned
      /\ state' = [state EXCEPT ![c] = "ended"] /\ UNCHANGED <<dbNow, begun, scratch>>
    BY DEF Rows!Commit, Rows!End
<1>2. k \in Tenants /\ row \in Rows!Row
    BY DEF Rows!Row
<1>3. Rows!TypeOK'
    BY <1>1, <1>2 DEF Rows!TypeOK, Rows!States
<1>4. /\ c \in Holding /\ Holding' \subseteq Holding \ {c}
      /\ \A d \in Holding' : TenantOf[d] # k
    BY <1>1 DEF Holding, RowsInv, RowsLocked
<1>5. table'[k] = row /\ \A j \in Tenants : j # k => table'[j] = table[j]
    BY <1>1, <1>2
<1>6. Rows!SnapshotsKept'
    <2> SUFFICES ASSUME NEW d \in returned'
                 PROVE  table'[TenantOf[d]] # None /\ d \in table'[TenantOf[d]].data
        BY DEF Rows!SnapshotsKept
    <2>1. d \in Calls /\ TenantOf[d] \in Tenants /\ (d = c \/ d \in returned)
        BY <1>1
    <2>2. CASE TenantOf[d] = k
        <3>1. d \in row.data
            BY <1>4, <2>1, <2>2 DEF RowsInv, RowsLocked, Rows!Of
        <3> QED BY <1>2, <1>5, <2>2, <3>1
    <2>3. CASE TenantOf[d] # k
        BY <1>5, <2>1, <2>3 DEF RowsInv, Rows!SnapshotsKept
    <2> QED BY <2>2, <2>3
<1>7. RowsLocked'
    <2>1. \A d \in Holding' : /\ table'[TenantOf[d]] # None
                              /\ returned' \cap Rows!Of(TenantOf[d]) \subseteq scratch'[d]
        <3> TAKE d \in Holding'
        <3>1. d \in Calls /\ d \in Holding /\ TenantOf[d] \in Tenants /\ TenantOf[d] # k
            BY <1>4 DEF Holding
        <3>2. returned' \cap Rows!Of(TenantOf[d]) = returned \cap Rows!Of(TenantOf[d])
            BY <1>1, <3>1 DEF Rows!Of
        <3> QED BY <1>1, <1>5, <3>1, <3>2 DEF RowsInv, RowsLocked
    <2>2. \A j : Rows!Of(j)' = Rows!Of(j)
        BY DEF Rows!Of
    <2> QED BY <1>4, <2>1, <2>2 DEF RowsInv, RowsLocked
<1> QED BY <1>3, <1>6, <1>7 DEF RowsInv

LEMMA RowsStep ==
    ASSUME Rows!PostgresAssumption, RowsInv, [Rows!Next]_(Rows!postgresVars)
    PROVE  RowsInv'
<1> USE RowsTyped
<1>1. ASSUME NEW c \in Calls, Rows!Abort(c)
      PROVE  RowsInv'
    <2>1. state' = [state EXCEPT ![c] = "ended"] /\ UNCHANGED <<dbNow, table, begun, scratch, returned>>
        BY <1>1 DEF Rows!Abort, Rows!End
    <2>2. Holding' \subseteq Holding
        BY <2>1 DEF Holding
    <2>3. Rows!TypeOK'
        BY <2>1 DEF Rows!TypeOK, Rows!States
    <2>4. RowsLocked' /\ Rows!SnapshotsKept'
        BY <2>1, <2>2 DEF RowsInv, RowsLocked, Rows!SnapshotsKept, Rows!Of
    <2> QED BY <2>3, <2>4 DEF RowsInv
<1>2. ASSUME Rows!Tick \/ UNCHANGED Rows!postgresVars
      PROVE  RowsInv'
    <2>1. UNCHANGED <<table, state, begun, scratch, returned>> /\ dbNow' \in 0..MaxNow
        BY <1>2 DEF Rows!Tick, Rows!postgresVars
    <2>2. Rows!TypeOK'
        BY <2>1 DEF Rows!TypeOK
    <2>3. RowsLocked' /\ Rows!SnapshotsKept'
        BY <2>1 DEF RowsInv, RowsLocked, Rows!SnapshotsKept, Rows!Of, Holding
    <2> QED BY <2>2, <2>3 DEF RowsInv
<1> QED BY <1>1, <1>2, RowsPrepare, RowsBegin, RowsCommit DEF Rows!Next

\* The serverless gateway, for any calls and tenants: whichever calls commit, are lost or
\* find their row pruned, what a returned call wrote stays in its tenant's row until the
\* row expires.
THEOREM SnapshotsAlwaysKept ==
    Spec => []SnapshotsKept
<1> DEFINE Inv == part = "rows" => RowsInv
<1>1. Init => Inv
    BY PartInit, SharingAssumption
    DEF Rows!Init, RowsInv, Rows!TypeOK, RowsLocked, Rows!SnapshotsKept, Holding,
        Rows!PostgresAssumption, Rows!States
<1>2. Inv /\ [Next]_vars => Inv'
    BY PartStep, RowsStep, SharingAssumption
<1>3. Inv => SnapshotsKept
    BY DEF RowsInv, SnapshotsKept
<1> QED BY <1>1, <1>2, <1>3, PTL DEF Spec

-----------------------------------------------------------------------------
(* SqliteBackend: the durable file and its counters.                       *)

LEMMA BackendFinite == \A S : Backend!IsFiniteSet(S) <=> IsFiniteSet(S)
BY DEF IsFiniteSet, Backend!IsFiniteSet

LEMMA BackendCardinality == \A S : Backend!Cardinality(S) = Cardinality(S)
BY DEF Cardinality, Backend!Cardinality

\* What the probe of a set() found is so until another process changes the rows, and only
\* a process that is not degraded has a set() at the file.
ProbeTrue ==
    \A p \in Procs : pending[p] # None =>
        /\ ~degraded[p]
        /\ ~foreign[p] => (pending[p].existed <=> rows[pending[p].key] # None)

\* With the counter at zero no note is written.
NoteCounted == noted <= 1 /\ (counter = 0 => noted = 0)

BackendInv == Backend!TypeOK /\ Backend!ExactWhenAlone /\ ProbeTrue /\ NoteCounted

LEMMA BackendTyped ==
    ASSUME Backend!SqliteAssumption, BackendInv
    PROVE  /\ now \in Backend!Times
           /\ rows \in [RowKeys -> Backend!Times \cup {None}]
           /\ counter \in Nat
           /\ memory \in [Procs -> Backend!Entries]
           /\ tally \in [Procs -> Nat]
           /\ degraded \in [Procs -> BOOLEAN]
           /\ rowCount \in [Procs -> Int]
           /\ putCount \in [Procs -> 0..(PurgeEvery - 1)]
           /\ pending \in [Procs -> Backend!Pending \cup {None}]
           /\ noted \in Nat
           /\ foreign \in [Procs -> BOOLEAN]
           /\ faults \in 0..MaxFaults
           /\ MaxRows \in Nat \ {0} /\ PurgeEvery \in Nat \ {0}
           /\ Ttl \in Nat /\ MaxTime \in Nat /\ MaxFaults \in Nat
           /\ None \notin Int /\ None \notin Backend!Pending
           /\ Backend!Times \subseteq Int
           /\ IsFiniteSet(RowKeys)
BY BackendFinite DEF BackendInv, Backend!TypeOK, Backend!SqliteAssumption, Backend!Entries, Backend!Times

\* The rows of a table are a finite set, and what is taken from it leaves the others.
LEMMA TableCounted ==
    ASSUME Backend!SqliteAssumption, NEW t \in [RowKeys -> Backend!Times \cup {None}],
           NEW gone \in SUBSET Backend!Stored(t)
    PROVE  /\ Backend!Without(t, gone) \in [RowKeys -> Backend!Times \cup {None}]
           /\ Backend!Stored(Backend!Without(t, gone)) = Backend!Stored(t) \ gone
           /\ IsFiniteSet(Backend!Stored(t)) /\ Cardinality(Backend!Stored(t)) \in Nat
           /\ Cardinality(gone) \in Nat /\ Cardinality(gone) <= Cardinality(Backend!Stored(t))
           /\ Cardinality(Backend!Stored(t) \ gone) = Cardinality(Backend!Stored(t)) - Cardinality(gone)
<1>1. IsFiniteSet(RowKeys) /\ Backend!Stored(t) \subseteq RowKeys
    BY BackendFinite DEF Backend!SqliteAssumption, Backend!Stored
<1>2. IsFiniteSet(Backend!Stored(t)) /\ Cardinality(Backend!Stored(t)) \in Nat
    BY <1>1, FS_Subset, FS_CardinalityType
<1>3. IsFiniteSet(gone) /\ Cardinality(gone) \in Nat
      /\ Cardinality(gone) <= Cardinality(Backend!Stored(t))
    BY <1>2, FS_Subset, FS_CardinalityType
<1>4. Backend!Stored(t) \cap gone = gone
    OBVIOUS
<1>5. Cardinality(Backend!Stored(t) \ gone) = Cardinality(Backend!Stored(t)) - Cardinality(gone)
    BY <1>2, <1>3, <1>4, FS_Difference
<1>6. /\ Backend!Without(t, gone) \in [RowKeys -> Backend!Times \cup {None}]
      /\ Backend!Stored(Backend!Without(t, gone)) = Backend!Stored(t) \ gone
    BY DEF Backend!Without, Backend!Stored
<1> QED BY <1>2, <1>3, <1>5, <1>6

\* The counter of a process that nobody disturbed counts the rows a put leaves.
LEMMA CountsPut ==
    ASSUME Backend!SqliteAssumption, BackendInv, NEW p \in Procs, ~Backend!Idle(p)
    PROVE  /\ pending[p] \in Backend!Pending /\ pending[p].key \in RowKeys
           /\ Backend!Put(p) \in [RowKeys -> Backend!Times \cup {None}]
           /\ Backend!PutAndPurge(p) \in [RowKeys -> Backend!Times \cup {None}]
           /\ Backend!CountedRows(p) \in Int
           /\ ~foreign[p] \/ Backend!PurgeNow(p)
              => Backend!CountedRows(p) = Cardinality(Backend!Stored(Backend!PutAndPurge(p)))
<1> USE BackendTyped
<1> DEFINE k == pending[p].key
<1>1. pending[p] \in Backend!Pending /\ k \in RowKeys /\ pending[p].created \in Backend!Times
    BY DEF Backend!Idle, Backend!Pending
<1>2. Backend!Put(p) \in [RowKeys -> Backend!Times \cup {None}]
    BY <1>1 DEF Backend!Put
<1>3. Backend!PutAndPurge(p) \in [RowKeys -> Backend!Times \cup {None}]
    BY <1>2 DEF Backend!PutAndPurge, Backend!Without
<1>4. Cardinality(Backend!Stored(Backend!PutAndPurge(p))) \in Nat
    BY <1>3, TableCounted
<1>5. Backend!CountedRows(p) \in Int
    BY <1>4, BackendCardinality DEF Backend!CountedRows, Backend!CountedByProbe
<1>6. CASE Backend!PurgeNow(p)
    BY <1>1, <1>2, <1>3, <1>5, <1>6, BackendCardinality DEF Backend!CountedRows, Backend!CountedByProbe
<1>7. CASE ~Backend!PurgeNow(p) /\ ~foreign[p]
    <2>1. /\ Backend!PutAndPurge(p) = Backend!Put(p)
          /\ pending[p].existed <=> k \in Backend!Stored(rows)
          /\ rowCount[p] = Cardinality(Backend!Stored(rows))
        BY <1>1, <1>7, BackendCardinality
        DEF Backend!PutAndPurge, BackendInv, ProbeTrue, Backend!ExactWhenAlone, Backend!Idle,
           Backend!Stored
    <2>2. Backend!Stored(Backend!Put(p)) = Backend!Stored(rows) \cup {k}
        BY <1>1 DEF Backend!Stored, Backend!Put
    <2>3. IsFiniteSet(Backend!Stored(rows))
        BY TableCounted
    <2>4. Backend!CountedRows(p) = IF k \in Backend!Stored(rows) THEN rowCount[p] ELSE rowCount[p] + 1
        BY <1>7, <2>1 DEF Backend!CountedRows, Backend!CountedByProbe
    <2>5. Cardinality(Backend!Stored(rows) \cup {k}) =
              IF k \in Backend!Stored(rows) THEN Cardinality(Backend!Stored(rows))
                                            ELSE Cardinality(Backend!Stored(rows)) + 1
        BY <2>3, FS_AddElement
    <2> QED BY <1>1, <1>2, <1>3, <1>5, <2>1, <2>2, <2>4, <2>5
<1>8. ~foreign[p] \/ Backend!PurgeNow(p)
      => Backend!CountedRows(p) = Cardinality(Backend!Stored(Backend!PutAndPurge(p)))
    BY ONLY <1>6, <1>7
<1> QED BY ONLY <1>1, <1>2, <1>3, <1>5, <1>8

\* What another process changes in the set of rows, it has not counted.
LEMMA Disturbed ==
    ASSUME Backend!SqliteAssumption, BackendInv, NEW p \in Procs, NEW known \in BOOLEAN,
           rows' \in [RowKeys -> Backend!Times \cup {None}], Backend!Unseen(p, rows', known)
    PROVE  /\ foreign' \in [Procs -> BOOLEAN]
           /\ foreign'[p] <=> foreign[p] /\ ~known
           /\ \A q \in Procs \ {p} : ~foreign'[q] =>
                  ~foreign[q] /\ Backend!Stored(rows') = Backend!Stored(rows)
BY BackendTyped DEF Backend!Unseen

\* Processes that keep their state keep what holds of it when nobody changes the rows.
LEMMA OthersExact ==
    ASSUME Backend!SqliteAssumption, BackendInv, NEW p \in Procs,
           rows' \in [RowKeys -> Backend!Times \cup {None}],
           \A q \in Procs \ {p} : ~foreign'[q] =>
               ~foreign[q] /\ Backend!Stored(rows') = Backend!Stored(rows),
           \A q \in Procs \ {p} : degraded'[q] = degraded[q] /\ rowCount'[q] = rowCount[q]
                                  /\ pending'[q] = pending[q]
    PROVE  /\ \A q \in Procs \ {p} : ~foreign'[q] /\ ~degraded'[q]
                  => rowCount'[q] = Cardinality(Backend!Stored(rows'))
           /\ \A q \in Procs \ {p} : pending'[q] # None =>
                  /\ ~degraded'[q]
                  /\ ~foreign'[q] => (pending'[q].existed <=> rows'[pending'[q].key] # None)
<1> USE BackendTyped
<1>1. ASSUME NEW q \in Procs \ {p}, ~foreign'[q], ~degraded'[q]
      PROVE  rowCount'[q] = Cardinality(Backend!Stored(rows'))
    BY <1>1, BackendCardinality DEF BackendInv, Backend!ExactWhenAlone
<1>2. ASSUME NEW q \in Procs \ {p}, pending'[q] # None
      PROVE  /\ ~degraded'[q]
             /\ ~foreign'[q] => (pending'[q].existed <=> rows'[pending'[q].key] # None)
    <2>1. pending[q] # None /\ pending[q].key \in RowKeys /\ pending'[q] = pending[q]
        BY <1>2 DEF Backend!Pending
    <2>2. ~degraded[q] /\ (~foreign[q] => (pending[q].existed <=> rows[pending[q].key] # None))
        BY <2>1 DEF BackendInv, ProbeTrue
    <2>3. Backend!Stored(rows') = Backend!Stored(rows)
          => (rows'[pending[q].key] # None <=> rows[pending[q].key] # None)
        BY <2>1 DEF Backend!Stored
    <2> QED BY <2>1, <2>2, <2>3
<1> QED BY <1>1, <1>2

LEMMA BackendCommit ==
    ASSUME Backend!SqliteAssumption, BackendInv, NEW p \in Procs, Backend!Commit(p)
    PROVE  BackendInv' /\ Backend!CommitIsRead(p)
<1> USE BackendTyped
<1> DEFINE k == pending[p].key
           put == Backend!PutAndPurge(p)
           n == Backend!CountedRows(p) - MaxRows
           all == Cardinality(Backend!Stored(put))
<1>1. PICK gone \in Backend!OldestSets(put, n) :
          /\ rows' = Backend!Without(put, gone)
          /\ rowCount' = [rowCount EXCEPT ![p] = Backend!CountedRows(p) - Cardinality(gone)]
    BY BackendCardinality DEF Backend!Commit
<1>2. /\ ~Backend!Idle(p)
      /\ putCount' = [putCount EXCEPT ![p] = IF Backend!PurgeNow(p) THEN 0 ELSE putCount[p] + 1]
      /\ memory' = [memory EXCEPT ![p] = [memory[p] EXCEPT ![k] = None]]
      /\ pending' = [pending EXCEPT ![p] = None]
      /\ Backend!Unseen(p, rows', Backend!PurgeNow(p))
      /\ UNCHANGED <<now, counter, tally, degraded, noted, faults>>
    BY DEF Backend!Commit
<1>3. /\ pending[p] \in Backend!Pending /\ k \in RowKeys /\ pending[p].created \in Backend!Times
      /\ Backend!Put(p) \in [RowKeys -> Backend!Times \cup {None}]
      /\ put \in [RowKeys -> Backend!Times \cup {None}]
      /\ Backend!CountedRows(p) \in Int
      /\ ~foreign[p] \/ Backend!PurgeNow(p) => Backend!CountedRows(p) = all
    BY <1>2, CountsPut DEF Backend!Pending
<1>4. /\ gone \subseteq Backend!Stored(put)
      /\ Cardinality(gone) = Backend!MinOf(Backend!MaxOf(n, 0), all)
      /\ \A i \in gone, j \in Backend!Stored(put) \ gone : put[i] <= put[j]
    BY <1>1, BackendCardinality DEF Backend!OldestSets
<1> HIDE DEF put
<1>5. /\ rows' \in [RowKeys -> Backend!Times \cup {None}]
      /\ Backend!Stored(rows') = Backend!Stored(put) \ gone
      /\ Cardinality(gone) \in Nat /\ all \in Nat
      /\ Cardinality(Backend!Stored(put) \ gone) = all - Cardinality(gone)
    BY <1>1, <1>3, <1>4, TableCounted
<1> HIDE DEF k, all, n
<1>6. /\ foreign' \in [Procs -> BOOLEAN]
      /\ foreign'[p] <=> foreign[p] /\ ~Backend!PurgeNow(p)
      /\ \A q \in Procs \ {p} : ~foreign'[q] =>
             ~foreign[q] /\ Backend!Stored(rows') = Backend!Stored(rows)
    BY <1>2, <1>5, Disturbed DEF Backend!PurgeNow
<1>7. Backend!TypeOK'
    <2>1. putCount' \in [Procs -> 0..(PurgeEvery - 1)]
        BY <1>2 DEF Backend!PurgeNow
    <2>2. memory' \in [Procs -> Backend!Entries]
        BY <1>2, <1>3 DEF Backend!Entries
    <2>3. rowCount' \in [Procs -> Int]
        BY <1>1, <1>3, <1>5
    <2>4. pending' \in [Procs -> Backend!Pending \cup {None}]
        BY <1>2
    <2> QED BY <1>2, <1>5, <1>6, <2>1, <2>2, <2>3, <2>4 DEF Backend!TypeOK, Backend!Entries
<1>8. /\ \A q \in Procs \ {p} : ~foreign'[q] /\ ~degraded'[q]
             => rowCount'[q] = Cardinality(Backend!Stored(rows'))
      /\ \A q \in Procs \ {p} : pending'[q] # None =>
             /\ ~degraded'[q]
             /\ ~foreign'[q] => (pending'[q].existed <=> rows'[pending'[q].key] # None)
    <2>1. \A q \in Procs \ {p} : degraded'[q] = degraded[q] /\ rowCount'[q] = rowCount[q]
                                 /\ pending'[q] = pending[q]
        BY <1>1, <1>2
    <2> QED BY <1>5, <1>6, <2>1, OthersExact
<1>9. Backend!ExactWhenAlone'
    <2> SUFFICES ASSUME NEW q \in Procs, ~foreign'[q], ~degraded'[q]
                 PROVE  rowCount'[q] = Cardinality(Backend!Stored(rows'))
        BY BackendCardinality DEF Backend!ExactWhenAlone
    <2>1. CASE q = p
        <3>1. Backend!CountedRows(p) = all
            BY <1>3, <1>6, <2>1
        <3> QED BY <1>1, <1>5, <2>1, <3>1
    <2> QED BY <1>8, <2>1
<1>10. ProbeTrue'
    BY <1>2, <1>8 DEF ProbeTrue
<1>11. NoteCounted'
    BY <1>2 DEF BackendInv, NoteCounted
<1>12. ASSUME rows'[k] = None, ~foreign[p], ~(pending[p].created + Ttl < now)
       PROVE  Cardinality({j \in Backend!Stored(rows) \ {k} : rows[j] >= pending[p].created}) >= MaxRows
    <2> DEFINE younger == {j \in Backend!Stored(rows) \ {k} : rows[j] >= pending[p].created}
    <2>1. Backend!Put(p)[k] = pending[p].created /\ pending[p].created # None
        BY <1>3 DEF Backend!Put, k
    <2>2. put[k] = pending[p].created
        BY <1>3, <1>12, <2>1 DEF put, Backend!PutAndPurge, Backend!Without, Backend!Expired
    <2>3. k \in gone
        BY <1>1, <1>3, <1>12, <2>1, <2>2 DEF Backend!Without
    <2>4. \A j \in Backend!Stored(put) : j # k => rows[j] # None /\ put[j] = rows[j] /\ j \in RowKeys
        BY <1>3 DEF Backend!Stored, put, Backend!PutAndPurge, Backend!Without, Backend!Put, k
    <2>5. Backend!Stored(put) \ gone \subseteq younger
        <3> SUFFICES ASSUME NEW j \in Backend!Stored(put) \ gone
                     PROVE  j \in younger
            OBVIOUS
        <3>1. j # k /\ rows[j] # None /\ put[j] = rows[j] /\ j \in RowKeys /\ put[k] <= put[j]
            BY <1>4, <2>3, <2>4
        <3>2. rows[j] >= pending[p].created
            BY <1>3, <2>2, <3>1
        <3> QED BY <3>1, <3>2 DEF Backend!Stored
    <2>6. Cardinality(gone) # 0
        <3>1. IsFiniteSet(gone)
            BY <1>3, <1>4, TableCounted, FS_Subset
        <3> QED BY <2>3, <3>1, FS_EmptySet
    <2>7. all - Cardinality(gone) = MaxRows
        <3>1. n = all - MaxRows
            BY <1>3, <1>12 DEF n
        <3> QED BY <1>4, <1>5, <2>6, <3>1 DEF Backend!MinOf, Backend!MaxOf
    <2>8. IsFiniteSet(younger) /\ Cardinality(Backend!Stored(put) \ gone) <= Cardinality(younger)
        <3>1. younger \subseteq RowKeys
            BY DEF Backend!Stored
        <3>2. IsFiniteSet(younger)
            BY <3>1, FS_Subset
        <3> HIDE DEF younger
        <3> QED BY <2>5, <3>2, FS_Subset
    <2>9. Cardinality(younger) \in Nat
        BY <2>8, FS_CardinalityType
    <2> HIDE DEF younger
    <2>10. Cardinality(younger) >= MaxRows
        BY <1>5, <2>7, <2>8, <2>9
    <2> QED BY <2>10 DEF younger
<1>13. Backend!CommitIsRead(p)
    <2>1. memory'[p][k] = None
        BY <1>2, <1>3 DEF Backend!Entries
    <2> QED BY <1>12, <2>1, BackendCardinality DEF Backend!CommitIsRead, k
<1> QED BY <1>7, <1>9, <1>10, <1>11, <1>13 DEF BackendInv

LEMMA FaultCounted ==
    ASSUME Backend!SqliteAssumption, BackendInv, Backend!Fault \/ UNCHANGED faults
    PROVE  faults' \in 0..MaxFaults
BY BackendTyped DEF Backend!Fault

\* A process that takes rows out of the file keeps counting them, if its count is the
\* number of those it leaves.
LEMMA BackendRemove ==
    ASSUME Backend!SqliteAssumption, BackendInv, NEW p \in Procs, NEW fromFile, NEW fromMemory,
           NEW held \in Int, NEW reached \in BOOLEAN,
           Backend!Remove(p, fromFile, fromMemory, held, reached),
           ~foreign[p] /\ reached => held = Cardinality(Backend!Stored(Backend!Without(rows, fromFile))),
           counter' \in Nat, tally' \in [Procs -> Nat], noted' \in Nat, NoteCounted'
    PROVE  BackendInv'
<1> USE BackendTyped
<1>1. /\ pending[p] = None /\ (reached => ~degraded[p])
      /\ faults' \in 0..MaxFaults
      /\ rows' = IF reached THEN Backend!Without(rows, fromFile) ELSE rows
      /\ rowCount' = [rowCount EXCEPT ![p] = IF reached THEN held ELSE rowCount[p]]
      /\ memory' = [memory EXCEPT ![p] = Backend!Without(memory[p], fromMemory)]
      /\ Backend!Unseen(p, rows', FALSE)
      /\ UNCHANGED <<now, degraded, putCount, pending>>
    <2>1. faults' \in 0..MaxFaults
        BY FaultCounted DEF Backend!Remove
    <2> QED BY ONLY <2>1, Backend!Remove(p, fromFile, fromMemory, held, reached) DEF Backend!Remove,
               Backend!Idle
<1>2. /\ rows' \in [RowKeys -> Backend!Times \cup {None}]
      /\ Backend!Without(memory[p], fromMemory) \in Backend!Entries
    BY <1>1 DEF Backend!Without, Backend!Entries
<1>3. /\ foreign' \in [Procs -> BOOLEAN]
      /\ foreign'[p] <=> foreign[p]
      /\ \A q \in Procs \ {p} : ~foreign'[q] =>
             ~foreign[q] /\ Backend!Stored(rows') = Backend!Stored(rows)
    BY <1>1, <1>2, Disturbed
<1>4. Backend!TypeOK'
    BY <1>1, <1>2, <1>3 DEF Backend!TypeOK, Backend!Entries
<1>5. \A q \in Procs \ {p} : degraded'[q] = degraded[q] /\ rowCount'[q] = rowCount[q]
                             /\ pending'[q] = pending[q]
    BY <1>1
<1>6. /\ \A q \in Procs \ {p} : ~foreign'[q] /\ ~degraded'[q]
             => rowCount'[q] = Cardinality(Backend!Stored(rows'))
      /\ \A q \in Procs \ {p} : pending'[q] # None =>
             /\ ~degraded'[q]
             /\ ~foreign'[q] => (pending'[q].existed <=> rows'[pending'[q].key] # None)
    BY <1>2, <1>3, <1>5, OthersExact
<1>7. ~foreign'[p] /\ ~degraded'[p] => rowCount'[p] = Cardinality(Backend!Stored(rows'))
    <2>1. CASE reached
        BY <1>1, <1>3, <2>1
    <2>2. CASE ~reached
        BY <1>1, <1>3, <2>2, BackendCardinality DEF BackendInv, Backend!ExactWhenAlone
    <2> QED BY <2>1, <2>2
<1>8. Backend!ExactWhenAlone'
    BY <1>6, <1>7, BackendCardinality DEF Backend!ExactWhenAlone
<1>9. ProbeTrue'
    BY <1>1, <1>6 DEF ProbeTrue
<1> QED BY <1>4, <1>8, <1>9 DEF BackendInv

LEMMA BackendDelete ==
    ASSUME Backend!SqliteAssumption, BackendInv, NEW p \in Procs, NEW k \in RowKeys, NEW reached \in BOOLEAN,
           Backend!Delete(p, k, reached)
    PROVE  BackendInv'
<1> USE BackendTyped
<1> DEFINE held == IF rows[k] # None THEN rowCount[p] - 1 ELSE rowCount[p]
<1>1. Backend!Remove(p, {k}, {k}, held, reached) /\ UNCHANGED <<counter, tally, noted>>
    BY DEF Backend!Delete
<1>2. ASSUME ~foreign[p], reached
      PROVE  held = Cardinality(Backend!Stored(Backend!Without(rows, {k})))
    <2>1. rowCount[p] = Cardinality(Backend!Stored(rows))
        BY <1>1, <1>2, BackendCardinality DEF Backend!Remove, BackendInv, Backend!ExactWhenAlone
    <2>2. Backend!Stored(Backend!Without(rows, {k})) = Backend!Stored(rows) \ {k}
        BY DEF Backend!Stored, Backend!Without
    <2>3. IsFiniteSet(Backend!Stored(rows))
        BY TableCounted
    <2>4. k \in Backend!Stored(rows) <=> rows[k] # None
        BY DEF Backend!Stored
    <2>5. Cardinality(Backend!Stored(rows) \ {k}) =
              IF k \in Backend!Stored(rows) THEN Cardinality(Backend!Stored(rows)) - 1
                                            ELSE Cardinality(Backend!Stored(rows))
        BY <2>3, FS_RemoveElement
    <2> QED BY ONLY <2>1, <2>2, <2>4, <2>5
<1>3. held \in Int
    OBVIOUS
<1>4. NoteCounted' /\ counter' \in Nat /\ tally' \in [Procs -> Nat] /\ noted' \in Nat
    BY <1>1 DEF BackendInv, NoteCounted
<1> HIDE DEF held
<1> QED BY <1>1, <1>2, <1>3, <1>4, BackendRemove

LEMMA BackendPurge ==
    ASSUME Backend!SqliteAssumption, BackendInv, NEW p \in Procs, NEW reached \in BOOLEAN,
           Backend!PurgeExpired(p, reached)
    PROVE  BackendInv'
<1> USE BackendTyped
<1> DEFINE gone == Backend!Expired(rows)
           held == rowCount[p] - Cardinality(gone)
<1>1. /\ Backend!Remove(p, gone, Backend!Expired(memory[p]), held, reached)
      /\ UNCHANGED <<counter, tally, noted>>
    BY BackendCardinality DEF Backend!PurgeExpired
<1>2. /\ gone \subseteq Backend!Stored(rows) /\ Cardinality(gone) \in Nat
      /\ Cardinality(Backend!Stored(Backend!Without(rows, gone))) = Cardinality(Backend!Stored(rows)) - Cardinality(gone)
    <2>1. gone \subseteq Backend!Stored(rows)
        BY DEF Backend!Expired
    <2> HIDE DEF gone
    <2> QED BY <2>1, TableCounted
<1> HIDE DEF gone
<1>3. ~foreign[p] /\ reached => held = Cardinality(Backend!Stored(Backend!Without(rows, gone)))
    BY <1>1, <1>2, BackendCardinality DEF Backend!Remove, BackendInv, Backend!ExactWhenAlone
<1>4. held \in Int
    BY <1>2
<1>5. NoteCounted' /\ counter' \in Nat /\ tally' \in [Procs -> Nat] /\ noted' \in Nat
    BY <1>1 DEF BackendInv, NoteCounted
<1> HIDE DEF held
<1> QED BY <1>1, <1>3, <1>4, <1>5, BackendRemove

LEMMA BackendClear ==
    ASSUME Backend!SqliteAssumption, BackendInv, NEW p \in Procs, NEW reached \in BOOLEAN,
           Backend!Clear(p, reached)
    PROVE  BackendInv'
<1> USE BackendTyped
<1>1. /\ Backend!Remove(p, RowKeys, RowKeys, 0, reached)
      /\ counter' = IF reached THEN 0 ELSE counter
      /\ noted' = IF reached THEN 0 ELSE noted
      /\ tally' = [tally EXCEPT ![p] = 0]
    BY DEF Backend!Clear
<1>2. 0 = Cardinality(Backend!Stored(Backend!Without(rows, RowKeys)))
    <2>1. Backend!Stored(Backend!Without(rows, RowKeys)) = {}
        BY DEF Backend!Stored, Backend!Without
    <2> QED BY <2>1, FS_EmptySet
<1>3. NoteCounted' /\ counter' \in Nat /\ tally' \in [Procs -> Nat] /\ noted' \in Nat
    BY <1>1 DEF BackendInv, NoteCounted
<1> QED BY <1>1, <1>2, <1>3, BackendRemove

LEMMA BackendRestart ==
    ASSUME Backend!SqliteAssumption, BackendInv, NEW p \in Procs, NEW opened \in BOOLEAN,
           Backend!Restart(p, opened)
    PROVE  BackendInv'
<1> USE BackendTyped
<1>1. /\ faults' \in 0..MaxFaults
      /\ rows' = IF opened THEN Backend!Without(rows, Backend!Expired(rows)) ELSE rows
      /\ rowCount' = [rowCount EXCEPT ![p] = IF opened THEN Cardinality(Backend!Stored(rows')) ELSE 0]
      /\ degraded' = [degraded EXCEPT ![p] = ~opened]
      /\ memory' = [memory EXCEPT ![p] = Backend!Empty]
      /\ tally' = [tally EXCEPT ![p] = 0]
      /\ putCount' = [putCount EXCEPT ![p] = 0]
      /\ pending' = [pending EXCEPT ![p] = None]
      /\ Backend!Unseen(p, rows', opened)
      /\ UNCHANGED <<now, counter, noted>>
    <2>1. faults' \in 0..MaxFaults
        BY FaultCounted DEF Backend!Restart
    <2> QED BY ONLY <2>1, Backend!Restart(p, opened), BackendCardinality DEF Backend!Restart
<1>2. rows' \in [RowKeys -> Backend!Times \cup {None}]
    BY <1>1 DEF Backend!Without
<1>3. Cardinality(Backend!Stored(rows')) \in Nat
    BY <1>2, TableCounted
<1>4. /\ foreign' \in [Procs -> BOOLEAN]
      /\ \A q \in Procs \ {p} : ~foreign'[q] =>
             ~foreign[q] /\ Backend!Stored(rows') = Backend!Stored(rows)
    BY <1>1, <1>2, Disturbed
<1>5. Backend!TypeOK'
    <2>1. memory' \in [Procs -> Backend!Entries]
        BY <1>1 DEF Backend!Empty, Backend!Entries
    <2>2. rowCount' \in [Procs -> Int] /\ putCount' \in [Procs -> 0..(PurgeEvery - 1)]
        BY <1>1, <1>3
    <2>3. degraded' \in [Procs -> BOOLEAN] /\ tally' \in [Procs -> Nat]
          /\ pending' \in [Procs -> Backend!Pending \cup {None}]
        BY <1>1
    <2> QED BY <1>1, <1>2, <1>4, <2>1, <2>2, <2>3 DEF Backend!TypeOK, Backend!Entries
<1>6. \A q \in Procs \ {p} : degraded'[q] = degraded[q] /\ rowCount'[q] = rowCount[q]
                             /\ pending'[q] = pending[q]
    BY <1>1
<1>7. /\ \A q \in Procs \ {p} : ~foreign'[q] /\ ~degraded'[q]
             => rowCount'[q] = Cardinality(Backend!Stored(rows'))
      /\ \A q \in Procs \ {p} : pending'[q] # None =>
             /\ ~degraded'[q]
             /\ ~foreign'[q] => (pending'[q].existed <=> rows'[pending'[q].key] # None)
    BY <1>2, <1>4, <1>6, OthersExact
<1>8. ~degraded'[p] => rowCount'[p] = Cardinality(Backend!Stored(rows'))
    BY <1>1
<1>9. Backend!ExactWhenAlone'
    BY <1>7, <1>8, BackendCardinality DEF Backend!ExactWhenAlone
<1>10. ProbeTrue'
    BY <1>1, <1>7 DEF ProbeTrue
<1>11. NoteCounted'
    BY <1>1 DEF BackendInv, NoteCounted
<1> QED BY <1>5, <1>9, <1>10, <1>11 DEF BackendInv

LEMMA BackendProbe ==
    ASSUME Backend!SqliteAssumption, BackendInv, NEW p \in Procs, NEW k \in RowKeys, NEW created \in 0..now,
           Backend!Probe(p, k, created)
    PROVE  BackendInv'
<1> USE BackendTyped
<1> DEFINE probed == [key |-> k, created |-> created, existed |-> rows[k] # None]
<1>1. /\ ~degraded[p] /\ faults' \in 0..MaxFaults
      /\ pending' = [pending EXCEPT ![p] = probed]
      /\ UNCHANGED <<now, rows, counter, memory, tally, degraded, rowCount, putCount, noted, foreign>>
    BY DEF Backend!Probe, Backend!Fault
<1>2. probed \in Backend!Pending
    BY DEF Backend!Pending, Backend!Times
<1>3. Backend!TypeOK'
    BY <1>1, <1>2 DEF Backend!TypeOK, Backend!Entries
<1>4. Backend!ExactWhenAlone' /\ NoteCounted'
    BY <1>1 DEF BackendInv, Backend!ExactWhenAlone, NoteCounted, Backend!Stored
<1>5. ProbeTrue'
    <2> SUFFICES ASSUME NEW q \in Procs, pending'[q] # None
                 PROVE  /\ ~degraded'[q]
                        /\ ~foreign'[q] => (pending'[q].existed <=> rows'[pending'[q].key] # None)
        BY DEF ProbeTrue
    <2>1. CASE q = p
        BY <1>1, <2>1
    <2>2. CASE q # p
        BY <1>1, <2>2 DEF BackendInv, ProbeTrue
    <2> QED BY <2>1, <2>2
<1> QED BY <1>3, <1>4, <1>5 DEF BackendInv

\* What touches neither the rows nor a process's count of them.
LEMMA BackendAside ==
    ASSUME Backend!SqliteAssumption, BackendInv,
           UNCHANGED <<rows, rowCount, foreign, putCount>>,
           now' \in Backend!Times, counter' \in Nat, memory' \in [Procs -> Backend!Entries],
           tally' \in [Procs -> Nat], degraded' \in [Procs -> BOOLEAN], noted' \in Nat,
           faults' \in 0..MaxFaults,
           pending' \in [Procs -> Backend!Pending \cup {None}],
           \A q \in Procs : degraded[q] => degraded'[q],
           \A q \in Procs : pending'[q] # None => pending'[q] = pending[q] /\ degraded'[q] = degraded[q],
           NoteCounted'
    PROVE  BackendInv'
<1>1. Backend!TypeOK'
    BY BackendTyped DEF Backend!TypeOK, Backend!Entries
<1>2. Backend!Stored(rows)' = Backend!Stored(rows)
    BY DEF Backend!Stored
<1>3. Backend!ExactWhenAlone'
    BY <1>2, BackendTyped DEF BackendInv, Backend!ExactWhenAlone
<1>4. ProbeTrue'
    BY BackendTyped DEF BackendInv, ProbeTrue
<1> QED BY <1>1, <1>3, <1>4 DEF BackendInv

LEMMA BackendStep ==
    ASSUME Backend!SqliteAssumption, BackendInv, [Backend!Next]_(Backend!vars)
    PROVE  BackendInv'
<1> USE BackendTyped
<1>1. ASSUME NEW p \in Procs, NEW k \in RowKeys, NEW created \in 0..now, Backend!SetDegraded(p, k, created)
      PROVE  BackendInv'
    <2>1. /\ memory' = [memory EXCEPT ![p] = [memory[p] EXCEPT ![k] = created]]
          /\ UNCHANGED <<now, rows, counter, tally, degraded, rowCount, putCount, pending, noted, foreign, faults>>
        BY <1>1 DEF Backend!SetDegraded
    <2>2. memory' \in [Procs -> Backend!Entries]
        BY <2>1 DEF Backend!Entries, Backend!Times
    <2>3. NoteCounted'
        BY <2>1 DEF BackendInv, NoteCounted
    <2> QED BY <2>1, <2>2, <2>3, BackendAside
<1>2. ASSUME NEW p \in Procs, NEW degrade \in BOOLEAN, Backend!SetFailsOpen(p, degrade)
      PROVE  BackendInv'
    <2>1. /\ pending[p] # None /\ faults' \in 0..MaxFaults
          /\ memory' = [memory EXCEPT ![p] = [memory[p] EXCEPT ![pending[p].key] = pending[p].created]]
          /\ degraded' = [degraded EXCEPT ![p] = degrade]
          /\ pending' = [pending EXCEPT ![p] = None]
          /\ UNCHANGED <<now, rows, counter, tally, rowCount, putCount, noted, foreign>>
        BY <1>2 DEF Backend!SetFailsOpen, Backend!Fault, Backend!Idle
    <2>2. memory' \in [Procs -> Backend!Entries] /\ ~degraded[p]
        BY <2>1 DEF Backend!Entries, Backend!Pending, BackendInv, ProbeTrue
    <2>3. NoteCounted'
        BY <2>1 DEF BackendInv, NoteCounted
    <2> QED BY <2>1, <2>2, <2>3, BackendAside
<1>3. ASSUME NEW p \in Procs, Backend!Increment(p)
      PROVE  BackendInv'
    <2>1. /\ counter' = counter + 1
          /\ noted' = IF counter' = 1 THEN noted + 1 ELSE noted
          /\ UNCHANGED <<now, rows, foreign, faults, memory, tally, degraded, rowCount, putCount, pending>>
        BY <1>3 DEF Backend!Increment, Backend!perProcess
    <2>2. NoteCounted' /\ counter' \in Nat /\ noted' \in Nat
        BY <2>1 DEF BackendInv, NoteCounted
    <2> QED BY <2>1, <2>2, BackendAside
<1>4. ASSUME NEW p \in Procs, Backend!IncrementFailsOpen(p)
      PROVE  BackendInv'
    <2>1. /\ faults' \in 0..MaxFaults /\ tally' = [tally EXCEPT ![p] = tally[p] + 1]
          /\ UNCHANGED <<now, rows, counter, memory, degraded, rowCount, putCount, pending, noted, foreign>>
        BY <1>4 DEF Backend!IncrementFailsOpen, Backend!Fault
    <2>2. NoteCounted' /\ tally' \in [Procs -> Nat]
        BY <2>1 DEF BackendInv, NoteCounted
    <2> QED BY <2>1, <2>2, BackendAside
<1>5. ASSUME NEW p \in Procs, Backend!Degrade(p)
      PROVE  BackendInv'
    <2>1. /\ faults' \in 0..MaxFaults /\ pending[p] = None
          /\ degraded' = [degraded EXCEPT ![p] = TRUE]
          /\ UNCHANGED <<now, rows, counter, memory, tally, rowCount, putCount, pending, noted, foreign>>
        BY <1>5 DEF Backend!Degrade, Backend!Fault, Backend!Idle
    <2>2. NoteCounted'
        BY <2>1 DEF BackendInv, NoteCounted
    <2> QED BY <2>1, <2>2, BackendAside
<1>6. ASSUME Backend!Tick
      PROVE  BackendInv'
    <2>1. /\ now' \in Backend!Times
          /\ UNCHANGED <<rows, counter, memory, tally, degraded, rowCount, putCount, pending, noted, foreign, faults>>
        BY <1>6 DEF Backend!Tick, Backend!perProcess, Backend!Times
    <2>2. NoteCounted'
        BY <2>1 DEF BackendInv, NoteCounted
    <2> QED BY <2>1, <2>2, BackendAside
<1>7. ASSUME UNCHANGED Backend!vars
      PROVE  BackendInv'
    <2>1. UNCHANGED <<now, rows, counter, memory, tally, degraded, rowCount, putCount, pending, noted, foreign, faults>>
        BY <1>7 DEF Backend!vars
    <2>2. NoteCounted'
        BY <2>1 DEF BackendInv, NoteCounted
    <2> QED BY <2>1, <2>2, BackendAside
<1> QED BY ONLY Backend!SqliteAssumption, BackendInv, [Backend!Next]_(Backend!vars),
        <1>1, <1>2, <1>3, <1>4, <1>5, <1>6, <1>7, BackendCommit, BackendDelete, BackendPurge, BackendClear,
        BackendRestart, BackendProbe DEF Backend!Next

LEMMA BackendInit ==
    ASSUME Backend!SqliteAssumption, Backend!Init
    PROVE  BackendInv
<1>1. Backend!TypeOK
    BY DEF Backend!Init, Backend!TypeOK, Backend!SqliteAssumption, Backend!Empty, Backend!Entries,
       Backend!Times
<1>2. Backend!Stored(rows) = {}
    BY DEF Backend!Init, Backend!Empty, Backend!Stored
<1>3. Backend!ExactWhenAlone
    BY <1>2, FS_EmptySet, BackendCardinality DEF Backend!Init, Backend!ExactWhenAlone
<1>4. ProbeTrue /\ NoteCounted
    BY DEF Backend!Init, ProbeTrue, NoteCounted
<1> QED BY <1>1, <1>3, <1>4 DEF BackendInv

BackendPart == part = "backend" => BackendInv

LEMMA BackendPartInit == Init => BackendPart
BY PartInit, BackendInit, SharingAssumption DEF BackendPart

LEMMA BackendPartStep == BackendPart /\ [Next]_vars => BackendPart'
BY PartStep, BackendStep, SharingAssumption DEF BackendPart

\* The durable file under any number of processes, keys, faults and restarts: a process's
\* row counter is exact as long as nobody else changes the set of rows, and the first-run
\* note is written at most once for a lifetime of the counters.
THEOREM CountersExact ==
    Spec => [](NoteOnce /\ (part = "backend" => Backend!ExactWhenAlone))
<1>1. BackendPart => NoteOnce /\ (part = "backend" => Backend!ExactWhenAlone)
    BY DEF BackendPart, BackendInv, NoteCounted, NoteOnce, Backend!NoteOnce
<1> QED BY <1>1, BackendPartInit, BackendPartStep, PTL DEF Spec

\* A put that reports its entry durable leaves no older copy in the fallback and its row
\* in the file, unless the row is expired, a cap's worth of rows are no older, or another
\* process has removed rows unseen.
THEOREM WritesAlwaysRead ==
    Spec => WriteIsRead
<1>1. BackendPart /\ [Next]_vars => [part = "backend" => \A p \in Procs : Backend!CommitIsRead(p)]_vars
    <2> SUFFICES ASSUME BackendPart, Next, part = "backend", NEW p \in Procs PROVE Backend!CommitIsRead(p)
        OBVIOUS
    <2> QED BY BackendCommit, SharingAssumption DEF BackendPart, Backend!CommitIsRead
<1> QED BY <1>1, BackendPartInit, BackendPartStep, PTL DEF Spec, WriteIsRead

-----------------------------------------------------------------------------
(* SqliteBackend: the cap on the rows, however the processes' counts drift.   *)

\* What decides how far the file may outgrow the cap: the rows in it, and per process
\* whether a probed row has gone since, whether it is degraded, its count and its puts.
Books ==
    [rows : Nat, race : [Procs -> {0, 1}], degraded : [Procs -> BOOLEAN],
     count : [Procs -> Int], puts : [Procs -> 0..(PurgeEvery - 1)]]

\* A process whose count does not exceed the cap, and one whose count does: the latter has
\* opened a file of more rows than the cap, and evicts what it puts.
Watching(b, p) == ~b.degraded[p] /\ b.count[p] <= MaxRows
Surplus(b, p) == ~b.degraded[p] /\ b.count[p] > MaxRows

\* One slot for each put a process can make between two of its recounts.
Slots == Procs \X (1..(PurgeEvery - 1))
SlotsBound == (Cardinality(Procs) - 1) * (PurgeEvery - 1)

\* The puts of others that p may not have counted: of one that degraded, of one that
\* opened the file after p, and those a watching one made since its recount.
Charged(b, after, p) ==
    {s \in Slots : /\ s[1] # p
                   /\ \/ b.degraded[s[1]]
                      \/ Surplus(b, s[1]) /\ <<p, s[1]>> \in after
                      \/ Watching(b, s[1]) /\ s[2] <= b.puts[s[1]]}

\* The puts the watching processes can still make.
Unspent(b) == {s \in Slots : Watching(b, s[1]) /\ s[2] > b.puts[s[1]]}

\* p has counted all rows but those charged to others.
Covered(b, after, p) == b.rows + b.race[p] - b.count[p] <= Cardinality(Charged(b, after, p))

\* In which order the processes over the cap have opened the file.
Orders == {after \in SUBSET (Procs \X Procs) :
               /\ \A p \in Procs : <<p, p>> \notin after
               /\ \A p, q, r \in Procs : <<p, q>> \in after /\ <<q, r>> \in after => <<p, r>> \in after}

\* The rows the file has, and those it may still get.
Spare(b) == b.rows + Cardinality(Unspent(b)) <= MaxRows + SlotsBound

CoveredSurplus(b, after) == \A p \in Procs : Surplus(b, p) => Covered(b, after, p)

\* The books are in order: each process over the cap accounts for the rows, and so does a
\* watching one, unless there is room for all puts that are still to come.
Balanced(b) ==
    \E after \in Orders :
        /\ CoveredSurplus(b, after)
        /\ Spare(b) \/ \E p \in Procs : Watching(b, p) /\ Covered(b, after, p)

\* The constants' facts the accounts use.
LEMMA BooksBasis ==
    ASSUME Backend!SqliteAssumption
    PROVE  /\ IsFiniteSet(Procs) /\ Procs # {} /\ IsFiniteSet(Slots)
           /\ MaxRows \in Nat \ {0} /\ PurgeEvery \in Nat \ {0}
           /\ Cardinality(Procs) \in Nat /\ SlotsBound \in Int
           /\ \A p \in Procs : LET rest == (Procs \ {p}) \X (1..(PurgeEvery - 1)) IN
                  IsFiniteSet(rest) /\ Cardinality(rest) = SlotsBound
<1>1. /\ IsFiniteSet(Procs) /\ Procs # {}
      /\ MaxRows \in Nat \ {0} /\ PurgeEvery \in Nat \ {0}
    BY BackendFinite DEF Backend!SqliteAssumption
<1> DEFINE places == 1..(PurgeEvery - 1)
<1>2. IsFiniteSet(places) /\ Cardinality(places) = PurgeEvery - 1
    <2>1. 1 \in Int /\ PurgeEvery - 1 \in Int
        BY <1>1
    <2>2. IsFiniteSet(places)
          /\ Cardinality(places) = IF 1 > PurgeEvery - 1 THEN 0 ELSE (PurgeEvery - 1) - 1 + 1
        BY <2>1, FS_Interval
    <2> HIDE DEF places
    <2> QED BY <1>1, <2>2
<1>3. Cardinality(Procs) \in Nat
    BY <1>1, FS_CardinalityType
<1> HIDE DEF places
<1>4. IsFiniteSet(Procs \X places)
    BY <1>1, <1>2, FS_Product
<1>5. SlotsBound \in Int
    BY <1>1, <1>3 DEF SlotsBound
<1>6. ASSUME NEW p \in Procs
      PROVE  IsFiniteSet((Procs \ {p}) \X places) /\ Cardinality((Procs \ {p}) \X places) = SlotsBound
    <2>1. IsFiniteSet(Procs \ {p}) /\ Cardinality(Procs \ {p}) = Cardinality(Procs) - 1
        BY <1>1, FS_RemoveElement
    <2>2. IsFiniteSet((Procs \ {p}) \X places)
          /\ Cardinality((Procs \ {p}) \X places) = Cardinality(Procs \ {p}) * Cardinality(places)
        BY <1>2, <2>1, FS_Product
    <2> QED BY <1>2, <2>1, <2>2 DEF SlotsBound
<1> QED BY <1>1, <1>3, <1>4, <1>5, <1>6 DEF Slots, places

LEMMA BookTyped ==
    ASSUME NEW b \in Books
    PROVE  /\ b.rows \in Nat
           /\ \A p \in Procs : /\ b.race[p] \in {0, 1} /\ b.degraded[p] \in BOOLEAN
                               /\ b.count[p] \in Int /\ b.puts[p] \in 0..(PurgeEvery - 1)
BY DEF Books

\* The slots of others are as many as the bound, those charged to p and those unspent.
LEMMA SlotsCounted ==
    ASSUME Backend!SqliteAssumption, NEW b, NEW after, NEW p \in Procs
    PROVE  /\ IsFiniteSet(Charged(b, after, p)) /\ Cardinality(Charged(b, after, p)) \in Nat
           /\ Cardinality(Charged(b, after, p)) <= SlotsBound
           /\ IsFiniteSet(Unspent(b)) /\ Cardinality(Unspent(b)) \in Nat
           /\ ~Watching(b, p) => Cardinality(Unspent(b)) <= SlotsBound
<1> USE BooksBasis
<1> DEFINE rest == (Procs \ {p}) \X (1..(PurgeEvery - 1))
<1>1. IsFiniteSet(rest) /\ Cardinality(rest) = SlotsBound
    OBVIOUS
<1>2. Charged(b, after, p) \subseteq rest
    BY DEF Charged, Slots
<1>3. ~Watching(b, p) => Unspent(b) \subseteq rest
    BY DEF Unspent, Slots
<1>4. Unspent(b) \subseteq Slots
    BY DEF Unspent
<1>5. IsFiniteSet(Unspent(b))
    BY <1>4, FS_Subset
<1> HIDE DEF rest
<1> QED BY <1>1, <1>2, <1>3, <1>5, FS_Subset, FS_CardinalityType

\* The cap, from balanced books.
LEMMA BalancedBounds ==
    ASSUME Backend!SqliteAssumption, NEW b \in Books, Balanced(b)
    PROVE  b.rows <= MaxRows + SlotsBound
<1> USE BooksBasis, BookTyped
<1>1. PICK after \in Orders : Spare(b) \/ \E p \in Procs : Watching(b, p) /\ Covered(b, after, p)
    BY DEF Balanced
<1>2. CASE Spare(b)
    <2>1. Cardinality(Unspent(b)) \in Nat
        BY SlotsCounted
    <2> QED BY <1>2, <2>1 DEF Spare
<1>3. ASSUME NEW p \in Procs, Watching(b, p), Covered(b, after, p)
      PROVE  b.rows <= MaxRows + SlotsBound
    <2>1. /\ Cardinality(Charged(b, after, p)) \in Nat
          /\ Cardinality(Charged(b, after, p)) <= SlotsBound
        BY SlotsCounted
    <2> QED BY <1>3, <2>1 DEF Covered, Watching
<1> QED BY <1>1, <1>2, <1>3

\* With no more rows than the cap, every process over it has counted them all.
LEMMA FewRows ==
    ASSUME Backend!SqliteAssumption, NEW b \in Books, NEW after, b.rows <= MaxRows
    PROVE  CoveredSurplus(b, after)
<1> USE BooksBasis, BookTyped
<1> SUFFICES ASSUME NEW p \in Procs, Surplus(b, p) PROVE Covered(b, after, p)
    BY DEF CoveredSurplus
<1>1. Cardinality(Charged(b, after, p)) \in Nat
    BY SlotsCounted
<1> QED BY <1>1 DEF Covered, Surplus

LEMMA NoOrder == {} \in Orders
BY DEF Orders

\* With no more rows than the cap, the books balance as soon as a process that watches
\* has counted them, or one does not watch.
LEMMA FewBalanced ==
    ASSUME Backend!SqliteAssumption, NEW b \in Books, b.rows <= MaxRows, NEW p \in Procs,
           ~Watching(b, p) \/ b.rows + b.race[p] - b.count[p] <= 0
    PROVE  Balanced(b)
<1> USE BooksBasis, BookTyped
<1>1. CoveredSurplus(b, {})
    BY FewRows
<1>2. CASE ~Watching(b, p)
    <2>1. Cardinality(Unspent(b)) \in Nat /\ Cardinality(Unspent(b)) <= SlotsBound
        BY <1>2, SlotsCounted
    <2>2. Spare(b)
        BY <2>1 DEF Spare
    <2> QED BY <1>1, <2>2, NoOrder DEF Balanced
<1>3. CASE Watching(b, p) /\ b.rows + b.race[p] - b.count[p] <= 0
    <2>1. Cardinality(Charged(b, {}, p)) \in Nat
        BY SlotsCounted
    <2>2. Covered(b, {}, p)
        BY <1>3, <2>1 DEF Covered
    <2> QED BY <1>1, <1>3, <2>2, NoOrder DEF Balanced
<1> QED BY <1>2, <1>3

\* The books of the others stay as they are.
SameOthers(b, c, p) ==
    \A q \in Procs \ {p} :
        c.degraded[q] = b.degraded[q] /\ c.count[q] = b.count[q] /\ c.puts[q] = b.puts[q]

\* What is charged only grows when each slot's process is charged as before.
LEMMA MoreCharged ==
    ASSUME Backend!SqliteAssumption, NEW b, NEW c, NEW after, NEW then, NEW p \in Procs, NEW q \in Procs,
           Charged(b, after, p) \subseteq Charged(c, then, q)
    PROVE  Cardinality(Charged(b, after, p)) <= Cardinality(Charged(c, then, q))
BY SlotsCounted, FS_Subset

\* What is charged to p, and what others can still put, are slots of others.
LEMMA ChargedUnspent ==
    ASSUME Backend!SqliteAssumption, NEW b \in Books, NEW c, NEW after, NEW p \in Procs,
           SameOthers(b, c, p), ~Watching(c, p)
    PROVE  Cardinality(Charged(b, after, p)) + Cardinality(Unspent(c)) <= SlotsBound
<1> USE BooksBasis, BookTyped
<1> DEFINE rest == (Procs \ {p}) \X (1..(PurgeEvery - 1))
           spent == Charged(b, after, p)
           free == Unspent(c)
<1>1. IsFiniteSet(rest) /\ Cardinality(rest) = SlotsBound
    OBVIOUS
<1>2. spent \subseteq rest /\ free \subseteq rest
    BY DEF Charged, Unspent, Slots
<1>3. ASSUME NEW s \in spent, s \in free
      PROVE  FALSE
    <2>1. s[1] \in Procs \ {p} /\ s[2] \in Int
        BY DEF Charged, Slots
    <2>2. Watching(b, s[1]) /\ s[2] > b.puts[s[1]]
        BY <1>3, <2>1 DEF Unspent, Watching, SameOthers
    <2>3. b.degraded[s[1]] \/ Surplus(b, s[1]) \/ s[2] <= b.puts[s[1]]
        BY DEF Charged
    <2>4. b.puts[s[1]] \in Int /\ b.count[s[1]] \in Int
        BY <2>1
    <2> QED BY <2>1, <2>2, <2>3, <2>4 DEF Watching, Surplus
<1>4. IsFiniteSet(spent) /\ IsFiniteSet(free)
    BY SlotsCounted
<1> HIDE DEF rest, spent, free
<1>5. spent \cap free = {}
    BY <1>3
<1>6. IsFiniteSet(spent \cup free)
      /\ Cardinality(spent \cup free) = Cardinality(spent) + Cardinality(free) - Cardinality(spent \cap free)
    BY <1>4, FS_Union
<1>7. Cardinality(spent \cap free) = 0
    BY <1>5, FS_EmptySet
<1>8. Cardinality(spent \cup free) <= Cardinality(rest)
    BY <1>1, <1>2, FS_Subset
<1>9. Cardinality(spent) \in Nat /\ Cardinality(free) \in Nat
    BY <1>4, FS_CardinalityType
<1> QED BY <1>1, <1>6, <1>7, <1>8, <1>9 DEF spent, free

\* A process that stops watching leaves room for the puts still to come, and one that was
\* not watching takes none.
LEMMA StopsWatching ==
    ASSUME Backend!SqliteAssumption, NEW b \in Books, NEW c \in Books, NEW after \in Orders, NEW p \in Procs,
           SameOthers(b, c, p), ~Watching(c, p), c.rows <= b.rows,
           Spare(b) \/ (Watching(b, p) /\ Covered(b, after, p))
    PROVE  Spare(c)
<1> USE BooksBasis, BookTyped
<1>1. Cardinality(Unspent(c)) \in Nat /\ Cardinality(Unspent(b)) \in Nat
      /\ Cardinality(Charged(b, after, p)) \in Nat
    BY SlotsCounted
<1>2. CASE Spare(b)
    <2>1. Unspent(c) \subseteq Unspent(b)
        BY DEF Unspent, Watching, SameOthers, Slots
    <2>2. Cardinality(Unspent(c)) <= Cardinality(Unspent(b))
        BY <2>1, SlotsCounted, FS_Subset
    <2> QED BY <1>1, <1>2, <2>2 DEF Spare
<1>3. CASE Watching(b, p) /\ Covered(b, after, p)
    <2>1. Cardinality(Charged(b, after, p)) + Cardinality(Unspent(c)) <= SlotsBound
        BY ChargedUnspent
    <2> QED BY <1>1, <1>3, <2>1 DEF Spare, Covered, Watching
<1> QED BY <1>2, <1>3

\* A process degrades, or starts degraded: all its puts are charged to the others.
LEMMA DegradesBalanced ==
    ASSUME Backend!SqliteAssumption, NEW b \in Books, NEW c \in Books, NEW p \in Procs, Balanced(b),
           SameOthers(b, c, p), c.degraded[p], c.rows = b.rows,
           \A q \in Procs \ {p} : c.race[q] = b.race[q]
    PROVE  Balanced(c)
<1> USE BooksBasis, BookTyped
<1>1. PICK after \in Orders :
          /\ CoveredSurplus(b, after)
          /\ Spare(b) \/ \E q \in Procs : Watching(b, q) /\ Covered(b, after, q)
    BY DEF Balanced
<1>2. ASSUME NEW q \in Procs \ {p}, Covered(b, after, q)
      PROVE  Covered(c, after, q)
    <2>1. Charged(b, after, q) \subseteq Charged(c, after, q)
        BY DEF Charged, Surplus, Watching, SameOthers, Slots
    <2>2. Cardinality(Charged(b, after, q)) <= Cardinality(Charged(c, after, q))
        BY <2>1, MoreCharged
    <2>3. Cardinality(Charged(b, after, q)) \in Nat /\ Cardinality(Charged(c, after, q)) \in Nat
        BY SlotsCounted
    <2>4. c.race[q] = b.race[q] /\ c.count[q] = b.count[q]
        BY DEF SameOthers
    <2> QED BY <1>2, <2>2, <2>3, <2>4 DEF Covered
<1>3. CoveredSurplus(c, after)
    BY <1>1, <1>2 DEF CoveredSurplus, Surplus, SameOthers
<1>4. ASSUME NEW q \in Procs \ {p}, Watching(b, q), Covered(b, after, q)
      PROVE  Watching(c, q) /\ Covered(c, after, q)
    BY <1>2, <1>4 DEF Watching, SameOthers
<1>5. ~Watching(c, p)
    BY DEF Watching
<1>6. Spare(b) \/ (Watching(b, p) /\ Covered(b, after, p)) => Spare(c)
    BY <1>5, StopsWatching
<1> QED BY <1>1, <1>3, <1>4, <1>6 DEF Balanced

\* A process opens a file of more rows than the cap, after all others that have.
LEMMA OpensBalanced ==
    ASSUME Backend!SqliteAssumption, NEW b \in Books, NEW c \in Books, NEW p \in Procs, Balanced(b),
           SameOthers(b, c, p), Surplus(c, p), c.rows <= b.rows, c.rows + c.race[p] - c.count[p] <= 0,
           \A q \in Procs \ {p} : c.rows + c.race[q] <= b.rows + b.race[q]
    PROVE  Balanced(c)
<1> USE BooksBasis, BookTyped
<1>1. PICK after \in Orders :
          /\ CoveredSurplus(b, after)
          /\ Spare(b) \/ \E q \in Procs : Watching(b, q) /\ Covered(b, after, q)
    BY DEF Balanced
<1> DEFINE last == {e \in after : e[1] # p} \cup {<<q, p>> : q \in Procs \ {p}}
<1>2. \A x, y \in Procs : <<x, y>> \in last <=> x # p /\ (y = p \/ <<x, y>> \in after)
    OBVIOUS
<1>3. last \in Orders
    <2>1. last \in SUBSET (Procs \X Procs)
        BY DEF Orders
    <2> HIDE DEF last
    <2>2. \A q \in Procs : <<q, q>> \notin last
        BY <1>2 DEF Orders
    <2>3. \A q, r, s \in Procs : <<q, r>> \in last /\ <<r, s>> \in last => <<q, s>> \in last
        <3> SUFFICES ASSUME NEW q \in Procs, NEW r \in Procs, NEW s \in Procs,
                            <<q, r>> \in last, <<r, s>> \in last
                     PROVE  <<q, s>> \in last
            OBVIOUS
        <3>1. q # p /\ r # p /\ <<q, r>> \in after /\ (s = p \/ <<r, s>> \in after)
            BY <1>2
        <3>2. <<r, s>> \in after => <<q, s>> \in after
            BY <3>1 DEF Orders
        <3> QED BY <1>2, <3>1, <3>2
    <2> QED BY <2>1, <2>2, <2>3 DEF Orders
<1> HIDE DEF last
<1>4. ASSUME NEW q \in Procs \ {p}, Covered(b, after, q)
      PROVE  Covered(c, last, q)
    <2>1. ASSUME NEW s \in Charged(b, after, q)
          PROVE  s \in Charged(c, last, q)
        <3>1. s \in Slots /\ s[1] # q /\ s[1] \in Procs
            BY DEF Charged, Slots
        <3>2. CASE s[1] = p
            BY <1>2, <3>1, <3>2 DEF Charged
        <3>3. CASE s[1] # p
            <4>1. /\ c.degraded[s[1]] = b.degraded[s[1]] /\ c.count[s[1]] = b.count[s[1]]
                  /\ c.puts[s[1]] = b.puts[s[1]]
                BY <3>1, <3>3 DEF SameOthers
            <4>2. <<q, s[1]>> \in after => <<q, s[1]>> \in last
                BY <1>2, <3>1
            <4> QED BY <3>1, <4>1, <4>2 DEF Charged, Surplus, Watching
        <3> QED BY <3>2, <3>3
    <2>2. Cardinality(Charged(b, after, q)) <= Cardinality(Charged(c, last, q))
        BY <2>1, MoreCharged
    <2>3. Cardinality(Charged(b, after, q)) \in Nat /\ Cardinality(Charged(c, last, q)) \in Nat
        BY SlotsCounted
    <2>4. c.rows + c.race[q] <= b.rows + b.race[q] /\ c.count[q] = b.count[q]
        BY DEF SameOthers
    <2> QED BY <1>4, <2>2, <2>3, <2>4 DEF Covered
<1>5. Covered(c, last, p)
    <2>1. Cardinality(Charged(c, last, p)) \in Nat
        BY SlotsCounted
    <2> QED BY <2>1 DEF Covered
<1>6. CoveredSurplus(c, last)
    BY <1>1, <1>4, <1>5 DEF CoveredSurplus, Surplus, SameOthers
<1>7. ASSUME NEW q \in Procs \ {p}, Watching(b, q), Covered(b, after, q)
      PROVE  Watching(c, q) /\ Covered(c, last, q)
    BY <1>4, <1>7 DEF Watching, SameOthers
<1>8. ~Watching(c, p)
    BY DEF Watching, Surplus
<1>9. Spare(b) \/ (Watching(b, p) /\ Covered(b, after, p)) => Spare(c)
    BY <1>8, StopsWatching
<1> QED BY <1>1, <1>3, <1>6, <1>7, <1>9 DEF Balanced

\* A put of a watching process is charged to the others.
LEMMA PutCharged ==
    ASSUME Backend!SqliteAssumption, NEW b \in Books, NEW c \in Books, NEW after,
           NEW p \in Procs, NEW q \in Procs \ {p}, NEW step \in {0, 1},
           SameOthers(b, c, p), Watching(c, p), c.puts[p] = b.puts[p] + step,
           Watching(b, p) \/ (Surplus(b, p) /\ <<q, p>> \notin after)
    PROVE  Cardinality(Charged(b, after, q)) + step <= Cardinality(Charged(c, after, q))
<1> USE BooksBasis, BookTyped
<1> DEFINE new == <<p, c.puts[p]>>
           old == Charged(b, after, q)
<1>1. old \subseteq Charged(c, after, q)
    <2> SUFFICES ASSUME NEW s \in old PROVE s \in Charged(c, after, q)
        OBVIOUS
    <2>1. s \in Slots /\ s[1] \in Procs /\ s[2] \in Int
        BY DEF Charged, Slots
    <2>2. CASE s[1] = p
        <3>1. Watching(b, p) /\ s[2] <= b.puts[p]
            BY <2>2 DEF Charged, Surplus, Watching
        <3>2. s[2] <= c.puts[p]
            BY <2>1, <3>1
        <3> QED BY <2>1, <2>2, <3>2 DEF Charged
    <2>3. CASE s[1] # p
        BY <2>1, <2>3 DEF Charged, Surplus, Watching, SameOthers
    <2> QED BY <2>2, <2>3
<1>2. Cardinality(old) <= Cardinality(Charged(c, after, q))
    BY <1>1, MoreCharged
<1>3. CASE step = 1
    <2>1. new \in Slots /\ new[1] = p /\ new[2] = c.puts[p] /\ c.puts[p] > b.puts[p]
        BY <1>3 DEF Slots
    <2>2. new \in Charged(c, after, q)
        BY <2>1 DEF Charged
    <2>3. new \notin old
        BY <2>1 DEF Charged, Surplus, Watching
    <2>4. IsFiniteSet(old) /\ Cardinality(old) \in Nat /\ IsFiniteSet(Charged(c, after, q))
        BY SlotsCounted
    <2> HIDE DEF new, old
    <2>5. Cardinality(old \cup {new}) = Cardinality(old) + 1
        BY <2>3, <2>4, FS_AddElement
    <2>6. Cardinality(old \cup {new}) <= Cardinality(Charged(c, after, q))
        BY <1>1, <2>2, <2>4, FS_Subset
    <2> QED BY <1>3, <2>4, <2>5, <2>6 DEF old
<1>4. Cardinality(old) \in Nat
    BY SlotsCounted
<1> QED BY <1>2, <1>3, <1>4

\* A process over the cap comes to watch: from then on it accounts for the rows.
LEMMA WatchesBalanced ==
    ASSUME Backend!SqliteAssumption, NEW b \in Books, NEW c \in Books, NEW p \in Procs, Balanced(b),
           SameOthers(b, c, p), Surplus(b, p), Watching(c, p),
           c.rows + c.race[p] - c.count[p] <= b.rows + b.race[p] - b.count[p],
           NEW step \in {0, 1}, c.puts[p] = b.puts[p] + step,
           \A q \in Procs \ {p} : c.rows + c.race[q] <= b.rows + b.race[q] + step
    PROVE  Balanced(c)
<1> USE BooksBasis, BookTyped
<1>1. PICK after \in Orders : CoveredSurplus(b, after)
    BY DEF Balanced
<1>2. Cardinality(Charged(b, after, p)) \in Nat /\ Cardinality(Charged(c, after, p)) \in Nat
    BY SlotsCounted
<1>3. Covered(c, after, p)
    <2>1. Charged(b, after, p) \subseteq Charged(c, after, p)
        BY DEF Charged, Surplus, Watching, SameOthers, Slots
    <2>2. Cardinality(Charged(b, after, p)) <= Cardinality(Charged(c, after, p))
        BY <2>1, MoreCharged
    <2>3. Covered(b, after, p)
        BY <1>1 DEF CoveredSurplus
    <2> QED BY <1>2, <2>2, <2>3 DEF Covered
<1>4. ASSUME NEW q \in Procs, Surplus(c, q)
      PROVE  Covered(c, after, q)
    <2>1. q # p /\ Surplus(b, q) /\ c.count[q] = b.count[q]
        BY <1>4 DEF Surplus, Watching, SameOthers
    <2>2. Cardinality(Charged(b, after, q)) \in Nat /\ Cardinality(Charged(c, after, q)) \in Nat
        BY SlotsCounted
    <2>3. CASE <<q, p>> \in after
        <3>1. <<p, q>> \notin after
            BY <1>1, <2>3 DEF Orders
        <3>2. ASSUME NEW s \in Charged(c, after, p)
              PROVE  s \in Charged(c, after, q)
            <4>1. s \in Slots /\ s[1] \in Procs
                BY DEF Charged, Slots
            <4>2. s[1] # q
                BY <1>4, <3>1, <4>1 DEF Charged, Surplus, Watching
            <4>3. <<p, s[1]>> \in after => <<q, s[1]>> \in after
                BY <1>1, <2>3, <4>1 DEF Orders
            <4> QED BY <4>1, <4>2, <4>3 DEF Charged
        <3>3. Cardinality(Charged(c, after, p)) <= Cardinality(Charged(c, after, q))
            BY <3>2, MoreCharged
        <3> QED BY <1>2, <1>3, <1>4, <2>2, <3>3 DEF Covered, Surplus, Watching
    <2>4. CASE <<q, p>> \notin after
        <3>1. Cardinality(Charged(b, after, q)) + step <= Cardinality(Charged(c, after, q))
            BY <2>1, <2>4, PutCharged
        <3>2. c.rows + c.race[q] <= b.rows + b.race[q] + step
            BY <2>1
        <3>3. Covered(b, after, q)
            BY <1>1, <2>1 DEF CoveredSurplus
        <3> QED BY <2>1, <2>2, <3>1, <3>2, <3>3 DEF Covered
    <2> QED BY <2>3, <2>4
<1> QED BY <1>1, <1>3, <1>4 DEF Balanced, CoveredSurplus

\* A process stays on its side of the cap, and its count goes with the rows.
LEMMA KeepsBalanced ==
    ASSUME Backend!SqliteAssumption, NEW b \in Books, NEW c \in Books, NEW p \in Procs, Balanced(b),
           SameOthers(b, c, p), c.degraded[p] = b.degraded[p], Surplus(b, p) <=> Surplus(c, p),
           c.puts[p] = b.puts[p], c.rows <= b.rows,
           ~b.degraded[p] => c.rows + c.race[p] - c.count[p] <= b.rows + b.race[p] - b.count[p],
           \A q \in Procs \ {p} : c.rows + c.race[q] <= b.rows + b.race[q]
    PROVE  Balanced(c)
<1> USE BooksBasis, BookTyped
<1>1. PICK after \in Orders :
          /\ CoveredSurplus(b, after)
          /\ Spare(b) \/ \E q \in Procs : Watching(b, q) /\ Covered(b, after, q)
    BY DEF Balanced
<1>2. \A q \in Procs : /\ c.degraded[q] = b.degraded[q] /\ c.puts[q] = b.puts[q]
                       /\ Surplus(c, q) <=> Surplus(b, q)
                       /\ Watching(c, q) <=> Watching(b, q)
    BY DEF SameOthers, Surplus, Watching
<1>3. ASSUME NEW q \in Procs, ~b.degraded[q], Covered(b, after, q)
      PROVE  Covered(c, after, q)
    <2>1. Charged(b, after, q) \subseteq Charged(c, after, q)
        BY <1>2 DEF Charged, Slots
    <2>2. Cardinality(Charged(b, after, q)) <= Cardinality(Charged(c, after, q))
        BY <2>1, MoreCharged
    <2>3. Cardinality(Charged(b, after, q)) \in Nat /\ Cardinality(Charged(c, after, q)) \in Nat
        BY SlotsCounted
    <2>4. c.rows + c.race[q] - c.count[q] <= b.rows + b.race[q] - b.count[q]
        <3>1. CASE q = p
            BY <1>3, <3>1
        <3>2. CASE q # p
            <4>1. c.count[q] = b.count[q] /\ c.rows + c.race[q] <= b.rows + b.race[q]
                BY <3>2 DEF SameOthers
            <4> QED BY <4>1
        <3> QED BY <3>1, <3>2
    <2> QED BY <1>3, <2>2, <2>3, <2>4 DEF Covered
<1>4. CoveredSurplus(c, after)
    BY <1>1, <1>2, <1>3 DEF CoveredSurplus, Surplus
<1>5. ASSUME NEW q \in Procs, Watching(b, q), Covered(b, after, q)
      PROVE  Watching(c, q) /\ Covered(c, after, q)
    BY <1>2, <1>3, <1>5 DEF Watching
<1>6. Spare(b) => Spare(c)
    <2>1. Unspent(c) = Unspent(b)
        BY <1>2 DEF Unspent, Slots
    <2>2. Cardinality(Unspent(b)) \in Nat
        BY SlotsCounted
    <2> QED BY <2>1, <2>2 DEF Spare
<1> QED BY <1>1, <1>4, <1>5, <1>6 DEF Balanced

\* A watching process puts between two recounts.
LEMMA PutsBalanced ==
    ASSUME Backend!SqliteAssumption, NEW b \in Books, NEW c \in Books, NEW p \in Procs, Balanced(b),
           SameOthers(b, c, p), Watching(b, p), Watching(c, p),
           c.puts[p] = b.puts[p] + 1, c.rows <= b.rows + 1,
           c.rows + c.race[p] - c.count[p] <= b.rows + b.race[p] - b.count[p],
           \A q \in Procs \ {p} : c.rows + c.race[q] <= b.rows + b.race[q] + 1
    PROVE  Balanced(c)
<1> USE BooksBasis, BookTyped
<1>1. PICK after \in Orders :
          /\ CoveredSurplus(b, after)
          /\ Spare(b) \/ \E q \in Procs : Watching(b, q) /\ Covered(b, after, q)
    BY DEF Balanced
<1>2. ASSUME NEW q \in Procs, Covered(b, after, q)
      PROVE  Covered(c, after, q)
    <2>1. Cardinality(Charged(b, after, q)) \in Nat /\ Cardinality(Charged(c, after, q)) \in Nat
        BY SlotsCounted
    <2>2. CASE q = p
        <3>1. Charged(b, after, p) \subseteq Charged(c, after, p)
            BY DEF Charged, Surplus, Watching, SameOthers, Slots
        <3>2. Cardinality(Charged(b, after, p)) <= Cardinality(Charged(c, after, p))
            BY <3>1, MoreCharged
        <3> QED BY <1>2, <2>1, <2>2, <3>2 DEF Covered
    <2>3. CASE q # p
        <3>1. Cardinality(Charged(b, after, q)) + 1 <= Cardinality(Charged(c, after, q))
            BY <2>3, PutCharged
        <3>2. c.count[q] = b.count[q] /\ c.rows + c.race[q] <= b.rows + b.race[q] + 1
            BY <2>3 DEF SameOthers
        <3> QED BY <1>2, <2>1, <3>1, <3>2 DEF Covered
    <2> QED BY <2>2, <2>3
<1>3. CoveredSurplus(c, after)
    <2> SUFFICES ASSUME NEW q \in Procs, Surplus(c, q) PROVE Covered(c, after, q)
        BY DEF CoveredSurplus
    <2>1. q # p
        BY DEF Watching, Surplus
    <2>2. Surplus(b, q)
        BY <2>1 DEF Surplus, SameOthers
    <2> QED BY <1>1, <1>2, <2>2 DEF CoveredSurplus
<1>4. ASSUME NEW q \in Procs, Watching(b, q), Covered(b, after, q)
      PROVE  Watching(c, q) /\ Covered(c, after, q)
    <2>1. Watching(c, q)
        BY <1>4 DEF Watching, SameOthers
    <2> QED BY <1>2, <1>4, <2>1
<1>5. Spare(b) => Spare(c)
    <2> DEFINE new == <<p, c.puts[p]>>
    <2>1. new \in Slots /\ new[1] = p /\ new[2] = c.puts[p]
        BY DEF Slots
    <2>2. new \in Unspent(b) /\ new \notin Unspent(c)
        BY <2>1 DEF Unspent
    <2>3. ASSUME NEW s \in Unspent(c)
          PROVE  s \in Unspent(b)
        <3>1. s \in Slots /\ s[1] \in Procs /\ s[2] \in Int
            BY DEF Unspent, Slots
        <3>2. CASE s[1] = p
            BY <3>1, <3>2 DEF Unspent
        <3>3. CASE s[1] # p
            BY <3>1, <3>3 DEF Unspent, Watching, SameOthers
        <3> QED BY <3>2, <3>3
    <2>4. IsFiniteSet(Unspent(b)) /\ Cardinality(Unspent(b)) \in Nat
          /\ IsFiniteSet(Unspent(c)) /\ Cardinality(Unspent(c)) \in Nat
        BY SlotsCounted
    <2> HIDE DEF new
    <2>5. Cardinality(Unspent(c) \cup {new}) = Cardinality(Unspent(c)) + 1
        BY <2>2, <2>4, FS_AddElement
    <2>6. Cardinality(Unspent(c) \cup {new}) <= Cardinality(Unspent(b))
        BY <2>2, <2>3, <2>4, FS_Subset
    <2> QED BY <2>4, <2>5, <2>6 DEF Spare
<1> QED BY <1>1, <1>3, <1>4, <1>5 DEF Balanced

\* The books of a state: a probed row that is gone by the time of the put is counted twice.
ProbedGone(p) == pending[p] # None /\ pending[p].existed /\ rows[pending[p].key] = None

Book ==
    [rows |-> Cardinality(Backend!Stored(rows)),
     race |-> [p \in Procs |-> IF ProbedGone(p) THEN 1 ELSE 0],
     degraded |-> degraded, count |-> rowCount, puts |-> putCount]

LEMMA BookKept ==
    ASSUME Backend!SqliteAssumption, BackendInv
    PROVE  /\ Book \in Books
           /\ Book.rows = Cardinality(Backend!Stored(rows)) /\ Book.rows \in Nat
           /\ Book.degraded = degraded /\ Book.count = rowCount /\ Book.puts = putCount
           /\ \A p \in Procs : /\ Book.race[p] = IF ProbedGone(p) THEN 1 ELSE 0
                               /\ Book.race[p] \in {0, 1}
<1>1. Cardinality(Backend!Stored(rows)) \in Nat
    BY BackendTyped, TableCounted
<1> QED BY <1>1, BackendTyped DEF Book, Books

LEMMA BookNext ==
    ASSUME Backend!SqliteAssumption, BackendInv'
    PROVE  /\ Book' \in Books
           /\ Book'.rows = Cardinality(Backend!Stored(rows')) /\ Book'.rows \in Nat
           /\ Book'.degraded = degraded' /\ Book'.count = rowCount' /\ Book'.puts = putCount'
           /\ \A p \in Procs : /\ Book'.race[p] = IF ProbedGone(p)' THEN 1 ELSE 0
                               /\ Book'.race[p] \in {0, 1}
           /\ rows' \in [RowKeys -> Backend!Times \cup {None}]
<1>1. rows' \in [RowKeys -> Backend!Times \cup {None}]
    BY DEF BackendInv, Backend!TypeOK, Backend!Entries, Backend!Times
<1>2. Cardinality(Backend!Stored(rows')) \in Nat
    BY <1>1, TableCounted
<1>3. /\ degraded' \in [Procs -> BOOLEAN] /\ rowCount' \in [Procs -> Int]
      /\ putCount' \in [Procs -> 0..(PurgeEvery - 1)]
    BY DEF BackendInv, Backend!TypeOK
<1> QED BY <1>1, <1>2, <1>3 DEF Book, Books

\* A probe's finding is overtaken only by a row that goes.
LEMMA RaceKept ==
    ASSUME Backend!SqliteAssumption, BackendInv, BackendInv', NEW q \in Procs, pending'[q] = pending[q],
           Backend!Stored(rows) \subseteq Backend!Stored(rows')
    PROVE  Book'.race[q] <= Book.race[q]
<1>1. ASSUME ProbedGone(q)' PROVE ProbedGone(q)
    <2>1. /\ pending[q] # None /\ pending[q].existed /\ pending[q].key \in RowKeys
          /\ rows'[pending[q].key] = None
        BY <1>1, BackendTyped DEF ProbedGone, Backend!Pending
    <2>2. pending[q].key \notin Backend!Stored(rows)
        BY <2>1 DEF Backend!Stored
    <2> QED BY <2>1, <2>2 DEF Backend!Stored, ProbedGone
<1> QED BY <1>1, BookKept, BookNext

\* Steps that leave the rows and the counts alone.
LEMMA StillBalanced ==
    ASSUME Backend!SqliteAssumption, BackendInv, BackendInv', Balanced(Book),
           UNCHANGED <<rows, rowCount, putCount, degraded>>,
           \A q \in Procs : pending'[q] = pending[q] \/ ~ProbedGone(q)'
    PROVE  Balanced(Book')
<1> USE BookKept, BookNext, BookTyped
<1>1. PICK p \in Procs : TRUE
    BY BooksBasis
<1>2. ASSUME NEW q \in Procs PROVE Book'.race[q] <= Book.race[q]
    <2>1. CASE pending'[q] = pending[q]
        BY <2>1, RaceKept
    <2>2. CASE ~ProbedGone(q)'
        BY <2>2
    <2> QED BY <2>1, <2>2
<1>3. Book'.rows = Book.rows
    OBVIOUS
<1>4. SameOthers(Book, Book', p)
    BY DEF SameOthers
<1>5. Surplus(Book, p) <=> Surplus(Book', p)
    BY DEF Surplus
<1>6. /\ Book.race[p] \in Int /\ Book'.race[p] \in Int /\ Book.count[p] \in Int /\ Book'.count[p] = Book.count[p]
      /\ Book'.race[p] <= Book.race[p]
    BY <1>2
<1>7. Book'.rows + Book'.race[p] - Book'.count[p] <= Book.rows + Book.race[p] - Book.count[p]
    BY <1>3, <1>6
<1>8. \A q \in Procs \ {p} : Book'.rows + Book'.race[q] <= Book.rows + Book.race[q]
    BY <1>2, <1>3
<1> QED BY <1>3, <1>4, <1>5, <1>7, <1>8, KeepsBalanced

\* A set of rows taken from the file by a process that is idle, with its new count.
LEMMA TakesBalanced ==
    ASSUME Backend!SqliteAssumption, BackendInv, BackendInv', Balanced(Book), NEW p \in Procs, NEW gone,
           pending[p] = None, ~degraded[p],
           rows' = Backend!Without(rows, gone),
           rowCount' = [rowCount EXCEPT ![p] = @ - Cardinality(Backend!Stored(rows) \cap gone)],
           UNCHANGED <<degraded, putCount, pending>>
    PROVE  Balanced(Book')
<1> USE BookKept, BookNext, BookTyped
<1> DEFINE taken == Backend!Stored(rows) \cap gone
           x == Cardinality(taken)
<1>1. /\ IsFiniteSet(taken) /\ x \in Nat
      /\ Book'.rows = Book.rows - x
      /\ x = 0 => Backend!Stored(rows') = Backend!Stored(rows)
    <2>1. Backend!Stored(rows') = Backend!Stored(rows) \ taken
        BY DEF Backend!Stored, Backend!Without
    <2>2. taken \in SUBSET Backend!Stored(rows)
        OBVIOUS
    <2>3. IsFiniteSet(Backend!Stored(rows))
        BY BackendTyped, TableCounted
    <2> HIDE DEF taken
    <2>4. IsFiniteSet(taken) /\ Cardinality(taken) \in Nat
          /\ Cardinality(Backend!Stored(rows) \ taken) = Cardinality(Backend!Stored(rows)) - Cardinality(taken)
        <3>1. IsFiniteSet(taken)
            BY <2>2, <2>3, FS_Subset
        <3>2. rows \in [RowKeys -> Backend!Times \cup {None}]
            BY BackendTyped
        <3> QED BY <2>2, <3>1, <3>2, TableCounted
    <2>5. Cardinality(taken) = 0 => taken = {}
        BY <2>4, FS_EmptySet
    <2> QED BY <2>1, <2>4, <2>5
<1> HIDE DEF x
<1>2. ASSUME NEW q \in Procs PROVE Book'.race[q] <= Book.race[q] + x
    <2>1. CASE x = 0
        BY <1>1, <2>1, RaceKept
    <2>2. CASE x # 0
        BY <1>1, <2>2
    <2> QED BY <2>1, <2>2
<1>3. Book.race[p] = 0 /\ Book'.race[p] = 0
    BY DEF ProbedGone
<1>4. /\ rowCount[p] \in Int /\ rowCount'[p] = rowCount[p] - x
      /\ \A q \in Procs \ {p} : rowCount'[q] = rowCount[q]
      /\ Book.count[p] = rowCount[p] /\ Book'.count[p] = rowCount[p] - x
      /\ Book.degraded[p] = FALSE /\ Book'.degraded[p] = FALSE
    <2>1. rowCount' = [rowCount EXCEPT ![p] = rowCount[p] - x]
        BY DEF x
    <2> QED BY <2>1, BackendTyped
<1>5. SameOthers(Book, Book', p)
    BY <1>4 DEF SameOthers
<1>6. \A q \in Procs \ {p} : Book'.rows + Book'.race[q] <= Book.rows + Book.race[q]
    BY <1>1, <1>2
<1>7. Book'.rows + Book'.race[p] - Book'.count[p] <= Book.rows + Book.race[p] - Book.count[p]
    <2>1. Book.rows \in Int
        OBVIOUS
    <2> QED BY ONLY <1>1, <1>3, <1>4, <2>1
<1>8. CASE Surplus(Book, p) <=> Surplus(Book', p)
    BY <1>1, <1>5, <1>6, <1>7, <1>8, KeepsBalanced
<1>9. CASE ~(Surplus(Book, p) <=> Surplus(Book', p))
    <2>1. Surplus(Book, p) /\ Watching(Book', p)
        <3>1. MaxRows \in Int
            BY BooksBasis
        <3> QED BY ONLY <1>1, <1>4, <1>9, <3>1 DEF Surplus, Watching
    <2>2. Book'.puts[p] = Book.puts[p] + 0
        BY BackendTyped
    <2>3. \A q \in Procs \ {p} : Book'.rows + Book'.race[q] <= Book.rows + Book.race[q] + 0
        BY <1>6
    <2> QED BY <1>5, <1>7, <2>1, <2>2, <2>3, WatchesBalanced
<1> QED BY <1>8, <1>9

LEMMA DeleteBalanced ==
    ASSUME Backend!SqliteAssumption, BackendInv, BackendInv', Balanced(Book), NEW p \in Procs,
           NEW k \in RowKeys, NEW reached \in BOOLEAN, Backend!Delete(p, k, reached)
    PROVE  Balanced(Book')
<1> USE BackendTyped
<1> DEFINE held == IF rows[k] # None THEN rowCount[p] - 1 ELSE rowCount[p]
<1>1. /\ pending[p] = None /\ (reached => ~degraded[p])
      /\ rows' = IF reached THEN Backend!Without(rows, {k}) ELSE rows
      /\ rowCount' = [rowCount EXCEPT ![p] = IF reached THEN held ELSE rowCount[p]]
      /\ UNCHANGED <<degraded, putCount, pending>>
    BY DEF Backend!Delete, Backend!Remove, Backend!Idle
<1>2. CASE reached
    <2>1. Backend!Stored(rows) \cap {k} = IF rows[k] # None THEN {k} ELSE {}
        BY DEF Backend!Stored
    <2>2. Cardinality({k}) = 1 /\ Cardinality({}) = 0
        BY FS_Singleton, FS_EmptySet
    <2> DEFINE x == Cardinality(Backend!Stored(rows) \cap {k})
    <2>3. x = IF rows[k] # None THEN 1 ELSE 0
        BY <2>1, <2>2
    <2> HIDE DEF x
    <2>4. rowCount[p] \in Int
        OBVIOUS
    <2>5. held = rowCount[p] - x
        BY ONLY <2>3, <2>4
    <2>6. held = rowCount[p] - Cardinality(Backend!Stored(rows) \cap {k})
        BY ONLY <2>5 DEF x
    <2> HIDE DEF held
    <2> QED BY <1>1, <1>2, <2>6, TakesBalanced
<1>3. CASE ~reached
    BY <1>1, <1>3, StillBalanced
<1> QED BY <1>2, <1>3

LEMMA PurgeBalanced ==
    ASSUME Backend!SqliteAssumption, BackendInv, BackendInv', Balanced(Book), NEW p \in Procs,
           NEW reached \in BOOLEAN, Backend!PurgeExpired(p, reached)
    PROVE  Balanced(Book')
<1> USE BackendTyped
<1> DEFINE gone == Backend!Expired(rows)
<1>1. /\ pending[p] = None /\ (reached => ~degraded[p])
      /\ rows' = IF reached THEN Backend!Without(rows, gone) ELSE rows
      /\ rowCount' = [rowCount EXCEPT ![p] = IF reached THEN rowCount[p] - Cardinality(gone) ELSE rowCount[p]]
      /\ UNCHANGED <<degraded, putCount, pending>>
    BY BackendCardinality DEF Backend!PurgeExpired, Backend!Remove, Backend!Idle
<1>2. Backend!Stored(rows) \cap gone = gone
    BY DEF Backend!Expired
<1> HIDE DEF gone
<1>3. CASE reached
    BY <1>1, <1>2, <1>3, TakesBalanced
<1>4. CASE ~reached
    BY <1>1, <1>4, StillBalanced
<1> QED BY <1>3, <1>4

LEMMA ClearBalanced ==
    ASSUME Backend!SqliteAssumption, BackendInv, BackendInv', Balanced(Book), NEW p \in Procs,
           NEW reached \in BOOLEAN, Backend!Clear(p, reached)
    PROVE  Balanced(Book')
<1> USE BackendTyped
<1>1. /\ pending[p] = None /\ (reached => ~degraded[p])
      /\ rows' = IF reached THEN Backend!Without(rows, RowKeys) ELSE rows
      /\ rowCount' = [rowCount EXCEPT ![p] = IF reached THEN 0 ELSE rowCount[p]]
      /\ UNCHANGED <<degraded, putCount, pending>>
    BY DEF Backend!Clear, Backend!Remove, Backend!Idle
<1>2. CASE reached
    <2>1. Backend!Stored(rows') = {}
        BY <1>1, <1>2 DEF Backend!Stored, Backend!Without
    <2>2. Book'.rows = 0
        BY <2>1, BookNext, FS_EmptySet
    <2>3. Book'.race[p] = 0 /\ Book'.count[p] = 0
        BY <1>1, <1>2, BookNext DEF ProbedGone
    <2> QED BY <2>2, <2>3, BookNext, BooksBasis, FewBalanced
<1>3. CASE ~reached
    BY <1>1, <1>3, StillBalanced
<1> QED BY <1>2, <1>3

LEMMA RestartBalanced ==
    ASSUME Backend!SqliteAssumption, BackendInv, BackendInv', Balanced(Book), NEW p \in Procs,
           NEW opened \in BOOLEAN, Backend!Restart(p, opened)
    PROVE  Balanced(Book')
<1> USE BookKept, BookNext, BookTyped
<1>1. /\ rows' = IF opened THEN Backend!Without(rows, Backend!Expired(rows)) ELSE rows
      /\ rowCount' = [rowCount EXCEPT ![p] = IF opened THEN Cardinality(Backend!Stored(rows')) ELSE 0]
      /\ degraded' = [degraded EXCEPT ![p] = ~opened]
      /\ putCount' = [putCount EXCEPT ![p] = 0]
      /\ pending' = [pending EXCEPT ![p] = None]
    BY BackendCardinality DEF Backend!Restart
<1>2. /\ \A q \in Procs \ {p} : /\ degraded'[q] = degraded[q] /\ rowCount'[q] = rowCount[q]
                                /\ putCount'[q] = putCount[q] /\ pending'[q] = pending[q]
      /\ degraded'[p] = ~opened /\ putCount'[p] = 0 /\ pending'[p] = None
      /\ rowCount'[p] = IF opened THEN Cardinality(Backend!Stored(rows')) ELSE 0
    BY <1>1, BackendTyped
<1>3. SameOthers(Book, Book', p)
    BY <1>2 DEF SameOthers
<1>4. CASE ~opened
    <2>1. rows' = rows
        BY <1>1, <1>4
    <2>2. ASSUME NEW q \in Procs \ {p} PROVE Book'.race[q] = Book.race[q]
        <3>1. ProbedGone(q)' <=> ProbedGone(q)
            BY <1>2, <2>1 DEF ProbedGone
        <3> QED BY <3>1
    <2>3. Book'.rows = Book.rows /\ Book'.degraded[p]
        BY <1>2, <1>4, <2>1
    <2> QED BY <1>3, <2>2, <2>3, DegradesBalanced
<1>5. CASE opened
    <2> DEFINE gone == Backend!Expired(rows)
    <2>1. /\ Book'.rows = Book'.count[p] /\ Book'.race[p] = 0 /\ ~Book'.degraded[p]
        BY <1>2, <1>5 DEF ProbedGone
    <2>2. gone \in SUBSET Backend!Stored(rows)
        BY DEF Backend!Expired
    <2> HIDE DEF gone
    <2>3. rows' = Backend!Without(rows, gone)
        BY <1>1, <1>5 DEF gone
    <2>4. /\ Backend!Stored(rows') = Backend!Stored(rows) \ gone
          /\ IsFiniteSet(gone) /\ Cardinality(gone) \in Nat
          /\ Book'.rows = Book.rows - Cardinality(gone)
        <3>1. rows \in [RowKeys -> Backend!Times \cup {None}]
            BY BackendTyped
        <3>2. IsFiniteSet(Backend!Stored(rows))
            BY <3>1, TableCounted
        <3>3. IsFiniteSet(gone)
            BY <2>2, <3>2, FS_Subset
        <3>4. /\ Backend!Stored(rows') = Backend!Stored(rows) \ gone
              /\ Cardinality(gone) \in Nat
              /\ Cardinality(Backend!Stored(rows) \ gone) = Cardinality(Backend!Stored(rows)) - Cardinality(gone)
            BY <2>2, <2>3, <3>1, TableCounted
        <3>5. /\ Book.rows = Cardinality(Backend!Stored(rows))
              /\ Book'.rows = Cardinality(Backend!Stored(rows'))
            OBVIOUS
        <3> QED BY ONLY <3>3, <3>4, <3>5
    <2>5. ASSUME NEW q \in Procs \ {p} PROVE Book'.race[q] <= Book.race[q] + Cardinality(gone)
        <3>1. pending'[q] = pending[q]
            BY <1>2
        <3>2. CASE gone = {}
            <4>1. Backend!Stored(rows) \subseteq Backend!Stored(rows') /\ Cardinality(gone) = 0
                BY <2>4, <3>2, FS_EmptySet
            <4> QED BY <3>1, <4>1, RaceKept
        <3>3. CASE gone # {}
            <4>1. Cardinality(gone) # 0
                BY <2>4, <3>3, FS_EmptySet
            <4> QED BY <2>4, <4>1
        <3> QED BY <3>2, <3>3
    <2>6. /\ Book'.rows <= Book.rows
          /\ \A q \in Procs \ {p} : Book'.rows + Book'.race[q] <= Book.rows + Book.race[q]
        BY <2>4, <2>5
    <2>7. Book'.rows + Book'.race[p] - Book'.count[p] <= 0
        BY <2>1
    <2>8. CASE Book'.rows <= MaxRows
        BY <2>7, <2>8, FewBalanced
    <2>9. CASE Book'.rows > MaxRows
        <3>1. Surplus(Book', p)
            BY <2>1, <2>9 DEF Surplus
        <3> QED BY <1>3, <2>6, <2>7, <3>1, OpensBalanced
    <2>10. MaxRows \in Nat
        BY BooksBasis
    <2> QED BY <2>8, <2>9, <2>10
<1> QED BY <1>4, <1>5

\* The transaction of a put between two recounts: what it counts of its own row, the probe
\* has told it; its eviction takes as many rows as its count exceeds the cap.
LEMMA CommitBalanced ==
    ASSUME Backend!SqliteAssumption, BackendInv, BackendInv', Balanced(Book), NEW p \in Procs,
           Backend!Commit(p)
    PROVE  Balanced(Book')
<1> USE BookKept, BookNext, BookTyped
<1> DEFINE k == pending[p].key
           put == Backend!PutAndPurge(p)
           n == Backend!CountedRows(p) - MaxRows
           all == Cardinality(Backend!Stored(put))
<1>1. PICK gone \in Backend!OldestSets(put, n) :
          /\ rows' = Backend!Without(put, gone)
          /\ rowCount' = [rowCount EXCEPT ![p] = Backend!CountedRows(p) - Cardinality(gone)]
    BY BackendCardinality DEF Backend!Commit
<1>2. /\ ~Backend!Idle(p)
      /\ putCount' = [putCount EXCEPT ![p] = IF Backend!PurgeNow(p) THEN 0 ELSE putCount[p] + 1]
      /\ pending' = [pending EXCEPT ![p] = None]
      /\ UNCHANGED degraded
    BY DEF Backend!Commit
<1>3. /\ pending[p] \in Backend!Pending /\ k \in RowKeys
      /\ pending[p].created # None /\ pending[p].existed \in BOOLEAN
      /\ put \in [RowKeys -> Backend!Times \cup {None}]
      /\ Backend!CountedRows(p) \in Int
      /\ Backend!PurgeNow(p) => Backend!CountedRows(p) = all
    <2>1. /\ pending[p] \in Backend!Pending /\ k \in RowKeys
          /\ put \in [RowKeys -> Backend!Times \cup {None}]
          /\ Backend!CountedRows(p) \in Int
          /\ Backend!PurgeNow(p) => Backend!CountedRows(p) = all
        BY <1>2, CountsPut
    <2>2. pending[p].created # None /\ pending[p].existed \in BOOLEAN
        <3>1. pending[p].created \in Backend!Times /\ pending[p].existed \in BOOLEAN
            BY <2>1 DEF Backend!Pending
        <3> QED BY <3>1, BackendTyped
    <2> QED BY ONLY <2>1, <2>2
<1>4. /\ gone \subseteq Backend!Stored(put)
      /\ Cardinality(gone) = Backend!MinOf(Backend!MaxOf(n, 0), all)
    BY <1>1, BackendCardinality DEF Backend!OldestSets
<1> HIDE DEF put
<1>5. /\ Backend!Stored(rows') = Backend!Stored(put) \ gone
      /\ IsFiniteSet(gone) /\ Cardinality(gone) \in Nat /\ all \in Nat
      /\ Book'.rows = all - Cardinality(gone)
    <2>1. IsFiniteSet(Backend!Stored(put))
        BY <1>3, TableCounted
    <2>2. IsFiniteSet(gone)
        BY <1>4, <2>1, FS_Subset
    <2>3. /\ Backend!Stored(rows') = Backend!Stored(put) \ gone
          /\ Cardinality(gone) \in Nat /\ all \in Nat
          /\ Cardinality(Backend!Stored(put) \ gone) = all - Cardinality(gone)
        BY <1>1, <1>3, <1>4, TableCounted
    <2>4. Book'.rows = Cardinality(Backend!Stored(rows'))
        OBVIOUS
    <2> QED BY ONLY <2>2, <2>3, <2>4
<1> HIDE DEF all, k
<1>6. /\ \A q \in Procs \ {p} : /\ degraded'[q] = degraded[q] /\ rowCount'[q] = rowCount[q]
                                /\ putCount'[q] = putCount[q] /\ pending'[q] = pending[q]
      /\ rowCount'[p] = Backend!CountedRows(p) - Cardinality(gone)
      /\ putCount'[p] = (IF Backend!PurgeNow(p) THEN 0 ELSE putCount[p] + 1)
      /\ Book'.race[p] = 0 /\ ~degraded[p] /\ ~degraded'[p]
    <2>1. ~degraded[p]
        BY <1>2 DEF BackendInv, ProbeTrue, Backend!Idle
    <2>2. ~ProbedGone(p)'
        BY <1>2, BackendTyped DEF ProbedGone
    <2>3. Book'.race[p] = 0
        BY <2>2
    <2> QED BY <1>1, <1>2, <1>3, <2>1, <2>3, BackendTyped
<1>7. SameOthers(Book, Book', p)
    BY <1>6 DEF SameOthers
<1>8. Book'.count[p] <= MaxRows \/ Book'.rows = 0
    <2>1. MaxRows \in Int /\ Cardinality(gone) = Backend!MinOf(Backend!MaxOf(n, 0), all)
        BY <1>4, BooksBasis DEF all
    <2>2. Book'.count[p] = Backend!CountedRows(p) - Cardinality(gone)
        BY <1>6
    <2> QED BY ONLY <1>3, <1>5, <2>1, <2>2 DEF Backend!MinOf, Backend!MaxOf
<1>9. MaxRows \in Nat
    BY BooksBasis
<1>10. CASE ~Watching(Book', p)
    <2>1. Book'.rows = 0
        BY <1>6, <1>8, <1>10 DEF Watching
    <2> QED BY <1>9, <1>10, <2>1, FewBalanced
<1>11. CASE Watching(Book', p) /\ Backend!PurgeNow(p)
    <2>1. Book'.rows = Book'.count[p] /\ Book'.count[p] <= MaxRows
        BY <1>3, <1>5, <1>6, <1>11 DEF Watching, all
    <2>2. Book'.rows + Book'.race[p] - Book'.count[p] <= 0
        BY <1>6, <2>1
    <2> QED BY <2>1, <2>2, FewBalanced
<1>12. CASE Watching(Book', p) /\ ~Backend!PurgeNow(p)
    <2>1. /\ put = Backend!Put(p)
          /\ Backend!CountedRows(p) = IF pending[p].existed THEN rowCount[p] ELSE rowCount[p] + 1
        BY <1>12 DEF put, Backend!PutAndPurge, Backend!CountedRows, Backend!CountedByProbe
    <2>2. Backend!Stored(put) = Backend!Stored(rows) \cup {k}
        BY <1>3, <2>1, BackendTyped DEF Backend!Stored, Backend!Put, k
    <2>3. /\ k \in Backend!Stored(rows) <=> rows[k] # None
          /\ all = IF k \in Backend!Stored(rows) THEN Book.rows ELSE Book.rows + 1
        <3>1. IsFiniteSet(Backend!Stored(rows))
            BY BackendTyped, TableCounted
        <3>2. Cardinality(Backend!Stored(rows) \cup {k}) =
                  IF k \in Backend!Stored(rows) THEN Cardinality(Backend!Stored(rows))
                                                ELSE Cardinality(Backend!Stored(rows)) + 1
            BY <3>1, FS_AddElement
        <3>3. k \in Backend!Stored(rows) <=> rows[k] # None
            BY <1>3 DEF Backend!Stored
        <3>4. Book.rows = Cardinality(Backend!Stored(rows)) /\ all = Cardinality(Backend!Stored(rows) \cup {k})
            BY <2>2 DEF all
        <3> QED BY ONLY <3>2, <3>3, <3>4
    <2>4. Book.race[p] = IF pending[p].existed /\ rows[k] = None THEN 1 ELSE 0
        BY <1>2 DEF ProbedGone, Backend!Idle, k
    <2>5. all - Backend!CountedRows(p) <= Book.rows + Book.race[p] - Book.count[p] /\ all <= Book.rows + 1
        <3>1. Book.count[p] = rowCount[p] /\ rowCount[p] \in Int /\ Book.rows \in Int
            BY BackendTyped
        <3> QED BY ONLY <1>3, <2>1, <2>3, <2>4, <3>1
    <2>6. Book'.rows + Book'.race[p] - Book'.count[p] <= Book.rows + Book.race[p] - Book.count[p]
        <3>1. /\ Book'.count[p] = Backend!CountedRows(p) - Cardinality(gone)
              /\ Book.rows \in Int /\ Book.race[p] \in Int /\ Book.count[p] \in Int
            BY <1>6
        <3> QED BY ONLY <1>3, <1>5, <1>6, <2>5, <3>1
    <2>7. ASSUME NEW q \in Procs \ {p} PROVE Book'.race[q] <= Book.race[q] + Cardinality(gone)
        <3>1. pending'[q] = pending[q]
            BY <1>6
        <3>2. CASE gone = {}
            <4>1. Backend!Stored(rows) \subseteq Backend!Stored(rows') /\ Cardinality(gone) = 0
                BY <1>5, <2>2, <3>2, FS_EmptySet
            <4> QED BY <3>1, <4>1, RaceKept
        <3>3. CASE gone # {}
            <4>1. Cardinality(gone) # 0
                BY <1>5, <3>3, FS_EmptySet
            <4> QED BY <1>5, <4>1
        <3> QED BY <3>2, <3>3
    <2>8. /\ Book'.rows <= Book.rows + 1
          /\ \A q \in Procs \ {p} : Book'.rows + Book'.race[q] <= Book.rows + Book.race[q] + 1
        <3>1. Book.rows \in Int
            OBVIOUS
        <3>2. ASSUME NEW q \in Procs \ {p}
              PROVE  Book'.rows + Book'.race[q] <= Book.rows + Book.race[q] + 1
            <4>1. Book'.race[q] \in Int /\ Book.race[q] \in Int
                OBVIOUS
            <4> QED BY ONLY <1>5, <2>5, <2>7, <3>1, <4>1
        <3> QED BY ONLY <1>5, <2>5, <3>1, <3>2
    <2>9. Book'.puts[p] = Book.puts[p] + 1
        BY <1>6, <1>12
    <2>10. CASE Watching(Book, p)
        BY <1>7, <1>12, <2>6, <2>8, <2>9, <2>10, PutsBalanced
    <2>11. CASE ~Watching(Book, p)
        <3>1. Surplus(Book, p)
            BY <1>6, <1>9, <2>11 DEF Watching, Surplus
        <3> QED BY <1>7, <1>12, <2>6, <2>8, <2>9, <3>1, WatchesBalanced
    <2> QED BY <2>10, <2>11
<1> QED BY <1>10, <1>11, <1>12

LEMMA BooksStep ==
    ASSUME Backend!SqliteAssumption, BackendInv, BackendInv', Balanced(Book),
           [Backend!Next]_(Backend!vars)
    PROVE  Balanced(Book')
<1> USE BackendTyped
<1>1. ASSUME NEW p \in Procs, NEW k \in RowKeys, NEW created \in 0..now, Backend!SetDegraded(p, k, created)
      PROVE  Balanced(Book')
    BY <1>1, StillBalanced DEF Backend!SetDegraded
<1>2. ASSUME NEW p \in Procs, NEW k \in RowKeys, NEW created \in 0..now, Backend!Probe(p, k, created)
      PROVE  Balanced(Book')
    <2>1. /\ UNCHANGED <<rows, rowCount, putCount, degraded>>
          /\ pending' = [pending EXCEPT ![p] =
                             [key |-> k, created |-> created, existed |-> rows[k] # None]]
        BY <1>2 DEF Backend!Probe
    <2>2. \A q \in Procs : pending'[q] = pending[q] \/ ~ProbedGone(q)'
        BY <2>1 DEF ProbedGone
    <2> QED BY <2>1, <2>2, StillBalanced
<1>3. ASSUME NEW p \in Procs, NEW degrade \in BOOLEAN, Backend!SetFailsOpen(p, degrade)
      PROVE  Balanced(Book')
    <2>1. /\ UNCHANGED <<rows, rowCount, putCount>>
          /\ pending[p] # None /\ pending' = [pending EXCEPT ![p] = None]
          /\ degraded' = [degraded EXCEPT ![p] = degrade]
        BY <1>3 DEF Backend!SetFailsOpen, Backend!Idle
    <2>2. CASE degrade
        <3>1. SameOthers(Book, Book', p)
            BY <2>1, BookKept, BookNext DEF SameOthers
        <3>2. \A q \in Procs \ {p} : Book'.race[q] = Book.race[q]
            BY <2>1, BookKept, BookNext DEF ProbedGone
        <3>3. Book'.degraded[p] /\ Book'.rows = Book.rows
            BY <2>1, <2>2, BookKept, BookNext
        <3> QED BY <3>1, <3>2, <3>3, BookKept, BookNext, DegradesBalanced
    <2>3. CASE ~degrade
        <3>1. ~degraded[p]
            BY <2>1 DEF BackendInv, ProbeTrue
        <3>2. degraded' = degraded
            BY <2>1, <2>3, <3>1
        <3>3. \A q \in Procs : pending'[q] = pending[q] \/ ~ProbedGone(q)'
            BY <2>1 DEF ProbedGone
        <3> QED BY <2>1, <3>2, <3>3, StillBalanced
    <2> QED BY <2>2, <2>3
<1>4. ASSUME NEW p \in Procs, Backend!Increment(p) \/ Backend!IncrementFailsOpen(p)
      PROVE  Balanced(Book')
    BY <1>4, StillBalanced DEF Backend!Increment, Backend!IncrementFailsOpen, Backend!perProcess
<1>5. ASSUME NEW p \in Procs, Backend!Degrade(p)
      PROVE  Balanced(Book')
    <2>1. UNCHANGED <<rows, rowCount, putCount, pending>> /\ degraded' = [degraded EXCEPT ![p] = TRUE]
        BY <1>5 DEF Backend!Degrade
    <2>2. SameOthers(Book, Book', p)
        BY <2>1, BookKept, BookNext DEF SameOthers
    <2>3. \A q \in Procs \ {p} : Book'.race[q] = Book.race[q]
        BY <2>1, BookKept, BookNext DEF ProbedGone
    <2>4. Book'.degraded[p] /\ Book'.rows = Book.rows
        BY <2>1, BookKept, BookNext
    <2> QED BY <2>2, <2>3, <2>4, BookKept, BookNext, DegradesBalanced
<1>6. ASSUME Backend!Tick \/ UNCHANGED Backend!vars
      PROVE  Balanced(Book')
    <2>1. UNCHANGED <<rows, rowCount, putCount, degraded, pending>>
        BY <1>6 DEF Backend!Tick, Backend!perProcess, Backend!vars
    <2> QED BY <2>1, StillBalanced
<1> QED BY ONLY Backend!SqliteAssumption, BackendInv, BackendInv', Balanced(Book),
        [Backend!Next]_(Backend!vars), <1>1, <1>2, <1>3, <1>4, <1>5, <1>6,
        CommitBalanced, DeleteBalanced, PurgeBalanced, ClearBalanced, RestartBalanced DEF Backend!Next

LEMMA BooksInit ==
    ASSUME Backend!SqliteAssumption, Backend!Init, BackendInv
    PROVE  Balanced(Book)
<1>1. PICK p \in Procs : TRUE
    BY BooksBasis
<1>2. Backend!Stored(rows) = {}
    BY DEF Backend!Init, Backend!Empty, Backend!Stored
<1>3. Book.rows = 0
    BY <1>2, BookKept, FS_EmptySet
<1>4. Book.race[p] = 0 /\ Book.count[p] = 0
    BY BookKept DEF Backend!Init, ProbedGone
<1> QED BY <1>3, <1>4, BookKept, BooksBasis, FewBalanced

BooksPart == part = "backend" => BackendInv /\ Balanced(Book)

\* The durable file under any number of processes, keys, faults and restarts: a process's
\* row counter is exact as long as nobody else changes the set of rows, and however the
\* counters drift, the file never holds more rows than the cap and what each other process
\* can put between two of its recounts.
THEOREM RowCounterAlwaysHolds == Spec => []RowCounterHolds
<1>1. Init => BooksPart
    BY PartInit, BackendInit, BooksInit, SharingAssumption DEF BooksPart
<1>2. BooksPart /\ [Next]_vars => BooksPart'
    <2> SUFFICES ASSUME BooksPart, [Next]_vars, part' = "backend" PROVE BackendInv' /\ Balanced(Book)'
        BY DEF BooksPart
    <2>1. Backend!SqliteAssumption /\ part = "backend" /\ [Backend!Next]_(Backend!vars)
        BY PartStep, SharingAssumption
    <2>2. BackendInv /\ Balanced(Book)
        BY <2>1 DEF BooksPart
    <2>3. BackendInv'
        BY <2>1, <2>2, BackendStep
    <2>4. Balanced(Book')
        BY <2>1, <2>2, <2>3, BooksStep
    <2> QED BY <2>3, <2>4
<1>3. BooksPart => RowCounterHolds
    <2> SUFFICES ASSUME BooksPart, part = "backend"
                 PROVE  Backend!ExactWhenAlone /\ Backend!RowCapBound
        BY DEF RowCounterHolds
    <2>1. BackendInv /\ Balanced(Book)
        BY DEF BooksPart
    <2>2. Backend!SqliteAssumption
        BY SharingAssumption
    <2>3. Book.rows <= MaxRows + SlotsBound /\ Book.rows = Cardinality(Backend!Stored(rows))
        BY <2>1, <2>2, BookKept, BalancedBounds
    <2>4. Backend!RowCapBound
        BY <2>3, BackendCardinality DEF Backend!RowCapBound, SlotsBound
    <2> QED BY <2>1, <2>4 DEF BackendInv
<1> QED BY <1>1, <1>2, <1>3, PTL DEF Spec

-----------------------------------------------------------------------------
(* SharedStats: the events' file and the session's counters.               *)

\* What is still in the window is in the file and in every list of lines about to be
\* written back.
EventsSafe ==
    \A e \in Stats!Logged : Stats!Recent(e) /\ e \notin lost =>
        /\ e \in lines
        /\ \A p \in Procs : keep[p] # None => e \in keep[p]

\* The counters stand at what has been counted on top of the baseline, or, once wiped, at
\* what has been counted since.
CountersTrack ==
    /\ \A n \in Names : counted[n] <= counters[n]
    /\ ~blurred /\ baseline # None =>
           \A n \in Names : counters[n] = counted[n] + (IF wiped THEN 0 ELSE baseline[n])

StatsInv == Stats!TypeOK /\ EventsSafe /\ CountersTrack

LEMMA StatsTyped ==
    ASSUME Stats!StatsAssumption, StatsInv
    PROVE  /\ now \in 0..LastStamp
           /\ lines \subseteq Stats!Events
           /\ keep \in [Procs -> (SUBSET Stats!Events) \cup {None}]
           /\ logged \in [Stats!Events -> 0..LastStamp \cup {None}]
           /\ lost \subseteq Stats!Events
           /\ counters \in [Names -> 0..MaxTally] /\ counted \in [Names -> 0..MaxTally]
           /\ baseline \in [Names -> 0..MaxTally] \cup {None}
           /\ session \in [Names -> 0..MaxTally] \cup {None}
           /\ wiped \in BOOLEAN /\ blurred \in BOOLEAN
           /\ mishaps \in 0..MaxMishaps
           /\ SessionWindow \in Nat /\ LastStamp \in Nat /\ MaxEvents \in Nat
           /\ MaxTally \in Nat /\ MaxMishaps \in Nat
           /\ None \notin Nat /\ None \notin [Names -> 0..MaxTally]
BY DEF StatsInv, Stats!TypeOK, Stats!StatsAssumption, Stats!Values

\* A step of the file keeps what is in the window.
LEMMA FileStep ==
    ASSUME Stats!StatsAssumption, StatsInv,
           \/ Stats!LogEvent
           \/ \E p \in Procs : \/ \E time \in 0..now : Stats!ReadEvents(p, time)
                               \/ Stats!Rewrite(p) \/ Stats!RewriteFails(p)
    PROVE  StatsInv' /\ UNCHANGED Stats!counts
<1> USE StatsTyped
<1>1. ASSUME UNCHANGED Stats!counts, UNCHANGED now, mishaps' \in 0..MaxMishaps,
             lines' \subseteq Stats!Events,
             keep' \in [Procs -> (SUBSET Stats!Events) \cup {None}],
             logged' \in [Stats!Events -> 0..LastStamp \cup {None}],
             lost' \subseteq Stats!Events, EventsSafe'
      PROVE  StatsInv' /\ UNCHANGED Stats!counts
    <2>1. Stats!TypeOK'
        BY <1>1 DEF Stats!TypeOK, Stats!counts, Stats!Values
    <2>2. CountersTrack'
        BY <1>1 DEF StatsInv, CountersTrack, Stats!counts
    <2> QED BY <1>1, <2>1, <2>2 DEF StatsInv
<1>2. CASE Stats!LogEvent
    <2>1. PICK e \in Stats!Events \ Stats!Logged :
              logged' = [logged EXCEPT ![e] = now] /\ lines' = lines \cup {e}
        BY <1>2 DEF Stats!LogEvent
    <2>2. /\ UNCHANGED <<now, keep, lost, mishaps>> /\ UNCHANGED Stats!counts
          /\ \A p \in Procs : keep[p] = None
        BY <1>2 DEF Stats!LogEvent, Stats!Unlocked, Stats!counts
    <2>3. \A f \in Stats!Logged' : f = e \/ (f \in Stats!Logged /\ logged'[f] = logged[f])
        BY <2>1 DEF Stats!Logged
    <2>4. EventsSafe'
        BY <2>1, <2>2, <2>3 DEF StatsInv, EventsSafe, Stats!Recent
    <2> QED BY <1>1, <2>1, <2>2, <2>4
<1>3. ASSUME NEW p \in Procs, NEW time \in 0..now, Stats!ReadEvents(p, time)
      PROVE  StatsInv' /\ UNCHANGED Stats!counts
    <2> DEFINE left == {e \in lines : logged[e] + SessionWindow >= time}
    <2>1. /\ keep' = [keep EXCEPT ![p] = left]
          /\ UNCHANGED <<now, lines, logged, lost, mishaps>> /\ UNCHANGED Stats!counts
        BY <1>3 DEF Stats!ReadEvents, Stats!counts
    <2>2. \A e \in Stats!Logged : Stats!Recent(e) /\ e \in lines => e \in left
        BY DEF Stats!Logged, Stats!Recent
    <2>3. left \subseteq Stats!Events
        OBVIOUS
    <2> HIDE DEF left
    <2>4. keep' \in [Procs -> (SUBSET Stats!Events) \cup {None}]
        BY <2>1, <2>3
    <2>5. EventsSafe'
        BY <2>1, <2>2 DEF StatsInv, EventsSafe, Stats!Logged, Stats!Recent
    <2> QED BY <1>1, <2>1, <2>4, <2>5
<1>4. ASSUME NEW p \in Procs, Stats!Rewrite(p)
      PROVE  StatsInv' /\ UNCHANGED Stats!counts
    <2>1. /\ keep[p] # None /\ lines' = keep[p] /\ keep' = [keep EXCEPT ![p] = None]
          /\ UNCHANGED <<now, logged, lost, mishaps>> /\ UNCHANGED Stats!counts
        BY <1>4 DEF Stats!Rewrite, Stats!counts
    <2>2. EventsSafe'
        BY <2>1 DEF StatsInv, EventsSafe, Stats!Logged, Stats!Recent
    <2>3. keep' \in [Procs -> (SUBSET Stats!Events) \cup {None}] /\ keep[p] \subseteq Stats!Events
        BY <2>1
    <2> QED BY <1>1, <2>1, <2>2, <2>3
<1>5. ASSUME NEW p \in Procs, Stats!RewriteFails(p)
      PROVE  StatsInv' /\ UNCHANGED Stats!counts
    <2>1. /\ keep[p] # None /\ lines' = {} /\ lost' = lost \cup keep[p]
          /\ keep' = [keep EXCEPT ![p] = None]
          /\ UNCHANGED <<now, logged>> /\ UNCHANGED Stats!counts
          /\ mishaps' \in 0..MaxMishaps
        BY <1>5 DEF Stats!RewriteFails, Stats!counts, Stats!Mishap
    <2>2. EventsSafe'
        BY <2>1 DEF StatsInv, EventsSafe, Stats!Logged, Stats!Recent
    <2>3. keep' \in [Procs -> (SUBSET Stats!Events) \cup {None}] /\ keep[p] \subseteq Stats!Events
        BY <2>1
    <2> QED BY <1>1, <2>1, <2>2, <2>3
<1> QED BY <1>2, <1>3, <1>4, <1>5

\* The baseline a look uses is below the counters.
LEMMA BaselineBelow ==
    ASSUME Stats!StatsAssumption, StatsInv, NEW base \in [Names -> 0..MaxTally]
    PROVE  LET b == Stats!Rebaselined(base, counters) IN
           b \in [Names -> 0..MaxTally] /\ \A n \in Names : b[n] <= counters[n]
BY StatsTyped DEF Stats!Rebaselined, Stats!Zero

LEMMA StatsLook ==
    ASSUME Stats!StatsAssumption, StatsInv, Stats!Look
    PROVE  /\ StatsInv'
           /\ ~blurred' => session' = counted'
<1> USE StatsTyped
<1> DEFINE used == IF baseline = None THEN counters ELSE baseline
           base == Stats!Rebaselined(used, counters)
<1>1. /\ baseline' = base /\ session' = [n \in Names |-> counters[n] - base[n]]
      /\ counted' = IF baseline = None THEN Stats!Zero ELSE counted
      /\ blurred' = (blurred \/ (/\ wiped /\ baseline \notin {None, Stats!Zero}
                                 /\ \A n \in Names : counters[n] >= baseline[n]))
      /\ wiped' = FALSE
      /\ UNCHANGED <<now, counters, mishaps>> /\ UNCHANGED Stats!file
    BY DEF Stats!Look
<1>2. used \in [Names -> 0..MaxTally]
    OBVIOUS
<1>3. base \in [Names -> 0..MaxTally] /\ \A n \in Names : base[n] <= counters[n]
    BY <1>2, BaselineBelow
<1>4. Stats!Zero \in [Names -> 0..MaxTally] /\ \A n \in Names : Stats!Zero[n] = 0
    BY DEF Stats!Zero
<1>5. session' \in [Names -> 0..MaxTally] /\ counted' \in [Names -> 0..MaxTally] /\ blurred' \in BOOLEAN
    <2>1. \A n \in Names : counters[n] - base[n] \in 0..MaxTally
        BY <1>3
    <2>2. blurred' \in BOOLEAN
        BY <1>1
    <2> HIDE DEF base
    <2> QED BY <1>1, <1>4, <2>1, <2>2
\* Unless the look is blurred, what it subtracts is what has not been counted.
<1>6. ~blurred' => \A n \in Names : counters[n] = counted'[n] + base[n]
    <2> SUFFICES ASSUME ~blurred' PROVE \A n \in Names : counters[n] = counted'[n] + base[n]
        OBVIOUS
    <2>1. CASE baseline = None
        <3>1. base = counters
            BY <2>1 DEF Stats!Rebaselined
        <3> QED BY <1>1, <1>4, <2>1, <3>1
    <2>2. CASE baseline # None /\ \E n \in Names : counters[n] < baseline[n]
        <3>1. base = Stats!Zero
            BY <2>2 DEF Stats!Rebaselined
        <3>2. wiped
            BY <1>1, <2>2 DEF StatsInv, CountersTrack
        <3> QED BY <1>1, <1>4, <2>2, <3>1, <3>2 DEF StatsInv, CountersTrack
    <2>3. CASE baseline # None /\ ~\E n \in Names : counters[n] < baseline[n]
        <3>1. base = baseline
            BY <2>3 DEF Stats!Rebaselined
        <3>2. \A n \in Names : counters[n] >= baseline[n]
            BY <2>3
        <3>3. ~blurred /\ (wiped => baseline = Stats!Zero)
            BY <1>1, <2>3, <3>2
        <3>4. counted' = counted
            BY <1>1, <2>3
        <3>5. \A n \in Names : counters[n] = counted[n] + (IF wiped THEN 0 ELSE baseline[n])
            BY <2>3, <3>3 DEF StatsInv, CountersTrack
        <3> HIDE DEF base, used
        <3> QED BY <1>4, <3>1, <3>3, <3>4, <3>5
    <2> QED BY <2>1, <2>2, <2>3
<1> HIDE DEF base, used
<1>7. ~blurred' => session' = counted'
    <2>1. ASSUME ~blurred', NEW n \in Names PROVE counters[n] - base[n] = counted'[n]
        BY <1>3, <1>5, <1>6, <2>1
    <2> QED BY <1>1, <1>5, <2>1
<1>8. CountersTrack'
    <2>1. \A n \in Names : counted'[n] <= counters[n]
        BY <1>1, <1>4 DEF StatsInv, CountersTrack
    <2> QED BY <1>1, <1>6, <2>1 DEF CountersTrack
<1>9. EventsSafe'
    BY <1>1 DEF StatsInv, EventsSafe, Stats!file, Stats!Logged, Stats!Recent
<1>10. Stats!TypeOK'
    BY <1>1, <1>3, <1>5 DEF Stats!TypeOK, Stats!file, Stats!Values
<1> QED BY <1>7, <1>8, <1>9, <1>10 DEF StatsInv

LEMMA StatsStep ==
    ASSUME Stats!StatsAssumption, StatsInv, [Stats!Next]_(Stats!vars)
    PROVE  StatsInv' /\ (Stats!LookIsExact \/ UNCHANGED Stats!vars)
<1> USE StatsTyped
<1>1. Stats!LookIsExact
    BY StatsLook DEF Stats!LookIsExact
<1>2. ASSUME NEW n \in Names, Stats!Bump(n)
      PROVE  StatsInv'
    <2>1. /\ counters[n] < MaxTally
          /\ counters' = [counters EXCEPT ![n] = counters[n] + 1]
          /\ counted' = IF baseline = None THEN counted ELSE [counted EXCEPT ![n] = counted[n] + 1]
          /\ UNCHANGED <<now, baseline, session, wiped, blurred, mishaps>> /\ UNCHANGED Stats!file
        BY <1>2 DEF Stats!Bump
    <2>2. counted[n] <= counters[n]
        BY DEF StatsInv, CountersTrack
    <2>3. counters' \in [Names -> 0..MaxTally] /\ counted' \in [Names -> 0..MaxTally]
        <3>1. counters[n] + 1 \in 0..MaxTally /\ counted[n] + 1 \in 0..MaxTally
            BY <2>1, <2>2
        <3> QED BY <2>1, <3>1
    <2>4. Stats!TypeOK'
        BY <2>1, <2>3 DEF Stats!TypeOK, Stats!file, Stats!Values
    <2>5. \A m \in Names : counted'[m] <= counters'[m]
        BY <2>1 DEF StatsInv, CountersTrack
    <2>6. ~blurred' /\ baseline' # None =>
              \A m \in Names : counters'[m] = counted'[m] + (IF wiped' THEN 0 ELSE baseline'[m])
        BY <2>1 DEF StatsInv, CountersTrack
    <2>7. EventsSafe'
        BY <2>1 DEF StatsInv, EventsSafe, Stats!file, Stats!Logged, Stats!Recent
    <2> QED BY <2>4, <2>5, <2>6, <2>7 DEF StatsInv, CountersTrack
<1>3. ASSUME Stats!Wipe
      PROVE  StatsInv'
    <2>1. /\ counters' = [n \in Names |-> 0] /\ counted' = [n \in Names |-> 0] /\ wiped' = TRUE
          /\ UNCHANGED <<now, baseline, session, blurred, mishaps>> /\ UNCHANGED Stats!file
        BY <1>3 DEF Stats!Wipe
    <2>2. Stats!TypeOK'
        BY <2>1 DEF Stats!TypeOK, Stats!file, Stats!Values
    <2>3. CountersTrack'
        BY <2>1 DEF CountersTrack
    <2>4. EventsSafe'
        BY <2>1 DEF StatsInv, EventsSafe, Stats!file, Stats!Logged, Stats!Recent
    <2> QED BY <2>2, <2>3, <2>4 DEF StatsInv
<1>4. ASSUME Stats!LookBlind
      PROVE  StatsInv'
    <2>1. /\ mishaps' \in 0..MaxMishaps
          /\ baseline' = IF baseline = None THEN Stats!Zero ELSE baseline
          /\ session' = Stats!Zero
          /\ blurred' = (blurred \/ baseline = None)
          /\ UNCHANGED <<now, counters, counted, wiped>> /\ UNCHANGED Stats!file
        BY <1>4 DEF Stats!LookBlind, Stats!Mishap
    <2>2. Stats!Zero \in [Names -> 0..MaxTally]
        BY DEF Stats!Zero
    <2>3. Stats!TypeOK'
        BY <2>1, <2>2 DEF Stats!TypeOK, Stats!file, Stats!Values
    <2>4. CountersTrack'
        BY <2>1 DEF StatsInv, CountersTrack
    <2>5. EventsSafe'
        BY <2>1 DEF StatsInv, EventsSafe, Stats!file, Stats!Logged, Stats!Recent
    <2> QED BY <2>3, <2>4, <2>5 DEF StatsInv
<1>5. ASSUME Stats!Tick \/ UNCHANGED Stats!vars
      PROVE  StatsInv'
    <2>1. /\ now' \in 0..LastStamp /\ now' >= now
          /\ UNCHANGED <<counters, baseline, session, counted, wiped, blurred, mishaps>>
          /\ UNCHANGED <<lines, keep, logged, lost>>
        BY <1>5 DEF Stats!Tick, Stats!vars, Stats!counts, Stats!file
    <2>2. Stats!TypeOK'
        BY <2>1 DEF Stats!TypeOK, Stats!Values
    <2>3. CountersTrack'
        BY <2>1 DEF StatsInv, CountersTrack
    <2>4. EventsSafe'
        <3>1. \A e \in Stats!Logged : Stats!Recent(e)' => Stats!Recent(e)
            BY <2>1 DEF Stats!Recent, Stats!Logged
        <3> QED BY <2>1, <3>1 DEF StatsInv, EventsSafe, Stats!Logged
    <2> QED BY <2>2, <2>3, <2>4 DEF StatsInv
<1> QED BY ONLY Stats!StatsAssumption, StatsInv, [Stats!Next]_(Stats!vars),
        <1>1, <1>2, <1>3, <1>4, <1>5, FileStep, StatsLook DEF Stats!Next

LEMMA StatsInit ==
    ASSUME Stats!StatsAssumption, Stats!Init
    PROVE  StatsInv
<1> USE DEF Stats!Init
<1>1. Stats!Zero \in [Names -> 0..MaxTally]
    BY DEF Stats!StatsAssumption, Stats!Zero
<1>2. Stats!TypeOK
    <2>1. 0 \in 0..LastStamp /\ 0 \in 0..MaxMishaps
        BY DEF Stats!StatsAssumption
    <2>2. {counters, counted} \subseteq Stats!Values /\ {baseline, session} \subseteq Stats!Values \cup {None}
        BY <1>1 DEF Stats!Values
    <2> QED BY <2>1, <2>2 DEF Stats!TypeOK
<1>3. Stats!Logged = {}
    BY DEF Stats!Logged
<1>4. EventsSafe
    BY <1>3 DEF EventsSafe
<1>5. CountersTrack
    BY DEF CountersTrack, Stats!Zero
<1> QED BY <1>2, <1>4, <1>5 DEF StatsInv

StatsPart == part = "stats" => StatsInv

LEMMA StatsPartInit == Init => StatsPart
BY PartInit, StatsInit, SharingAssumption DEF StatsPart

LEMMA StatsPartStep == StatsPart /\ [Next]_vars => StatsPart'
BY PartStep, StatsStep, SharingAssumption DEF StatsPart

\* What furl_stats reports, for any processes, window, counters and mishaps: an event in the
\* window is in the shared file unless a kill or an error destroyed it in mid-rewrite.
THEOREM EventsAlwaysKept ==
    Spec => []EventsKept
<1>1. StatsPart => EventsKept
    BY DEF StatsPart, StatsInv, EventsSafe, EventsKept, Stats!EventsKept
<1> QED BY <1>1, StatsPartInit, StatsPartStep, PTL DEF Spec

\* this_session counts from the server's first look or the last wipe, unless all counters
\* had climbed back by the look after a wipe or the first look read nothing.
THEOREM SessionAlwaysExact ==
    Spec => SessionExact
<1>1. StatsPart /\ [Next]_vars => [part = "stats" => Stats!LookIsExact]_vars
    <2> SUFFICES ASSUME StatsPart, [Next]_vars, vars' # vars, part = "stats" PROVE Stats!LookIsExact
        OBVIOUS
    <2>1. StatsInv /\ Next
        BY DEF StatsPart
    <2>2. Stats!Next
        BY <2>1 DEF Next
    <2>3. Stats!LookIsExact \/ UNCHANGED Stats!vars
        BY <2>1, <2>2, StatsStep, SharingAssumption
    <2>4. /\ UNCHANGED <<part, backendVars, workerVars, rowVars>>
          /\ UNCHANGED <<feedbackVars, storeVars, blockVars, queryVars>>
        BY <2>1 DEF Next
    <2>5. UNCHANGED Stats!vars => UNCHANGED <<now, statsVars>>
        BY DEF Stats!vars, Stats!file, Stats!counts, statsVars
    <2>6. UNCHANGED Stats!vars => UNCHANGED vars
        BY <2>4, <2>5 DEF vars
    <2> QED BY <2>3, <2>6
<1> QED BY <1>1, StatsPartInit, StatsPartStep, PTL DEF Spec, SessionExact

-----------------------------------------------------------------------------
(* NamespaceStores: which store a call reads and writes.                   *)

\* The store holds the entries of the owner.
Serves(i, owner) ==
    \/ i = 0 /\ owner = Spaces!Tenant
    \/ i \in DOMAIN made /\ made[i] = owner

\* A store in service was built for its key, in one process.
RegistrySound ==
    \A p \in Hosts, k \in Spaces!StoreKeys : registry[p][k] # None =>
        /\ registry[p][k] \in DOMAIN made /\ made[registry[p][k]] = k
        /\ \A q \in Hosts : registry[q][k] = registry[p][k] => q = p

\* Stores and files hold the entries of one owner, and a store that is not built none.
StoresClean ==
    /\ inMemory[0] \subseteq {Spaces!Tenant}
    /\ \A i \in DOMAIN made : inMemory[i] \subseteq {made[i]}
    /\ \A i \in Spaces!StoreIds \ DOMAIN made : i # 0 => inMemory[i] = {}
    /\ \A k \in Spaces!StoreKeys : files[k] \subseteq {k}

\* The binding that a call finds is the one it restores, and what it works on is its
\* owner's store, in service unless a reset came in between.
Context(t) ==
    LET outer == IF t \in serving THEN 0 ELSE None
        r == request[t]
    IN  /\ r = None => bound[t] = outer
        /\ r # None =>
            /\ r.outer = outer /\ r.owner = Spaces!OwnerOf(t, r.key)
            /\ r.at # "work" =>
                /\ bound[t] = outer /\ r.got = None
                /\ r.key = Spaces!Global => t \notin serving
            /\ r.at = "fetch" => r.key = Spaces!Global
            /\ Spaces!Working(t) =>
                /\ Serves(Spaces!Current(t), r.owner)
                /\ ~r.late /\ r.owner # Spaces!Tenant
                   => registry[home[t]][r.key] = Spaces!Current(t)

ContextSound == \A t \in Callers : Context(t)

\* What was stored is in the file, or in the store its process has in service.
KeptSound ==
    \A e \in kept :
        IF backend = "sqlite" THEN e[2] \in files[e[2]]
        ELSE registry[e[1]][e[2]] # None /\ e[2] \in inMemory[registry[e[1]][e[2]]]

SpacesInv ==
    /\ Spaces!TypeOK /\ Len(made) <= MaxMade
    /\ RegistrySound /\ StoresClean /\ ContextSound /\ KeptSound

LEMMA SpacesTyped ==
    ASSUME Spaces!NamespaceAssumption, SpacesInv
    PROVE  /\ home \in [Callers -> Hosts]
           /\ registry \in [Hosts -> [Spaces!StoreKeys -> Spaces!StoreIds \cup {None}]]
           /\ made \in Seq(Spaces!StoreKeys) /\ Len(made) \in 0..MaxMade
           /\ DOMAIN made = 1..Len(made) /\ DOMAIN made \subseteq Spaces!StoreIds /\ 0 \notin DOMAIN made
           /\ \A i \in DOMAIN made : made[i] \in Spaces!StoreKeys
           /\ inMemory \in [Spaces!StoreIds -> SUBSET Spaces!Owners]
           /\ files \in [Spaces!StoreKeys -> SUBSET Spaces!Owners]
           /\ bound \in [Callers -> Spaces!StoreIds \cup {None}]
           /\ request \in [Callers -> Spaces!Call \cup {None}]
           /\ serving \subseteq Callers
           /\ kept \subseteq Hosts \X Spaces!StoreKeys
           /\ backend \in Backends
           /\ MaxMade \in Nat /\ Spaces!StoreIds = 0..MaxMade
           /\ None \notin Nat /\ None \notin Spaces!Call /\ None \notin Spaces!StoreIds
           /\ Spaces!Global \in Spaces!StoreKeys
           /\ Spaces!StoreKeys \subseteq Spaces!Owners /\ Spaces!Tenant \in Spaces!Owners
<1>1. Spaces!TypeOK /\ MaxMade \in Nat /\ Len(made) <= MaxMade /\ made \in Seq(Spaces!StoreKeys)
    BY DEF SpacesInv, Spaces!TypeOK, Spaces!NamespaceAssumption
<1>2. /\ Len(made) \in 0..MaxMade /\ DOMAIN made = 1..Len(made)
      /\ \A i \in DOMAIN made : made[i] \in Spaces!StoreKeys
    BY <1>1
<1>3. DOMAIN made \subseteq Spaces!StoreIds /\ 0 \notin DOMAIN made /\ Spaces!StoreIds = 0..MaxMade
    BY <1>1, <1>2 DEF Spaces!StoreIds
<1>4. None \notin Nat /\ None \notin Spaces!Call /\ None \notin Spaces!StoreIds
    BY <1>1, <1>3 DEF Spaces!NamespaceAssumption
<1>5. /\ Spaces!Global \in Spaces!StoreKeys
      /\ Spaces!StoreKeys \subseteq Spaces!Owners /\ Spaces!Tenant \in Spaces!Owners
    BY DEF Spaces!StoreKeys, Spaces!Owners
<1> QED BY <1>1, <1>2, <1>3, <1>4, <1>5 DEF Spaces!TypeOK

\* The invariant gives the property.
LEMMA SpacesHold ==
    ASSUME Spaces!NamespaceAssumption, SpacesInv
    PROVE  Spaces!NamespacesHold
<1> USE SpacesTyped
<1>1. ASSUME NEW t \in Callers, Spaces!Working(t)
      PROVE  Spaces!Holds(Spaces!Current(t)) \subseteq {request[t].owner}
    <2>1. Serves(Spaces!Current(t), request[t].owner)
        BY <1>1 DEF SpacesInv, ContextSound, Context, Spaces!Working
    <2> QED BY <2>1 DEF Serves, Spaces!Holds, Spaces!Filed, SpacesInv, StoresClean
<1>2. Spaces!TenantsIsolated
    BY <1>1 DEF Spaces!TenantsIsolated, SpacesInv, StoresClean
<1>3. ASSUME NEW e \in kept, NEW p \in (IF backend = "sqlite" THEN Hosts ELSE {e[1]})
      PROVE  /\ p = e[1] => registry[p][e[2]] # None \/ backend = "sqlite"
             /\ registry[p][e[2]] # None => e[2] \in Spaces!Holds(registry[p][e[2]])
    <2>1. e[1] \in Hosts /\ e[2] \in Spaces!StoreKeys /\ p \in Hosts
        BY <1>3
    <2>2. CASE backend = "sqlite"
        <3>1. e[2] \in files[e[2]]
            BY <2>2 DEF SpacesInv, KeptSound
        <3>2. registry[p][e[2]] # None => registry[p][e[2]] \in DOMAIN made /\ made[registry[p][e[2]]] = e[2]
            BY <2>1 DEF SpacesInv, RegistrySound
        <3> QED BY <2>2, <3>1, <3>2 DEF Spaces!Holds, Spaces!Filed
    <2>3. CASE backend # "sqlite"
        BY <1>3, <2>3 DEF SpacesInv, KeptSound, Spaces!Holds, Spaces!Filed
    <2> QED BY <2>2, <2>3
<1>4. Spaces!StoresFind
    BY <1>3 DEF Spaces!StoresFind
<1> QED BY <1>2, <1>4 DEF Spaces!NamespacesHold

LEMMA SpacesInit ==
    ASSUME Spaces!NamespaceAssumption, Spaces!Init
    PROVE  SpacesInv
<1> USE DEF Spaces!Init
<1>1. Spaces!TypeOK /\ Len(made) <= MaxMade /\ DOMAIN made = {}
    BY DEF Spaces!TypeOK, Spaces!StoreIds, Spaces!NamespaceAssumption
<1>2. RegistrySound /\ KeptSound
    BY DEF RegistrySound, KeptSound
<1>3. StoresClean
    BY <1>1 DEF StoresClean, Spaces!StoreIds, Spaces!NamespaceAssumption
<1>4. ContextSound
    BY DEF ContextSound, Context
<1> QED BY <1>1, <1>2, <1>3, <1>4 DEF SpacesInv

\* The bindings of a caller between its calls.
LEMMA SpacesMiddleware ==
    ASSUME Spaces!NamespaceAssumption, SpacesInv, NEW t \in Callers,
           Spaces!SetRequestStore(t) \/ Spaces!ClearRequestStore(t)
    PROVE  SpacesInv'
<1> USE SpacesTyped
<1>1. /\ request[t] = None
      /\ \/ serving' = serving \cup {t} /\ bound' = [bound EXCEPT ![t] = 0]
         \/ serving' = serving \ {t} /\ bound' = [bound EXCEPT ![t] = None]
      /\ UNCHANGED <<backend, home, registry, made, inMemory, files, request, kept>>
    BY DEF Spaces!SetRequestStore, Spaces!ClearRequestStore
<1>2. Spaces!TypeOK' /\ (Len(made) <= MaxMade)'
    <2>1. 0 \in Spaces!StoreIds
        BY DEF Spaces!StoreIds
    <2>2. bound' \in [Callers -> Spaces!StoreIds \cup {None}]
        BY <1>1, <2>1
    <2>3. serving' \subseteq Callers
        BY <1>1
    <2> QED BY <1>1, <2>2, <2>3 DEF Spaces!TypeOK
<1>3. RegistrySound' /\ StoresClean' /\ KeptSound'
    BY <1>1 DEF SpacesInv, RegistrySound, StoresClean, KeptSound
<1>4. ContextSound'
    <2>1. \A u \in Callers : u # t => bound'[u] = bound[u] /\ (u \in serving' <=> u \in serving)
        BY <1>1
    <2>2. bound'[t] = IF t \in serving' THEN 0 ELSE None
        BY <1>1
    <2> QED BY <1>1, <2>1, <2>2
        DEF SpacesInv, ContextSound, Context, Spaces!Working, Spaces!Current, Spaces!OwnerOf, Serves
<1> QED BY <1>2, <1>3, <1>4 DEF SpacesInv

\* A caller that another one's step leaves alone keeps its context, while stores are only
\* added and those in service stay.
LEMMA OtherContext ==
    ASSUME Spaces!NamespaceAssumption, SpacesInv, NEW u \in Callers,
           bound'[u] = bound[u], request'[u] = request[u], UNCHANGED <<home, serving>>,
           \A i \in DOMAIN made : i \in DOMAIN made' /\ made'[i] = made[i],
           \A k \in Spaces!StoreKeys : registry[home[u]][k] # None
               => registry'[home[u]][k] = registry[home[u]][k]
    PROVE  Context(u)'
<1>1. request[u] # None => request[u].key \in Spaces!StoreKeys
    BY SpacesTyped DEF Spaces!Call
<1>2. Context(u) /\ (Spaces!Working(u)' <=> Spaces!Working(u)) /\ Spaces!Current(u)' = Spaces!Current(u)
    BY DEF SpacesInv, ContextSound, Spaces!Working, Spaces!Current
<1>3. Spaces!Working(u) => Spaces!Current(u) # None /\ request[u] # None
    BY DEF Spaces!Working
<1> QED BY <1>1, <1>2, <1>3 DEF Context, Serves, Spaces!OwnerOf

\* compress() binds the store of its namespace, or an export works on it.
LEMMA ServeContext ==
    ASSUME Spaces!NamespaceAssumption, SpacesInv, NEW t \in Callers, NEW call \in Spaces!Call,
           NEW i \in Spaces!StoreIds, Spaces!Serve(t, call, i), UNCHANGED <<home, serving>>,
           i \in DOMAIN made' /\ made'[i] = call.key, registry'[home[t]][call.key] = i,
           call.key # Spaces!Global, call.owner = call.key, call.got = None,
           call.outer = (IF t \in serving THEN 0 ELSE None), bound[t] = call.outer
    PROVE  /\ Context(t)'
           /\ bound' \in [Callers -> Spaces!StoreIds \cup {None}]
           /\ request' \in [Callers -> Spaces!Call \cup {None}]
           /\ \A u \in Callers : u # t => bound'[u] = bound[u] /\ request'[u] = request[u]
<1> USE SpacesTyped
<1> DEFINE served == [call EXCEPT !.at = "work", !.got = IF call.exports THEN i ELSE None]
<1>1. /\ bound' = IF call.exports THEN bound ELSE [bound EXCEPT ![t] = i]
      /\ request' = [request EXCEPT ![t] = served]
    BY DEF Spaces!Serve
<1>2. /\ served \in Spaces!Call /\ served.at = "work" /\ served.key = call.key
      /\ served.owner = call.owner /\ served.outer = call.outer /\ served.exports = call.exports
      /\ served.got = IF call.exports THEN i ELSE None
    BY DEF Spaces!Call
<1>3. served # None /\ i # None
    BY <1>2
<1> HIDE DEF served
<1>4. request'[t] = served /\ bound'[t] = IF call.exports THEN bound[t] ELSE i
    BY <1>1
<1>5. Spaces!Current(t)' = i
    BY <1>2, <1>3, <1>4 DEF Spaces!Current
<1>6. Context(t)'
    BY <1>2, <1>3, <1>4, <1>5 DEF Context, Serves, Spaces!OwnerOf
<1>7. bound' \in [Callers -> Spaces!StoreIds \cup {None}] /\ request' \in [Callers -> Spaces!Call \cup {None}]
    BY <1>1, <1>2
<1>8. \A u \in Callers : u # t => bound'[u] = bound[u] /\ request'[u] = request[u]
    BY <1>1
<1> QED BY <1>6, <1>7, <1>8

LEMMA SpacesBegin ==
    ASSUME Spaces!NamespaceAssumption, SpacesInv, NEW t \in Callers, NEW id \in Ids \cup {None},
           NEW exports \in BOOLEAN, Spaces!Begin(t, id, exports)
    PROVE  SpacesInv'
<1> USE SpacesTyped
<1> DEFINE key == Spaces!NamespaceKey(home[t], id)
           found == registry[home[t]][key]
           call == [at |-> "work", exports |-> exports, key |-> key, owner |-> Spaces!OwnerOf(t, key),
                    outer |-> bound[t], got |-> None, late |-> FALSE]
           other(at) == [call EXCEPT !.at = at]
<1>1. /\ request[t] = None
      /\ UNCHANGED <<backend, home, registry, made, inMemory, files, serving, kept>>
      /\ \/ key = Spaces!Global /\ bound[t] # None
            /\ request' = [request EXCEPT ![t] = call] /\ UNCHANGED bound
         \/ (key = Spaces!Global => bound[t] = None)
            /\ request' = [request EXCEPT ![t] = other("build")] /\ UNCHANGED bound
         \/ key = Spaces!Global /\ bound[t] = None
            /\ request' = [request EXCEPT ![t] = other("fetch")] /\ UNCHANGED bound
         \/ key # Spaces!Global /\ found # None /\ Spaces!Serve(t, call, found)
    BY DEF Spaces!Begin
<1>2. key \in Spaces!StoreKeys /\ found \in Spaces!StoreIds \cup {None}
    <2>1. home[t] \in Hosts
        OBVIOUS
    <2>2. key \in Spaces!StoreKeys
        BY <2>1 DEF Spaces!StoreKeys
    <2> QED BY <2>1, <2>2
<1>3. bound[t] = IF t \in serving THEN 0 ELSE None
    BY <1>1 DEF SpacesInv, ContextSound, Context
<1> HIDE DEF key, found
<1>4. /\ call \in Spaces!Call /\ other("build") \in Spaces!Call /\ other("fetch") \in Spaces!Call
      /\ other("build") # None /\ other("fetch") # None /\ call # None
    <2>1. Spaces!OwnerOf(t, key) \in Spaces!Owners
        BY <1>2 DEF Spaces!OwnerOf
    <2>2. call \in Spaces!Call /\ other("build") \in Spaces!Call /\ other("fetch") \in Spaces!Call
        BY <1>2, <2>1 DEF Spaces!Call
    <2> HIDE DEF call, other
    <2> QED BY <2>2
<1>5. /\ Context(t)'
      /\ bound' \in [Callers -> Spaces!StoreIds \cup {None}]
      /\ request' \in [Callers -> Spaces!Call \cup {None}]
      /\ \A u \in Callers : u # t => bound'[u] = bound[u] /\ request'[u] = request[u]
    <2>1. CASE key = Spaces!Global /\ bound[t] # None
               /\ request' = [request EXCEPT ![t] = call] /\ UNCHANGED bound
        <3>1. t \in serving /\ bound[t] = 0 /\ request'[t] = call
            BY <1>3, <2>1
        <3>2. Spaces!Current(t)' = 0 /\ call.owner = Spaces!Tenant
            BY <2>1, <3>1 DEF Spaces!Current, Spaces!OwnerOf
        <3>3. Context(t)'
            BY <1>1, <1>4, <2>1, <3>1, <3>2 DEF Context, Serves, Spaces!OwnerOf
        <3> HIDE DEF call
        <3> QED BY <1>4, <2>1, <3>3
    <2>2. CASE (key = Spaces!Global => bound[t] = None)
               /\ request' = [request EXCEPT ![t] = other("build")] /\ UNCHANGED bound
        <3>1. request'[t] = other("build") /\ other("build").at = "build"
            BY <2>2
        <3>2. Context(t)'
            BY <1>1, <1>3, <1>4, <2>2, <3>1 DEF Context, Spaces!OwnerOf, Spaces!Working
        <3> HIDE DEF other
        <3> QED BY <1>4, <2>2, <3>2
    <2>3. CASE key = Spaces!Global /\ bound[t] = None
               /\ request' = [request EXCEPT ![t] = other("fetch")] /\ UNCHANGED bound
        <3>1. request'[t] = other("fetch") /\ other("fetch").at = "fetch"
            BY <2>3
        <3>2. Context(t)'
            BY <1>1, <1>3, <1>4, <2>3, <3>1 DEF Context, Spaces!OwnerOf, Spaces!Working
        <3> HIDE DEF other
        <3> QED BY <1>4, <2>3, <3>2
    <2>4. CASE key # Spaces!Global /\ found # None /\ Spaces!Serve(t, call, found)
        <3>1. found \in DOMAIN made' /\ made'[found] = key /\ registry'[home[t]][key] = found
            BY <1>1, <1>2, <2>4 DEF SpacesInv, RegistrySound, found
        <3>2. call.key = key /\ call.owner = key /\ call.got = None /\ call.outer = bound[t]
            BY <2>4 DEF Spaces!OwnerOf
        <3> HIDE DEF call
        <3> QED BY <1>1, <1>2, <1>3, <1>4, <2>4, <3>1, <3>2, ServeContext
    <2> QED BY <1>1, <2>1, <2>2, <2>3, <2>4
<1>6. Spaces!TypeOK' /\ (Len(made) <= MaxMade)'
    BY <1>1, <1>5 DEF Spaces!TypeOK
<1>7. RegistrySound' /\ StoresClean' /\ KeptSound'
    BY <1>1 DEF SpacesInv, RegistrySound, StoresClean, KeptSound
<1>8. ContextSound'
    BY <1>1, <1>5, OtherContext DEF ContextSound
<1> QED BY <1>6, <1>7, <1>8 DEF SpacesInv

LEMMA SpacesBuild ==
    ASSUME Spaces!NamespaceAssumption, SpacesInv, NEW t \in Callers, Spaces!Build(t)
    PROVE  SpacesInv'
<1> USE SpacesTyped
<1> DEFINE p == home[t]
           r == request[t]
           key == r.key
           found == registry[p][key]
           i == IF found = None THEN Len(made) + 1 ELSE found
           fetch == [r EXCEPT !.at = "fetch"]
<1>1. /\ r # None /\ r.at = "build" /\ i \in Spaces!StoreIds
      /\ made' = IF found = None THEN Append(made, key) ELSE made
      /\ registry' = [registry EXCEPT ![p][key] = i]
      /\ IF key = Spaces!Global THEN request' = [request EXCEPT ![t] = fetch] /\ UNCHANGED bound
         ELSE Spaces!Serve(t, r, i)
      /\ UNCHANGED <<backend, home, inMemory, files, serving, kept>>
    BY DEF Spaces!Build, Spaces!Registered
<1>2. p \in Hosts /\ r \in Spaces!Call /\ key \in Spaces!StoreKeys /\ found \in Spaces!StoreIds \cup {None}
    <2>1. p \in Hosts /\ r \in Spaces!Call
        BY <1>1
    <2>2. key \in Spaces!StoreKeys
        BY <2>1 DEF Spaces!Call
    <2> QED BY <2>1, <2>2
<1>3. Context(t)
    BY DEF SpacesInv, ContextSound
<1>4. /\ r.outer = (IF t \in serving THEN 0 ELSE None) /\ bound[t] = r.outer /\ r.got = None
      /\ key = Spaces!Global => t \notin serving
      /\ r.owner = key
    BY <1>1, <1>3 DEF Context, Spaces!OwnerOf
<1>5. found # None => found \in DOMAIN made /\ made[found] = key
    BY <1>2 DEF SpacesInv, RegistrySound
\* The stores there are stay what they are.
<1>6. /\ made' \in Seq(Spaces!StoreKeys) /\ Len(made') <= MaxMade
      /\ \A j \in DOMAIN made : j \in DOMAIN made' /\ made'[j] = made[j]
      /\ i \in DOMAIN made' /\ made'[i] = key
      /\ DOMAIN made' \subseteq DOMAIN made \cup {i}
      /\ i # None
    <2> HIDE DEF key, p, r
    <2>1. CASE found = None
        <3>1. made' = Append(made, key) /\ i = Len(made) + 1
            BY <1>1, <2>1
        <3>2. Len(made') = Len(made) + 1 /\ made' \in Seq(Spaces!StoreKeys) /\ DOMAIN made' = 1..Len(made')
            BY <1>2, <3>1
        <3>3. made'[i] = key /\ \A j \in 1..Len(made) : made'[j] = made[j]
            BY <1>2, <3>1
        <3> HIDE DEF i
        <3> QED BY <1>1, <3>1, <3>2, <3>3
    <2>2. CASE found # None
        <3>1. made' = made /\ i = found
            BY <1>1, <2>2
        <3> HIDE DEF i, found
        <3> QED BY <1>1, <1>5, <2>2, <3>1
    <2> QED BY <2>1, <2>2
<1>7. /\ registry' \in [Hosts -> [Spaces!StoreKeys -> Spaces!StoreIds \cup {None}]]
      /\ registry'[p][key] = i
      /\ \A q \in Hosts, k \in Spaces!StoreKeys : q # p \/ k # key => registry'[q][k] = registry[q][k]
    <2> HIDE DEF i, key, p
    <2> QED BY <1>1, <1>2
<1>8. \A q \in Hosts, k \in Spaces!StoreKeys : registry[q][k] # None => registry'[q][k] = registry[q][k]
    <2> SUFFICES ASSUME NEW q \in Hosts, NEW k \in Spaces!StoreKeys, registry[q][k] # None
                 PROVE  registry'[q][k] = registry[q][k]
        OBVIOUS
    <2>1. CASE q = p /\ k = key
        BY <1>7, <2>1
    <2> QED BY <1>7, <2>1
\* No other store in service is the new one.
<1>9. \A q \in Hosts : registry[q][key] = i => q = p
    <2> SUFFICES ASSUME NEW q \in Hosts, registry[q][key] = i PROVE q = p
        OBVIOUS
    <2>1. registry[q][key] # None /\ i \in DOMAIN made
        BY <1>2, <1>6 DEF SpacesInv, RegistrySound
    <2>2. found # None
        BY <2>1
    <2>3. registry[q][key] = registry[p][key]
        BY <2>2
    <2> HIDE DEF i
    <2> QED BY <1>2, <2>2, <2>3 DEF SpacesInv, RegistrySound
<1> HIDE DEF i, key, p, found
<1>10. /\ Context(t)'
       /\ bound' \in [Callers -> Spaces!StoreIds \cup {None}]
       /\ request' \in [Callers -> Spaces!Call \cup {None}]
       /\ \A u \in Callers : u # t => bound'[u] = bound[u] /\ request'[u] = request[u]
    <2>1. CASE key = Spaces!Global
        <3>1. request' = [request EXCEPT ![t] = fetch] /\ UNCHANGED bound
            BY <1>1, <2>1
        <3>2. /\ fetch \in Spaces!Call /\ fetch.at = "fetch" /\ fetch.key = r.key /\ fetch.owner = r.owner
              /\ fetch.outer = r.outer /\ fetch.got = r.got
            BY <1>2 DEF Spaces!Call
        <3>3. fetch # None
            BY <3>2
        <3> HIDE DEF fetch
        <3>4. request'[t] = fetch
            BY <3>1
        <3>5. Context(t)'
            BY <1>1, <1>4, <2>1, <3>1, <3>2, <3>3, <3>4 DEF Context, Spaces!OwnerOf, Spaces!Working, key
        <3> QED BY <3>1, <3>2, <3>5
    <2>2. CASE key # Spaces!Global
        <3>1. Spaces!Serve(t, r, i) /\ UNCHANGED <<home, serving>>
            BY <1>1, <2>2
        <3>2. r.key = key /\ registry'[home[t]][r.key] = i
            BY <1>7 DEF key, p
        <3>3. /\ r.key # Spaces!Global /\ r.owner = r.key /\ r.got = None
              /\ r.outer = (IF t \in serving THEN 0 ELSE None) /\ bound[t] = r.outer
              /\ i \in DOMAIN made' /\ made'[i] = r.key /\ i \in Spaces!StoreIds /\ r \in Spaces!Call
            BY <1>1, <1>2, <1>4, <1>6, <2>2, <3>2
        <3> HIDE DEF r
        <3> QED BY ONLY Spaces!NamespaceAssumption, SpacesInv, t \in Callers, <3>1, <3>2, <3>3,
                   ServeContext
    <2> QED BY <2>1, <2>2
<1>11. Spaces!TypeOK' /\ (Len(made) <= MaxMade)'
    BY <1>1, <1>6, <1>7, <1>10 DEF Spaces!TypeOK
<1>12. RegistrySound'
    <2> SUFFICES ASSUME NEW q \in Hosts, NEW k \in Spaces!StoreKeys, registry'[q][k] # None
                 PROVE  /\ registry'[q][k] \in DOMAIN made' /\ made'[registry'[q][k]] = k
                        /\ \A q2 \in Hosts : registry'[q2][k] = registry'[q][k] => q2 = q
        BY DEF RegistrySound
    <2>1. CASE k = key
        <3>1. CASE q = p
            BY <1>6, <1>7, <1>9, <2>1, <3>1
        <3>2. CASE q # p
            BY <1>6, <1>7, <1>9, <2>1, <3>2 DEF SpacesInv, RegistrySound
        <3> QED BY <3>1, <3>2
    <2>2. CASE k # key
        BY <1>6, <1>7, <2>2 DEF SpacesInv, RegistrySound
    <2> QED BY <2>1, <2>2
<1>13. StoresClean'
    <2>1. \A j \in DOMAIN made' : inMemory[j] \subseteq {made'[j]}
        <3> TAKE j \in DOMAIN made'
        <3>1. CASE j \in DOMAIN made
            BY <1>6, <3>1 DEF SpacesInv, StoresClean
        <3>2. CASE j \notin DOMAIN made
            <4>1. j = i /\ j \in Spaces!StoreIds /\ j # 0
                BY <1>1, <1>6, <3>2
            <4> QED BY <3>2, <4>1 DEF SpacesInv, StoresClean
        <3> QED BY <3>1, <3>2
    <2> QED BY <1>1, <1>6, <2>1 DEF SpacesInv, StoresClean
<1>14. KeptSound'
    BY <1>1, <1>8 DEF SpacesInv, KeptSound
<1>15. ContextSound'
    <2>1. ASSUME NEW u \in Callers, u # t PROVE Context(u)'
        <3>1. /\ bound'[u] = bound[u] /\ request'[u] = request[u] /\ UNCHANGED <<home, serving>>
              /\ home[u] \in Hosts
            BY <1>1, <1>10, <2>1
        <3>2. \A k \in Spaces!StoreKeys : registry[home[u]][k] # None
                  => registry'[home[u]][k] = registry[home[u]][k]
            BY <1>8, <3>1
        <3> QED BY <1>6, <3>1, <3>2, OtherContext
    <2> QED BY <1>10, <2>1 DEF ContextSound
<1> QED BY <1>11, <1>12, <1>13, <1>14, <1>15 DEF SpacesInv

LEMMA SpacesFetch ==
    ASSUME Spaces!NamespaceAssumption, SpacesInv, NEW t \in Callers, Spaces!Fetch(t)
    PROVE  SpacesInv'
<1> USE SpacesTyped
<1> DEFINE r == request[t]
           single == registry[home[t]][Spaces!Global]
           work == [r EXCEPT !.at = "work", !.got = single]
<1>1. /\ r # None /\ r.at = "fetch" /\ request' = [request EXCEPT ![t] = work]
      /\ UNCHANGED <<backend, home, registry, made, inMemory, files, bound, serving, kept>>
    BY DEF Spaces!Fetch
<1>2. r \in Spaces!Call /\ single \in Spaces!StoreIds \cup {None} /\ home[t] \in Hosts
    BY <1>1
<1>3. /\ work \in Spaces!Call /\ work.at = "work" /\ work.key = r.key /\ work.owner = r.owner
      /\ work.outer = r.outer /\ work.got = single
    BY <1>2 DEF Spaces!Call
<1>4. /\ r.outer = None /\ bound[t] = None /\ t \notin serving
      /\ r.key = Spaces!Global /\ r.owner = Spaces!Global
    BY <1>1 DEF SpacesInv, ContextSound, Context, Spaces!OwnerOf
<1>5. single # None => single \in DOMAIN made /\ made[single] = Spaces!Global
    BY <1>2 DEF SpacesInv, RegistrySound
<1>6. work # None
    BY <1>3
<1> HIDE DEF work, single
<1>7. request'[t] = work /\ Spaces!Current(t)' = single
    BY <1>1, <1>3, <1>4 DEF Spaces!Current
<1>8. Context(t)'
    BY <1>1, <1>3, <1>4, <1>5, <1>6, <1>7 DEF Context, Serves, Spaces!OwnerOf, Spaces!Working, single
<1>9. request' \in [Callers -> Spaces!Call \cup {None}]
    BY <1>1, <1>3
<1>10. Spaces!TypeOK' /\ (Len(made) <= MaxMade)'
    BY <1>1, <1>9 DEF Spaces!TypeOK
<1>11. RegistrySound' /\ StoresClean' /\ KeptSound'
    BY <1>1 DEF SpacesInv, RegistrySound, StoresClean, KeptSound
<1>12. \A u \in Callers : u # t => Context(u)'
    BY <1>1, OtherContext
<1>13. ContextSound'
    BY <1>8, <1>12 DEF ContextSound
<1> QED BY <1>10, <1>11, <1>13 DEF SpacesInv

\* A call that ends leaves the caller's binding as it found it.
LEMMA LeaveContext ==
    ASSUME Spaces!NamespaceAssumption, SpacesInv, NEW t \in Callers, request[t] # None, Spaces!Leave(t),
           UNCHANGED <<home, registry, made, serving>>
    PROVE  /\ ContextSound'
           /\ bound' \in [Callers -> Spaces!StoreIds \cup {None}]
           /\ request' \in [Callers -> Spaces!Call \cup {None}]
<1> USE SpacesTyped
<1>1. /\ bound' = [bound EXCEPT ![t] = request[t].outer]
      /\ request' = [request EXCEPT ![t] = None]
    BY DEF Spaces!Leave, Spaces!Restored
<1>2. request[t].outer \in Spaces!StoreIds \cup {None}
    BY DEF Spaces!Call
<1>3. request[t].outer = IF t \in serving THEN 0 ELSE None
    BY DEF SpacesInv, ContextSound, Context
<1>4. Context(t)'
    BY <1>1, <1>3 DEF Context
<1>5. \A u \in Callers : u # t => Context(u)'
    BY <1>1, OtherContext
<1> QED BY <1>1, <1>2, <1>4, <1>5 DEF ContextSound

LEMMA SpacesLeave ==
    ASSUME Spaces!NamespaceAssumption, SpacesInv, NEW t \in Callers, Spaces!Export(t) \/ Spaces!Fail(t)
    PROVE  SpacesInv'
<1> USE SpacesTyped
<1>1. /\ request[t] # None /\ Spaces!Leave(t)
      /\ UNCHANGED <<backend, home, registry, made, inMemory, files, serving, kept>>
    BY DEF Spaces!Export, Spaces!Fail, Spaces!Working
<1>2. /\ ContextSound'
      /\ bound' \in [Callers -> Spaces!StoreIds \cup {None}]
      /\ request' \in [Callers -> Spaces!Call \cup {None}]
    BY <1>1, LeaveContext
<1>3. Spaces!TypeOK' /\ (Len(made) <= MaxMade)'
    BY <1>1, <1>2 DEF Spaces!TypeOK
<1>4. RegistrySound' /\ StoresClean' /\ KeptSound'
    BY <1>1 DEF SpacesInv, RegistrySound, StoresClean, KeptSound
<1> QED BY <1>2, <1>3, <1>4 DEF SpacesInv

LEMMA SpacesStore ==
    ASSUME Spaces!NamespaceAssumption, SpacesInv, NEW t \in Callers, Spaces!Store(t)
    PROVE  SpacesInv'
<1> USE SpacesTyped
<1> DEFINE i == Spaces!Current(t)
           r == request[t]
<1>1. PICK filed \in (IF r.late THEN {FALSE, Spaces!Filed(i)} ELSE {Spaces!Filed(i)}) :
          Spaces!Write(i, r.owner, filed)
    BY DEF Spaces!Store
<1>2. /\ Spaces!Working(t) /\ r # None /\ Spaces!Leave(t)
      /\ kept' = IF r.late \/ r.owner = Spaces!Tenant THEN kept ELSE kept \cup {<<home[t], r.key>>}
      /\ UNCHANGED <<backend, home, registry, made, serving>>
    BY DEF Spaces!Store, Spaces!Working
<1>3. /\ r.owner = Spaces!OwnerOf(t, r.key) /\ Serves(i, r.owner)
      /\ ~r.late /\ r.owner # Spaces!Tenant => registry[home[t]][r.key] = i
    BY <1>2 DEF SpacesInv, ContextSound, Context
<1>4. r \in Spaces!Call /\ r.key \in Spaces!StoreKeys /\ r.owner \in Spaces!Owners /\ home[t] \in Hosts
    BY <1>2 DEF Spaces!Call
<1>5. i \in Spaces!StoreIds /\ (i # 0 => i \in DOMAIN made /\ made[i] = r.owner)
      /\ (i = 0 => r.owner = Spaces!Tenant)
    BY <1>3 DEF Serves, Spaces!StoreIds
<1>6. /\ files' = IF filed THEN [files EXCEPT ![made[i]] = files[made[i]] \cup {r.owner}] ELSE files
      /\ inMemory' = IF filed THEN inMemory ELSE [inMemory EXCEPT ![i] = inMemory[i] \cup {r.owner}]
      /\ filed => backend = "sqlite" /\ i # 0
      /\ ~r.late /\ backend # "sqlite" => ~filed
      /\ ~r.late /\ backend = "sqlite" /\ i # 0 => filed
    BY <1>1 DEF Spaces!Write, Spaces!Filed
<1>7. /\ ContextSound'
      /\ bound' \in [Callers -> Spaces!StoreIds \cup {None}]
      /\ request' \in [Callers -> Spaces!Call \cup {None}]
    BY <1>2, LeaveContext
<1> HIDE DEF i, r
<1>8. /\ files' \in [Spaces!StoreKeys -> SUBSET Spaces!Owners]
      /\ inMemory' \in [Spaces!StoreIds -> SUBSET Spaces!Owners]
      /\ \A k \in Spaces!StoreKeys : files[k] \subseteq files'[k]
      /\ \A j \in Spaces!StoreIds : inMemory[j] \subseteq inMemory'[j]
    <2>1. CASE filed
        BY <1>4, <1>5, <1>6, <2>1
    <2>2. CASE ~filed
        BY <1>4, <1>5, <1>6, <2>2
    <2> QED BY <2>1, <2>2
<1>9. kept' \subseteq Hosts \X Spaces!StoreKeys
    BY <1>2, <1>4
<1>10. Spaces!TypeOK' /\ (Len(made) <= MaxMade)'
    BY <1>2, <1>7, <1>8, <1>9 DEF Spaces!TypeOK
<1>11. RegistrySound'
    BY <1>2 DEF SpacesInv, RegistrySound
<1>12. StoresClean'
    <2>1. CASE filed
        <3>1. i \in DOMAIN made /\ made[i] = r.owner /\ inMemory' = inMemory
              /\ files' = [files EXCEPT ![made[i]] = files[made[i]] \cup {r.owner}]
            BY <1>5, <1>6, <2>1
        <3> QED BY <1>2, <3>1 DEF SpacesInv, StoresClean
    <2>2. CASE ~filed
        <3>1. files' = files /\ inMemory' = [inMemory EXCEPT ![i] = inMemory[i] \cup {r.owner}]
            BY <1>6, <2>2
        <3>2. inMemory'[0] \subseteq {Spaces!Tenant}
            BY <1>5, <3>1 DEF SpacesInv, StoresClean
        <3>3. \A j \in DOMAIN made : inMemory'[j] \subseteq {made[j]}
            BY <1>5, <3>1 DEF SpacesInv, StoresClean
        <3>4. \A j \in Spaces!StoreIds \ DOMAIN made : j # 0 => inMemory'[j] = {}
            BY <1>5, <3>1 DEF SpacesInv, StoresClean
        <3> QED BY <1>2, <3>1, <3>2, <3>3, <3>4 DEF SpacesInv, StoresClean
    <2> QED BY <2>1, <2>2
<1>13. KeptSound'
    <2> SUFFICES ASSUME NEW e \in kept'
                 PROVE  IF backend = "sqlite" THEN e[2] \in files'[e[2]]
                        ELSE /\ registry[e[1]][e[2]] # None
                             /\ e[2] \in inMemory'[registry[e[1]][e[2]]]
        BY <1>2 DEF KeptSound
    <2>1. e[1] \in Hosts /\ e[2] \in Spaces!StoreKeys
        BY <1>9
    <2>2. CASE e \in kept
        <3>1. IF backend = "sqlite" THEN e[2] \in files[e[2]]
              ELSE registry[e[1]][e[2]] # None /\ e[2] \in inMemory[registry[e[1]][e[2]]]
            BY <2>2 DEF SpacesInv, KeptSound
        <3>2. registry[e[1]][e[2]] \in Spaces!StoreIds \cup {None}
            BY <2>1
        <3> QED BY <1>8, <2>1, <3>1, <3>2
    <2>3. CASE e \notin kept
        <3>1. e = <<home[t], r.key>> /\ ~r.late /\ r.owner # Spaces!Tenant
            BY <1>2, <2>3
        <3>2. e[1] = home[t] /\ e[2] = r.key /\ registry[home[t]][r.key] = i /\ i # 0
            BY <1>3, <1>5, <3>1
        <3>3. r.owner = r.key /\ made[i] = r.key
            BY <1>3, <1>5, <3>1, <3>2 DEF Spaces!OwnerOf
        <3>4. CASE backend = "sqlite"
            BY <1>4, <1>6, <3>1, <3>2, <3>3, <3>4
        <3>5. CASE backend # "sqlite"
            BY <1>4, <1>5, <1>6, <3>1, <3>2, <3>3, <3>5
        <3> QED BY <3>4, <3>5
    <2> QED BY <2>2, <2>3
<1> QED BY <1>7, <1>10, <1>11, <1>12, <1>13 DEF SpacesInv

LEMMA SpacesReset ==
    ASSUME Spaces!NamespaceAssumption, SpacesInv, NEW p \in Hosts, NEW keys \in SUBSET Spaces!StoreKeys,
           Spaces!Reset(p, keys)
    PROVE  SpacesInv'
<1> USE SpacesTyped
<1> DEFINE gone == {registry[p][k] : k \in {x \in keys : registry[p][x] # None}}
           late(t) == [request[t] EXCEPT !.late = TRUE]
<1>1. /\ registry' = [registry EXCEPT ![p] =
             [k \in Spaces!StoreKeys |-> IF k \in keys THEN None ELSE registry[p][k]]]
      /\ inMemory' = [i \in Spaces!StoreIds |-> IF i \in gone THEN {} ELSE inMemory[i]]
      /\ files' = [k \in Spaces!StoreKeys |->
             IF backend = "sqlite" /\ \E i \in gone : made[i] = k THEN {} ELSE files[k]]
      /\ kept' = {e \in kept : ~(e[2] \in keys /\ (e[1] = p \/ backend = "sqlite"))}
      /\ request' = [t \in Callers |-> IF request[t] # None /\ home[t] = p THEN late(t) ELSE request[t]]
      /\ UNCHANGED <<backend, home, made, bound, serving>>
    BY DEF Spaces!Reset
<1>2. /\ registry' \in [Hosts -> [Spaces!StoreKeys -> Spaces!StoreIds \cup {None}]]
      /\ \A q \in Hosts, k \in Spaces!StoreKeys :
             registry'[q][k] = IF q = p /\ k \in keys THEN None ELSE registry[q][k]
    BY <1>1
<1>3. ASSUME NEW t \in Callers, request[t] # None
      PROVE  /\ late(t) \in Spaces!Call /\ late(t).at = request[t].at /\ late(t).key = request[t].key
             /\ late(t).owner = request[t].owner /\ late(t).outer = request[t].outer
             /\ late(t).got = request[t].got /\ late(t).late /\ late(t) # None
    <2>1. request[t] \in Spaces!Call
        BY <1>3
    <2>2. late(t) \in Spaces!Call
        BY <2>1 DEF Spaces!Call
    <2>3. late(t) # None
        BY <2>2
    <2> QED BY <2>1, <2>2, <2>3 DEF Spaces!Call
<1>4. \A i \in gone : i \in DOMAIN made /\ made[i] \in keys
    BY DEF SpacesInv, RegistrySound
<1> HIDE DEF gone, late
<1>5. request' \in [Callers -> Spaces!Call \cup {None}]
    BY <1>1, <1>3
<1>6. /\ inMemory' \in [Spaces!StoreIds -> SUBSET Spaces!Owners]
      /\ files' \in [Spaces!StoreKeys -> SUBSET Spaces!Owners]
      /\ kept' \subseteq Hosts \X Spaces!StoreKeys
    BY <1>1
<1>7. Spaces!TypeOK' /\ (Len(made) <= MaxMade)'
    BY <1>1, <1>2, <1>5, <1>6 DEF Spaces!TypeOK
<1>8. RegistrySound'
    BY <1>1, <1>2 DEF SpacesInv, RegistrySound
<1>9. StoresClean'
    <2>1. \A i \in Spaces!StoreIds : inMemory'[i] \subseteq inMemory[i]
        BY <1>1
    <2>2. \A k \in Spaces!StoreKeys : files'[k] \subseteq files[k]
        BY <1>1
    <2>3. 0 \in Spaces!StoreIds
        BY DEF Spaces!StoreIds
    <2> QED BY <1>1, <2>1, <2>2, <2>3 DEF SpacesInv, StoresClean
<1>10. ContextSound'
    <2> SUFFICES ASSUME NEW t \in Callers PROVE Context(t)'
        BY DEF ContextSound
    <2>1. Context(t) /\ home[t] \in Hosts
        BY DEF SpacesInv, ContextSound
    <2>2. CASE request[t] # None /\ home[t] = p
        <3>1. request'[t] = late(t) /\ bound'[t] = bound[t] /\ (t \in serving' <=> t \in serving)
            BY <1>1, <2>2
        <3>2. (Spaces!Working(t)' <=> Spaces!Working(t)) /\ Spaces!Current(t)' = Spaces!Current(t)
            BY <1>1, <1>3, <2>2, <3>1 DEF Spaces!Working, Spaces!Current
        <3> QED BY <1>1, <1>3, <2>1, <2>2, <3>1, <3>2 DEF Context, Serves, Spaces!OwnerOf
    <2>3. CASE ~(request[t] # None /\ home[t] = p)
        <3>1. request'[t] = request[t] /\ bound'[t] = bound[t] /\ (t \in serving' <=> t \in serving)
            BY <1>1, <2>3
        <3>2. (Spaces!Working(t)' <=> Spaces!Working(t)) /\ Spaces!Current(t)' = Spaces!Current(t)
            BY <1>1, <3>1 DEF Spaces!Working, Spaces!Current
        <3>3. request[t] # None => request[t].key \in Spaces!StoreKeys
            BY DEF Spaces!Call
        <3>4. request[t] # None => registry'[home[t]][request[t].key] = registry[home[t]][request[t].key]
            BY <1>2, <2>1, <2>3, <3>3
        <3> QED BY <1>1, <2>1, <3>1, <3>2, <3>4 DEF Context, Serves, Spaces!OwnerOf, Spaces!Working
    <2> QED BY <2>2, <2>3
<1>11. KeptSound'
    <2> SUFFICES ASSUME NEW e \in kept'
                 PROVE  IF backend = "sqlite" THEN e[2] \in files'[e[2]]
                        ELSE /\ registry'[e[1]][e[2]] # None
                             /\ e[2] \in inMemory'[registry'[e[1]][e[2]]]
        BY <1>1 DEF KeptSound
    <2>1. /\ e \in kept /\ ~(e[2] \in keys /\ (e[1] = p \/ backend = "sqlite"))
          /\ e[1] \in Hosts /\ e[2] \in Spaces!StoreKeys
        BY <1>1
    <2>2. CASE backend = "sqlite"
        <3>1. e[2] \in files[e[2]] /\ e[2] \notin keys
            BY <2>1, <2>2 DEF SpacesInv, KeptSound
        <3>2. ~\E i \in gone : made[i] = e[2]
            BY <1>4, <3>1
        <3> QED BY <1>1, <2>1, <2>2, <3>1, <3>2
    <2>3. CASE backend # "sqlite"
        <3> DEFINE i == registry[e[1]][e[2]]
        <3>1. i # None /\ e[2] \in inMemory[i] /\ i \in DOMAIN made /\ made[i] = e[2]
            BY <2>1, <2>3 DEF SpacesInv, KeptSound, RegistrySound
        <3>2. registry'[e[1]][e[2]] = i
            BY <1>2, <2>1
        <3>3. i \notin gone
            <4> SUFFICES ASSUME i \in gone PROVE FALSE
                OBVIOUS
            <4>1. PICK k \in keys : registry[p][k] # None /\ i = registry[p][k]
                BY DEF gone
            <4>2. made[i] = k
                BY <4>1 DEF SpacesInv, RegistrySound
            <4>3. k = e[2] /\ registry[p][e[2]] = registry[e[1]][e[2]]
                BY <3>1, <4>1, <4>2
            <4>4. p = e[1]
                BY <2>1, <3>1, <4>3 DEF SpacesInv, RegistrySound
            <4> QED BY <2>1, <4>3, <4>4
        <3> HIDE DEF i
        <3> QED BY <1>1, <2>3, <3>1, <3>2, <3>3
    <2> QED BY <2>2, <2>3
<1> QED BY <1>7, <1>8, <1>9, <1>10, <1>11 DEF SpacesInv

LEMMA SpacesStep ==
    ASSUME Spaces!NamespaceAssumption, SpacesInv, [Spaces!Next]_(Spaces!storeVars)
    PROVE  SpacesInv'
<1>1. CASE UNCHANGED Spaces!storeVars
    <2>1. UNCHANGED <<backend, home, registry, made, inMemory, files, bound, request, serving, kept>>
        BY <1>1 DEF Spaces!storeVars
    <2>2. Spaces!TypeOK' /\ (Len(made) <= MaxMade)' /\ RegistrySound' /\ StoresClean' /\ KeptSound'
        BY <2>1 DEF SpacesInv, Spaces!TypeOK, RegistrySound, StoresClean, KeptSound
    <2>3. ContextSound'
        BY <2>1 DEF SpacesInv, ContextSound, Context, Spaces!Working, Spaces!Current, Spaces!OwnerOf,
           Serves
    <2> QED BY <2>2, <2>3 DEF SpacesInv
<1>2. {Spaces!Global} \subseteq Spaces!StoreKeys /\ Spaces!StoreKeys \ {Spaces!Global} \subseteq Spaces!StoreKeys
    BY DEF Spaces!StoreKeys
<1>3. ASSUME NEW p \in Hosts, Spaces!Reset(p, {Spaces!Global}) \/ Spaces!Reset(p, Spaces!StoreKeys \ {Spaces!Global})
      PROVE  SpacesInv'
    BY <1>2, <1>3, SpacesReset
<1> QED BY <1>1, <1>3, SpacesMiddleware, SpacesBegin, SpacesBuild, SpacesFetch, SpacesStore,
           SpacesLeave DEF Spaces!Next

\* The namespaces' stores, for any processes, callers, environments and backends: no tenant
\* reads another's entries, and each finds its own, whatever calls nest, fail or outlive a
\* reset.
THEOREM NamespacesAlwaysHold ==
    Spec => []NamespacesHold
<1> DEFINE Inv == part = "namespaces" => SpacesInv
<1>1. Init => Inv
    BY PartInit, SpacesInit, SharingAssumption
<1>2. Inv /\ [Next]_vars => Inv'
    BY PartStep, SpacesStep, SharingAssumption
<1>3. Inv => NamespacesHold
    BY SpacesHold, SharingAssumption DEF SpacesInv, NamespacesHold
<1> QED BY <1>1, <1>2, <1>3, PTL DEF Spec

-----------------------------------------------------------------------------
(* StoreQueries: the tools' questions about one hash.                      *)

AskFields ==
    {"tool", "hash", "limit", "clock", "step", "todo", "got", "total", "answer", "seen", "lost", "grew", "moved"}

\* What a call about one hash answered was so at some moment of it.
AnswerTrue(c) ==
    c.answer # "refused" =>
        /\ c.answer \in {"found", "unmatched", "available"} => c.hash \in c.seen
        /\ c.answer \in {"missing", "expired", "available"} => c.hash \in c.lost
        /\ c.answer = "found" /\ c.tool = "query" => Questions!HasItems(c.hash)
        /\ c.answer = "unmatched" => ~Questions!HasItems(c.hash) \/ c.hash \in c.lost

\* What a call about one hash has established when it comes to a step.  The clock that a
\* status was read with may be old, but an entry that it does not make expired was live at
\* that clock, or stored since.
HashSound(c) ==
    /\ c.hash \in Hashes
    /\ c.step \in {"clock", "status"} => c.hash \in c.lost
    /\ c.step = "status" =>
        /\ c.clock \in Nat /\ c.clock <= tick
        /\ entries[c.hash] # None /\ ~Questions!Expired(c.hash, c.clock) => c.hash \in c.seen
    /\ c.tool = "query" /\ c.step = "decode" => Questions!HasItems(c.hash) /\ c.hash \in c.seen
    /\ c.step = "exists" => ~Questions!HasItems(c.hash) \/ c.hash \in c.lost
    /\ c.step = "done" => AnswerTrue(c)

\* A running call has witnessed the present.
AskSound(c) ==
    c # None =>
        /\ DOMAIN c = AskFields
        /\ c.step # "done" => Questions!Live \subseteq c.seen /\ Hashes \ Questions!Live \subseteq c.lost
        /\ c.step \in {"exists", "clock", "status"} => c.tool \in {"retrieve", "query"}
        /\ c.step \in {"keys", "open"} => c.tool \notin {"retrieve", "query"}
        /\ c.tool \in {"retrieve", "query"} => HashSound(c)

QueriesInv ==
    /\ tick \in Nat
    /\ entries \in [Hashes -> Nat \cup {None}]
    /\ count \in [Hashes -> Nat] /\ shown \in [Hashes -> Nat]
    /\ DOMAIN ask = Askers
    /\ \A w \in Askers : AskSound(ask[w])
    /\ Questions!CountsShown

LEMMA QueriesInit ==
    ASSUME Questions!QueriesAssumption, Questions!Init
    PROVE  QueriesInv
BY DEF Questions!Init, Questions!QueriesAssumption, QueriesInv, Questions!CountsShown, AskSound

\* What a step does to the rows: each stays, goes, or is live afterwards.
RowsMoved ==
    \A h \in Hashes : entries'[h] = entries[h] \/ entries'[h] = None \/ h \in Questions!Live'

\* A call that others' steps leave alone, when they neither end nor begin an entry's life.
LEMMA AskKept ==
    ASSUME Questions!QueriesAssumption, NEW CONSTANT c, AskSound(c), RowsMoved,
           tick \in Nat, tick' = tick, Questions!Live' = Questions!Live
    PROVE  AskSound(c)'
<1>1. ASSUME HashSound(c), c # None, DOMAIN c = AskFields,
             c.step # "done" => Questions!Live \subseteq c.seen /\ Hashes \ Questions!Live \subseteq c.lost
      PROVE  HashSound(c)'
    <2>1. AnswerTrue(c)' <=> AnswerTrue(c)
        BY DEF AnswerTrue, Questions!HasItems
    <2>2. ASSUME c.step = "status", entries'[c.hash] # None, ~Questions!Expired(c.hash, c.clock)'
          PROVE  c.hash \in c.seen
        <3>1. CASE c.hash \in Questions!Live
            BY <1>1, <2>2, <3>1
        <3>2. CASE c.hash \notin Questions!Live
            <4>1. entries'[c.hash] = entries[c.hash]
                BY <1>1, <2>2, <3>2 DEF RowsMoved, HashSound
            <4> QED BY <1>1, <2>2, <4>1 DEF HashSound, Questions!Expired
        <3> QED BY <3>1, <3>2
    <2> QED BY <1>1, <2>1, <2>2 DEF HashSound, Questions!HasItems
<1> QED BY <1>1 DEF AskSound

\* A call that witnesses a step of others.
LEMMA AskWitnesses ==
    ASSUME Questions!QueriesAssumption, NEW CONSTANT c, AskSound(c), RowsMoved,
           tick \in Nat, tick' \in Nat, tick <= tick',
           NEW CONSTANT grows, NEW CONSTANT moves, NEW CONSTANT d, d = Questions!Witness(c, grows, moves)
    PROVE  AskSound(d)'
<1>1. CASE c = None
    BY <1>1 DEF Questions!Witness, AskSound
<1>2. CASE c # None /\ c.step = "done"
    <2>1. d = c /\ (HashSound(c) => HashSound(c)')
        BY <1>2 DEF Questions!Witness, HashSound, AnswerTrue, Questions!HasItems
    <2> QED BY <1>2, <2>1 DEF AskSound
<1>3. CASE c # None /\ c.step # "done"
    <2>1. /\ DOMAIN c = AskFields
          /\ d = [c EXCEPT !.seen = @ \cup Questions!Live', !.lost = @ \cup (Hashes \ Questions!Live'),
                           !.grew = @ \/ grows, !.moved = @ \/ moves]
        BY <1>3 DEF Questions!Witness, AskSound
    <2>2. /\ DOMAIN d = AskFields /\ d.step = c.step /\ d.tool = c.tool /\ d.hash = c.hash
          /\ d.clock = c.clock /\ d.seen = c.seen \cup Questions!Live'
          /\ d.lost = c.lost \cup (Hashes \ Questions!Live')
        BY <2>1 DEF AskFields
    <2>3. ASSUME HashSound(c) PROVE HashSound(d)'
        <3>1. c.step = "status" => /\ d.clock \in Nat /\ d.clock <= tick'
            BY <2>2, <2>3 DEF HashSound
        <3>2. ASSUME c.step = "status", entries'[c.hash] # None, ~Questions!Expired(c.hash, c.clock)'
              PROVE  c.hash \in d.seen
            <4>1. CASE c.hash \in Questions!Live'
                BY <2>2, <4>1
            <4>2. CASE c.hash \notin Questions!Live'
                <5>1. entries'[c.hash] = entries[c.hash]
                    BY <2>3, <3>2, <4>2 DEF RowsMoved, HashSound
                <5> QED BY <2>2, <2>3, <3>2, <5>1 DEF HashSound, Questions!Expired
            <4> QED BY <4>1, <4>2
        <3> QED BY <1>3, <2>2, <2>3, <3>1, <3>2 DEF HashSound, Questions!HasItems
    <2> QED BY <1>3, <2>2, <2>3 DEF AskSound
<1> QED BY <1>1, <1>2, <1>3

AsksSound == DOMAIN ask = Askers /\ \A w \in Askers : AskSound(ask[w])

\* A call goes on as e, and every running call witnesses the step.
LEMMA AsksContinue ==
    ASSUME Questions!QueriesAssumption, AsksSound, RowsMoved,
           tick \in Nat, tick' \in Nat, tick <= tick',
           NEW w, NEW CONSTANT e, AskSound(e), Questions!Continue(w, e)
    PROVE  AsksSound'
<1>1. ASSUME NEW v \in Askers PROVE AskSound(ask[v])'
    <2>1. PICK c : c = IF v = w THEN e ELSE ask[v]
        OBVIOUS
    <2>2. PICK d : d = Questions!Witness(c, FALSE, FALSE)
        OBVIOUS
    <2>3. AskSound(c) /\ ask'[v] = d
        BY <2>1, <2>2 DEF AsksSound, Questions!Continue
    <2>4. AskSound(d)'
        BY <2>2, <2>3, AskWitnesses
    <2> QED BY <2>3, <2>4 DEF AskSound, HashSound, AnswerTrue
<1> QED BY <1>1 DEF AsksSound, Questions!Continue

\* A step of others that the running calls witness.
LEMMA AsksWitness ==
    ASSUME Questions!QueriesAssumption, AsksSound, RowsMoved,
           tick \in Nat, tick' \in Nat, tick <= tick', NEW CONSTANT grows, NEW CONSTANT moves,
           ask' = [v \in Askers |-> Questions!Witness(ask[v], grows, moves)]
    PROVE  AsksSound'
<1>1. ASSUME NEW v \in Askers PROVE AskSound(ask[v])'
    <2>1. PICK c : c = ask[v]
        OBVIOUS
    <2>2. PICK d : d = Questions!Witness(c, grows, moves)
        OBVIOUS
    <2>3. AskSound(c) /\ ask'[v] = d
        BY <2>1, <2>2 DEF AsksSound
    <2>4. AskSound(d)'
        BY <2>2, <2>3, AskWitnesses
    <2> QED BY <2>3, <2>4 DEF AskSound, HashSound, AnswerTrue
<1> QED BY <1>1 DEF AsksSound

\* A call is replaced by e while what is live stays.
LEMMA AsksReplace ==
    ASSUME Questions!QueriesAssumption, AsksSound, RowsMoved,
           tick \in Nat, tick' = tick, Questions!Live' = Questions!Live,
           NEW w \in Askers, NEW CONSTANT e, AskSound(e)', ask' = [ask EXCEPT ![w] = e]
    PROVE  AsksSound'
<1>1. ASSUME NEW v \in Askers PROVE AskSound(ask[v])'
    <2>1. CASE v = w
        <3>1. ask'[v] = e
            BY <2>1 DEF AsksSound
        <3> QED BY <3>1 DEF AskSound, HashSound, AnswerTrue
    <2>2. CASE v # w
        <3>1. PICK c : c = ask[v]
            OBVIOUS
        <3>2. AskSound(c) /\ ask'[v] = c
            BY <2>2, <3>1 DEF AsksSound
        <3>3. AskSound(c)'
            BY <3>2, AskKept
        <3> QED BY <3>2, <3>3 DEF AskSound, HashSound, AnswerTrue
    <2> QED BY <2>1, <2>2
<1> QED BY <1>1 DEF AsksSound

\* A call is answered: what the answer says was so.
LEMMA AsksAnswered ==
    ASSUME Questions!QueriesAssumption, AsksSound, RowsMoved,
           tick \in Nat, tick' = tick, Questions!Live' = Questions!Live,
           NEW w \in Askers, Questions!Running(w), NEW CONSTANT answer, NEW CONSTANT got,
           Questions!Answer(w, answer, got),
           ask[w].tool \in {"retrieve", "query"} =>
               AnswerTrue([answer |-> answer, hash |-> ask[w].hash, tool |-> ask[w].tool,
                           seen |-> ask[w].seen, lost |-> ask[w].lost])
    PROVE  AsksSound'
<1>1. PICK c : c = ask[w]
    OBVIOUS
<1>2. PICK e : e = [c EXCEPT !.step = "done", !.answer = answer, !.got = got, !.todo = {}]
    OBVIOUS
<1>3. c # None /\ c.step # "done" /\ AskSound(c) /\ DOMAIN c = AskFields
    BY <1>1 DEF AsksSound, Questions!Running, AskSound
<1>4. /\ DOMAIN e = AskFields /\ e.step = "done" /\ e.answer = answer /\ e.tool = c.tool
      /\ e.hash = c.hash /\ e.seen = c.seen /\ e.lost = c.lost
    BY <1>2, <1>3 DEF AskFields
<1>5. e.tool \in {"retrieve", "query"} => e.hash \in Hashes /\ AnswerTrue(e)
    BY <1>1, <1>3, <1>4 DEF AskSound, HashSound, AnswerTrue
<1>6. AskSound(e)'
    BY <1>4, <1>5 DEF AskSound, HashSound, AnswerTrue, Questions!HasItems
<1>7. ask' = [ask EXCEPT ![w] = e]
    BY <1>1, <1>2 DEF Questions!Answer
<1> QED BY <1>6, <1>7, AsksReplace

\* An expired row that is reaped was not live.
LEMMA ReapKeepsLive ==
    ASSUME QueriesInv, NEW h \in Hashes, Questions!Reap(h), h \notin Questions!Live, tick' = tick
    PROVE  /\ Questions!Live' = Questions!Live /\ RowsMoved
           /\ entries' \in [Hashes -> Nat \cup {None}] /\ count' \in [Hashes -> Nat]
           /\ shown' = shown => Questions!CountsShown'
<1>1. /\ entries' = [entries EXCEPT ![h] = None] /\ count' = [count EXCEPT ![h] = 0]
    BY DEF Questions!Reap
<1>2. \A g \in Hashes : entries'[g] = IF g = h THEN None ELSE entries[g]
    BY <1>1 DEF QueriesInv
<1>3. \A g \in Hashes : g \in Questions!Live' <=> g \in Questions!Live
    BY <1>2 DEF Questions!Live, Questions!LiveAt, Questions!Expired
<1>4. Questions!Live' \subseteq Hashes /\ Questions!Live \subseteq Hashes
    BY DEF Questions!Live
<1>5. RowsMoved
    BY <1>2 DEF RowsMoved
<1>6. shown' = shown => Questions!CountsShown'
    BY <1>1 DEF QueriesInv, Questions!CountsShown
<1> QED BY <1>1, <1>3, <1>4, <1>5, <1>6 DEF QueriesInv

\* Nothing moves.
LEMMA RowsStill ==
    ASSUME entries' = entries, tick' = tick
    PROVE  Questions!Live' = Questions!Live /\ RowsMoved
BY DEF Questions!Live, Questions!LiveAt, Questions!Expired, RowsMoved

\* Others store, evict or purge entries, and time passes.
LEMMA OthersStep ==
    ASSUME Questions!QueriesAssumption, QueriesInv,
           Questions!Tick \/ \E h \in Hashes : Questions!Store(h) \/ Questions!Drop(h)
    PROVE  QueriesInv'
<1>1. AsksSound /\ None \notin Nat /\ Ttl \in Nat
    BY DEF QueriesInv, AsksSound, Questions!QueriesAssumption
<1>2. ASSUME NEW h \in Hashes, Questions!Store(h) PROVE QueriesInv'
    <2>1. /\ tick' = tick /\ entries' = [entries EXCEPT ![h] = tick]
          /\ count' = [count EXCEPT ![h] = 0] /\ shown' = [shown EXCEPT ![h] = 0]
        BY <1>2 DEF Questions!Store
    <2>2. entries' \in [Hashes -> Nat \cup {None}] /\ count' \in [Hashes -> Nat] /\ shown' \in [Hashes -> Nat]
        BY <2>1 DEF QueriesInv
    <2>3. Questions!CountsShown'
        BY <2>1 DEF QueriesInv, Questions!CountsShown
    <2>4. entries'[h] = tick /\ \A g \in Hashes \ {h} : entries'[g] = entries[g]
        BY <2>1 DEF QueriesInv
    <2>5. h \in Questions!Live'
        BY <1>1, <2>1, <2>4 DEF Questions!Live, Questions!LiveAt, Questions!Expired, QueriesInv
    <2>6. RowsMoved
        BY <2>4, <2>5 DEF RowsMoved
    <2>7. PICK grows, moves : ask' = [v \in Askers |-> Questions!Witness(ask[v], grows, moves)]
        BY <1>2 DEF Questions!Store
    <2>8. AsksSound'
        BY <1>1, <2>1, <2>6, <2>7, AsksWitness DEF QueriesInv
    <2> QED BY <2>1, <2>2, <2>3, <2>8 DEF QueriesInv, AsksSound
<1>3. ASSUME NEW h \in Hashes, Questions!Drop(h) PROVE QueriesInv'
    <2>1. /\ tick' = tick /\ shown' = shown /\ entries' = [entries EXCEPT ![h] = None]
          /\ count' = [count EXCEPT ![h] = 0]
        BY <1>3 DEF Questions!Drop
    <2>2. entries' \in [Hashes -> Nat \cup {None}] /\ count' \in [Hashes -> Nat]
        BY <2>1 DEF QueriesInv
    <2>3. Questions!CountsShown'
        BY <2>1 DEF QueriesInv, Questions!CountsShown
    <2>4. RowsMoved /\ tick \in Nat /\ tick' \in Nat /\ tick <= tick'
        BY <2>1 DEF QueriesInv, RowsMoved
    <2>5. PICK moves : moves = TRUE
        OBVIOUS
    <2>6. ask' = [v \in Askers |-> Questions!Witness(ask[v], FALSE, moves)]
        BY <1>3, <2>5, Zenon DEF Questions!Drop
    <2>7. AsksSound'
        BY <1>1, <2>4, <2>6, AsksWitness
    <2> QED BY <2>1, <2>2, <2>3, <2>7 DEF QueriesInv, AsksSound
<1>4. CASE Questions!Tick
    <2>1. tick' = tick + 1 /\ UNCHANGED <<entries, count, shown>>
        BY <1>4 DEF Questions!Tick
    <2>2. PICK moves : ask' = [v \in Askers |-> Questions!Witness(ask[v], FALSE, moves)]
        BY <1>4 DEF Questions!Tick
    <2>3. RowsMoved /\ tick' \in Nat /\ tick <= tick'
        BY <2>1 DEF RowsMoved, QueriesInv
    <2>4. AsksSound'
        BY <1>1, <2>2, <2>3, AsksWitness DEF QueriesInv
    <2> QED BY <2>1, <2>3, <2>4 DEF QueriesInv, AsksSound, Questions!CountsShown
<1> QED BY <1>2, <1>3, <1>4

\* A call begins: what is live now it has seen.
LEMMA BeginStep ==
    ASSUME Questions!QueriesAssumption, QueriesInv, NEW w \in Askers, NEW CONSTANT tool, NEW CONSTANT h,
           NEW CONSTANT limit, NEW CONSTANT first, Questions!Begin(w, tool, h, limit, first),
           tool \in {"retrieve", "query"} => h \in Hashes /\ first \in {"read", "done"},
           first \in {"read", "done", "keys", "open"}
    PROVE  QueriesInv'
<1>1. PICK e : e = [tool |-> tool, hash |-> h, limit |-> limit, clock |-> tick, step |-> first,
            todo |-> {}, got |-> <<>>, total |-> 0,
            answer |-> IF first = "done" THEN "refused" ELSE "none",
            seen |-> Questions!Live, lost |-> Hashes \ Questions!Live, grew |-> FALSE, moved |-> FALSE]
    OBVIOUS
<1>2. ask' = [ask EXCEPT ![w] = e] /\ UNCHANGED <<tick, entries, count, changes, shown>>
    BY <1>1 DEF Questions!Begin
<1>3. AsksSound /\ Questions!Live' = Questions!Live /\ RowsMoved
    BY <1>2, RowsStill DEF QueriesInv, AsksSound
<1>4. /\ DOMAIN e = AskFields /\ e.tool = tool /\ e.hash = h /\ e.step = first
      /\ e.seen = Questions!Live /\ e.lost = Hashes \ Questions!Live
      /\ first = "done" => e.answer = "refused"
    BY <1>1 DEF AskFields
<1>5. tool \in {"retrieve", "query"} => HashSound(e)'
    BY <1>4 DEF HashSound, AnswerTrue
<1>6. AskSound(e)'
    BY <1>3, <1>4, <1>5 DEF AskSound
<1>7. AsksSound'
    BY <1>2, <1>3, <1>6, AsksReplace DEF QueriesInv
<1> QED BY <1>2, <1>7 DEF QueriesInv, AsksSound, Questions!CountsShown

LEMMA AskStep ==
    ASSUME Questions!QueriesAssumption, QueriesInv, NEW w \in Askers,
           \/ \E h \in Hashes \cup {None}, query \in BOOLEAN, filters \in {"none", "some", "bad"} :
                 Questions!AskRetrieve(w, h, query, filters)
           \/ \E limit \in Limits, tool \in {"find", "list"} : Questions!AskPage(w, tool, limit)
    PROVE  QueriesInv'
<1>1. ASSUME NEW h \in Hashes \cup {None}, NEW query \in BOOLEAN, NEW filters \in {"none", "some", "bad"},
             Questions!AskRetrieve(w, h, query, filters)
      PROVE  QueriesInv'
    <2>1. PICK tool, first :
             /\ tool = (IF h = None THEN "rank" ELSE IF query THEN "query" ELSE "retrieve")
             /\ first \in {"done", IF h = None THEN "keys" ELSE "read"}
             /\ Questions!Begin(w, tool, h, MaxResults, first)
        BY <1>1 DEF Questions!AskRetrieve
    <2> QED BY <2>1, BeginStep
<1>2. ASSUME NEW limit \in Limits, NEW tool \in {"find", "list"}, Questions!AskPage(w, tool, limit)
      PROVE  QueriesInv'
    <2>1. PICK first, n : first \in {"done", "open"} /\ Questions!Begin(w, tool, None, n, first)
        BY <1>2 DEF Questions!AskPage
    <2> QED BY <2>1, BeginStep
<1> QED BY <1>1, <1>2

\* What a call about one hash is up to: present or not, its entry is witnessed.
LEMMA HashWitnessed ==
    ASSUME QueriesInv, NEW w \in Askers, Questions!Running(w), ask[w].tool \in {"retrieve", "query"}
    PROVE  /\ ask[w] # None /\ DOMAIN ask[w] = AskFields /\ ask[w].step # "done"
           /\ ask[w].hash \in Hashes /\ HashSound(ask[w])
           /\ Questions!LiveAt(ask[w].hash, tick) <=> ask[w].hash \in Questions!Live
           /\ ask[w].hash \in Questions!Live => ask[w].hash \in ask[w].seen
           /\ ask[w].hash \notin Questions!Live => ask[w].hash \in ask[w].lost
<1>1. AskSound(ask[w]) /\ ask[w] # None /\ ask[w].step # "done"
    BY DEF QueriesInv, Questions!Running
<1>2. ask[w].hash \in Hashes /\ HashSound(ask[w])
    BY <1>1 DEF AskSound, HashSound
<1> QED BY <1>1, <1>2 DEF AskSound, Questions!Live

\* retrieve() answers in the lock section in which it found the entry.
LEMMA RetrieveStep ==
    ASSUME Questions!QueriesAssumption, QueriesInv, NEW w \in Askers, Questions!Retrieve(w)
    PROVE  QueriesInv'
<1>. DEFINE h == ask[w].hash
<1>1. /\ Questions!Running(w) /\ ask[w].tool = "retrieve" /\ tick' = tick /\ tick \in Nat /\ AsksSound
    BY DEF Questions!Retrieve, Questions!At, QueriesInv, AsksSound
<1>2. /\ ask[w] # None /\ DOMAIN ask[w] = AskFields /\ ask[w].step # "done" /\ h \in Hashes
      /\ Questions!LiveAt(h, tick) <=> h \in Questions!Live
      /\ h \in Questions!Live => h \in ask[w].seen
      /\ h \notin Questions!Live => h \in ask[w].lost
    BY <1>1, HashWitnessed
<1>3. CASE Questions!LiveAt(h, tick)
    <2>1. /\ count' = [count EXCEPT ![h] = @ + 1] /\ shown' = [shown EXCEPT ![h] = @ + 1]
          /\ entries' = entries /\ Questions!Answer(w, "found", <<h>>)
        BY <1>3 DEF Questions!Retrieve
    <2>2. Questions!Live' = Questions!Live /\ RowsMoved
        BY <1>1, <2>1, RowsStill
    <2>3. AnswerTrue([answer |-> "found", hash |-> ask[w].hash, tool |-> ask[w].tool,
                      seen |-> ask[w].seen, lost |-> ask[w].lost])
        BY <1>1, <1>2, <1>3 DEF AnswerTrue
    <2>4. AsksSound'
        BY <1>1, <2>1, <2>2, <2>3, AsksAnswered
    <2>5. Questions!CountsShown' /\ count' \in [Hashes -> Nat] /\ shown' \in [Hashes -> Nat]
        BY <1>2, <2>1 DEF QueriesInv, Questions!CountsShown
    <2> QED BY <1>1, <2>1, <2>4, <2>5 DEF QueriesInv, AsksSound
<1>4. CASE ~Questions!LiveAt(h, tick)
    <2>1. PICK e : e = [ask[w] EXCEPT !.step = "clock"]
        OBVIOUS
    <2>2. /\ shown' = shown /\ Questions!Continue(w, e)
          /\ Questions!Reap(h) \/ UNCHANGED <<entries, count>>
        BY <1>4, <2>1 DEF Questions!Retrieve
    <2>3. /\ RowsMoved /\ entries' \in [Hashes -> Nat \cup {None}] /\ count' \in [Hashes -> Nat]
          /\ Questions!CountsShown'
        <3>1. CASE Questions!Reap(h)
            BY <1>1, <1>2, <1>4, <2>2, <3>1, ReapKeepsLive
        <3>2. CASE UNCHANGED <<entries, count>>
            BY <1>1, <2>2, <3>2, RowsStill DEF QueriesInv, Questions!CountsShown
        <3> QED BY <2>2, <3>1, <3>2
    <2>4. AskSound(e)
        <3>1. /\ DOMAIN e = AskFields /\ e.step = "clock" /\ e.tool = "retrieve" /\ e.hash = h
              /\ e.seen = ask[w].seen /\ e.lost = ask[w].lost
            BY <1>1, <1>2, <2>1 DEF AskFields
        <3>2. AskSound(ask[w])
            BY DEF QueriesInv
        <3> QED BY <1>2, <1>4, <3>1, <3>2 DEF AskSound, HashSound
    <2>5. AsksSound'
        BY <1>1, <2>2, <2>3, <2>4, AsksContinue
    <2> QED BY <1>1, <2>2, <2>3, <2>5 DEF QueriesInv, AsksSound
<1> QED BY <1>3, <1>4

\* search() reads without counting, and goes on with the items it found or without.
LEMMA SearchStep ==
    ASSUME Questions!QueriesAssumption, QueriesInv, NEW w \in Askers, Questions!Search(w)
    PROVE  QueriesInv'
<1>. DEFINE h == ask[w].hash
<1>1. /\ Questions!Running(w) /\ ask[w].tool = "query" /\ tick' = tick /\ tick \in Nat /\ AsksSound
      /\ shown' = shown
    BY DEF Questions!Search, Questions!At, QueriesInv, AsksSound
<1>2. /\ ask[w] # None /\ DOMAIN ask[w] = AskFields /\ ask[w].step # "done" /\ h \in Hashes
      /\ Questions!LiveAt(h, tick) <=> h \in Questions!Live
      /\ h \in Questions!Live => h \in ask[w].seen
      /\ h \notin Questions!Live => h \in ask[w].lost
    BY <1>1, HashWitnessed
<1>3. PICK e : e = [ask[w] EXCEPT !.step = IF Questions!LiveAt(h, tick) /\ Questions!HasItems(h)
                                           THEN "decode" ELSE "exists"]
    OBVIOUS
<1>4. /\ Questions!Continue(w, e)
      /\ (Questions!Reap(h) /\ ~Questions!LiveAt(h, tick)) \/ UNCHANGED <<entries, count>>
    BY <1>3 DEF Questions!Search
<1>5. /\ RowsMoved /\ entries' \in [Hashes -> Nat \cup {None}] /\ count' \in [Hashes -> Nat]
      /\ Questions!CountsShown'
    <2>1. CASE Questions!Reap(h) /\ ~Questions!LiveAt(h, tick)
        BY <1>1, <1>2, <2>1, ReapKeepsLive
    <2>2. CASE UNCHANGED <<entries, count>>
        BY <1>1, <2>2, RowsStill DEF QueriesInv, Questions!CountsShown
    <2> QED BY <1>4, <2>1, <2>2
<1>6. AskSound(e)
    <2>1. /\ DOMAIN e = AskFields /\ e.tool = "query" /\ e.hash = h
          /\ e.seen = ask[w].seen /\ e.lost = ask[w].lost
          /\ e.step = IF Questions!LiveAt(h, tick) /\ Questions!HasItems(h) THEN "decode" ELSE "exists"
        BY <1>1, <1>2, <1>3 DEF AskFields
    <2>2. AskSound(ask[w])
        BY DEF QueriesInv
    <2> QED BY <1>2, <2>1, <2>2 DEF AskSound, HashSound
<1>7. AsksSound'
    BY <1>1, <1>4, <1>5, <1>6, AsksContinue
<1> QED BY <1>1, <1>5, <1>7 DEF QueriesInv, AsksSound

\* Results are answered whatever became of the entry; its count grows only while it is there.
LEMMA ResultsStep ==
    ASSUME Questions!QueriesAssumption, QueriesInv, NEW w \in Askers, Questions!Results(w)
    PROVE  QueriesInv'
<1>. DEFINE h == ask[w].hash
<1>1. /\ Questions!Running(w) /\ ask[w].tool = "query" /\ ask[w].step = "decode"
      /\ UNCHANGED <<tick, entries>> /\ tick \in Nat /\ AsksSound
      /\ count' = [count EXCEPT ![h] = @ + 1] \/ count' = count
      /\ shown' = [shown EXCEPT ![h] = @ + 1] /\ Questions!Answer(w, "found", <<h>>)
    BY DEF Questions!Results, Questions!At, QueriesInv, AsksSound
<1>2. h \in Hashes /\ HashSound(ask[w])
    BY <1>1, HashWitnessed
<1>3. Questions!Live' = Questions!Live /\ RowsMoved
    BY <1>1, RowsStill
<1>4. AnswerTrue([answer |-> "found", hash |-> ask[w].hash, tool |-> ask[w].tool,
                  seen |-> ask[w].seen, lost |-> ask[w].lost])
    BY <1>1, <1>2 DEF AnswerTrue, HashSound
<1>5. AsksSound'
    BY <1>1, <1>3, <1>4, AsksAnswered
<1>6. Questions!CountsShown' /\ count' \in [Hashes -> Nat] /\ shown' \in [Hashes -> Nat]
    BY <1>1, <1>2 DEF QueriesInv, Questions!CountsShown
<1> QED BY <1>1, <1>5, <1>6 DEF QueriesInv, AsksSound

\* "Nothing matched" is said only of an entry that is there; otherwise the status is asked.
LEMMA ExistsStep ==
    ASSUME Questions!QueriesAssumption, QueriesInv, NEW w \in Askers,
           Questions!Exists(w) \/ Questions!StatusClock(w)
    PROVE  QueriesInv'
<1>. DEFINE h == ask[w].hash
<1>1. /\ Questions!Running(w) /\ UNCHANGED <<tick, entries, count, shown>> /\ tick \in Nat /\ AsksSound
      /\ ask[w].step \in {"exists", "clock"} /\ AskSound(ask[w]) /\ ask[w] # None
    BY DEF Questions!Exists, Questions!StatusClock, Questions!At, Questions!Running, QueriesInv, AsksSound
<1>2. Questions!Live' = Questions!Live /\ RowsMoved
    BY <1>1, RowsStill
<1>3. /\ DOMAIN ask[w] = AskFields
      /\ Questions!Live \subseteq ask[w].seen /\ Hashes \ Questions!Live \subseteq ask[w].lost
    BY <1>1 DEF AskSound
<1>4. /\ ask[w].tool \in {"retrieve", "query"} /\ h \in Hashes /\ HashSound(ask[w])
      /\ Questions!LiveAt(h, tick) <=> h \in Questions!Live
    BY <1>1, HashWitnessed DEF AskSound
<1>5. CASE Questions!Exists(w) /\ Questions!NoMatch(w)
    <2>1. Questions!Answer(w, "unmatched", <<>>) /\ Questions!LiveAt(h, tick) /\ ask[w].step = "exists"
        BY <1>5 DEF Questions!Exists, Questions!NoMatch, Questions!At
    <2>2. ask[w].tool \in {"retrieve", "query"} =>
              AnswerTrue([answer |-> "unmatched", hash |-> ask[w].hash, tool |-> ask[w].tool,
                          seen |-> ask[w].seen, lost |-> ask[w].lost])
        BY <1>3, <1>4, <2>1 DEF AnswerTrue, HashSound
    <2>3. AsksSound'
        BY <1>1, <1>2, <2>1, <2>2, AsksAnswered
    <2> QED BY <1>1, <2>3 DEF QueriesInv, AsksSound, Questions!CountsShown
<1>6. CASE Questions!Exists(w) /\ ~Questions!NoMatch(w)
    <2>1. PICK e : e = [ask[w] EXCEPT !.step = "clock"]
        OBVIOUS
    <2>2. Questions!Continue(w, e) /\ ~Questions!LiveAt(h, tick)
        BY <1>6, <2>1 DEF Questions!Exists, Questions!NoMatch
    <2>3. /\ DOMAIN e = AskFields /\ e.step = "clock" /\ e.tool = ask[w].tool /\ e.hash = h
          /\ e.seen = ask[w].seen /\ e.lost = ask[w].lost
        BY <1>3, <2>1 DEF AskFields
    <2>4. AskSound(e)
        BY <1>3, <1>4, <2>2, <2>3 DEF AskSound, HashSound
    <2>5. AsksSound'
        BY <1>1, <1>2, <2>2, <2>4, AsksContinue
    <2> QED BY <1>1, <2>5 DEF QueriesInv, AsksSound, Questions!CountsShown
<1>7. CASE Questions!StatusClock(w)
    <2>1. PICK e : e = [ask[w] EXCEPT !.clock = tick, !.step = "status"]
        OBVIOUS
    <2>2. Questions!Continue(w, e) /\ ask[w].step = "clock"
        BY <1>7, <2>1 DEF Questions!StatusClock, Questions!At
    <2>3. /\ DOMAIN e = AskFields /\ e.step = "status" /\ e.tool = ask[w].tool /\ e.hash = h
          /\ e.seen = ask[w].seen /\ e.lost = ask[w].lost /\ e.clock = tick
        BY <1>3, <2>1 DEF AskFields
    <2>4. ASSUME ask[w].tool \in {"retrieve", "query"} PROVE HashSound(e)
        <3>1. h \in Hashes /\ h \in ask[w].lost
            BY <1>4, <2>2, <2>4 DEF HashSound
        <3>2. entries[h] # None /\ ~Questions!Expired(h, tick) => h \in ask[w].seen
            BY <1>3, <1>4, <2>4 DEF Questions!LiveAt
        <3> QED BY <1>1, <2>3, <3>1, <3>2 DEF HashSound
    <2>5. AskSound(e)
        BY <1>3, <1>4, <2>3, <2>4 DEF AskSound
    <2>6. AsksSound'
        BY <1>1, <1>2, <2>2, <2>5, AsksContinue
    <2> QED BY <1>1, <2>6 DEF QueriesInv, AsksSound, Questions!CountsShown
<1> QED BY <1>5, <1>6, <1>7

\* The cause of a miss: an entry that the clock read before the lock makes expired is expired.
LEMMA StatusStep ==
    ASSUME Questions!QueriesAssumption, QueriesInv, NEW w \in Askers, Questions!Status(w)
    PROVE  QueriesInv'
<1>. DEFINE h == ask[w].hash
<1>1. PICK cause :
         cause = IF entries[h] = None THEN "missing"
                 ELSE IF Questions!Expired(h, ask[w].clock) THEN "expired" ELSE "available"
    OBVIOUS
<1>2. /\ Questions!Running(w) /\ UNCHANGED <<tick, shown>> /\ tick \in Nat /\ AsksSound
      /\ ask[w].step = "status" /\ Questions!Answer(w, cause, <<>>)
      /\ (cause = "expired" /\ Questions!Reap(h)) \/ UNCHANGED <<entries, count>>
    BY <1>1 DEF Questions!Status, Questions!At, QueriesInv, AsksSound
<1>3. ask[w].tool \in {"retrieve", "query"}
    BY <1>2 DEF AsksSound, AskSound, Questions!Running
<1>4. QueriesInv'
    <2>1. h \in Hashes /\ HashSound(ask[w])
        BY <1>2, <1>3, HashWitnessed
    <2>2. ask[w].clock \in Nat /\ ask[w].clock <= tick /\ h \in ask[w].lost
        BY <1>2, <2>1 DEF HashSound
    <2>3. ASSUME cause = "expired" PROVE h \notin Questions!Live
        <3>1. entries[h] \in Nat /\ ask[w].clock > entries[h] + Ttl /\ Ttl \in Nat
            BY <1>1, <2>1, <2>3 DEF QueriesInv, Questions!Expired, Questions!QueriesAssumption
        <3>2. tick > entries[h] + Ttl
            BY <1>2, <2>2, <3>1
        <3> QED BY <3>2 DEF Questions!Live, Questions!LiveAt, Questions!Expired
    <2>4. /\ Questions!Live' = Questions!Live /\ RowsMoved
          /\ entries' \in [Hashes -> Nat \cup {None}] /\ count' \in [Hashes -> Nat]
          /\ Questions!CountsShown'
        <3>1. CASE cause = "expired" /\ Questions!Reap(h)
            BY <1>2, <2>1, <2>3, <3>1, ReapKeepsLive
        <3>2. CASE UNCHANGED <<entries, count>>
            BY <1>2, <3>2, RowsStill DEF QueriesInv, Questions!CountsShown
        <3> QED BY <1>2, <3>1, <3>2
    <2>5. AnswerTrue([answer |-> cause, hash |-> ask[w].hash, tool |-> ask[w].tool,
                      seen |-> ask[w].seen, lost |-> ask[w].lost])
        BY <1>2, <1>1, <2>1, <2>2 DEF AnswerTrue, HashSound
    <2>6. AsksSound'
        BY <1>2, <2>4, <2>5, AsksAnswered
    <2> QED BY <1>2, <2>4, <2>6 DEF QueriesInv, AsksSound
<1> QED BY <1>4

\* A call over every entry has nothing to establish but what it witnessed.
LEMMA AsksListed ==
    ASSUME Questions!QueriesAssumption, AsksSound, tick \in Nat, UNCHANGED <<tick, entries>>,
           NEW w \in Askers, Questions!Running(w), ask[w].tool \notin {"retrieve", "query"},
           NEW CONSTANT e, DOMAIN e = AskFields, e.tool = ask[w].tool,
           e.step \notin {"exists", "clock", "status"}, e.seen = ask[w].seen, e.lost = ask[w].lost,
           Questions!Continue(w, e) \/ ask' = [ask EXCEPT ![w] = e]
    PROVE  AsksSound'
<1>1. Questions!Live' = Questions!Live /\ RowsMoved
    BY RowsStill
<1>2. /\ Questions!Live \subseteq e.seen /\ Hashes \ Questions!Live \subseteq e.lost
    BY DEF AsksSound, AskSound, Questions!Running
<1>3. AskSound(e)
    BY <1>2 DEF AskSound
<1>4. AskSound(e)'
    BY <1>1, <1>2 DEF AskSound
<1>5. CASE Questions!Continue(w, e)
    BY <1>1, <1>3, <1>5, AsksContinue
<1>6. CASE ask' = [ask EXCEPT ![w] = e]
    BY <1>1, <1>4, <1>6, AsksReplace
<1> QED BY <1>5, <1>6

LEMMA ListStep ==
    ASSUME Questions!QueriesAssumption, QueriesInv, NEW w \in Askers,
           \/ Questions!Snapshot(w) \/ Questions!Decode(w) \/ Questions!Rank(w)
           \/ Questions!Open(w) \/ Questions!Find(w) \/ Questions!List(w)
    PROVE  QueriesInv'
<1>1. /\ Questions!Running(w) /\ UNCHANGED <<tick, entries, count, shown>>
      /\ ask[w].step \in {"keys", "decode", "open", "page"}
    BY DEF Questions!Snapshot, Questions!Decode, Questions!Rank, Questions!Open, Questions!Find,
       Questions!List, Questions!At
<1>2. AsksSound /\ tick \in Nat /\ ask[w] # None /\ DOMAIN ask[w] = AskFields
    BY <1>1 DEF QueriesInv, AsksSound, AskSound, Questions!Running
<1>3. PICK e : /\ DOMAIN e = AskFields /\ e.tool = ask[w].tool
               /\ e.step \in {"decode", "page", "open", "done"}
               /\ e.seen = ask[w].seen /\ e.lost = ask[w].lost
               /\ Questions!Continue(w, e) \/ ask' = [ask EXCEPT ![w] = e]
    <2>1. CASE Questions!Snapshot(w)
        <3>1. PICK e : /\ e = [ask[w] EXCEPT !.todo = {h \in Hashes : entries[h] # None}, !.step = "decode"]
                       /\ Questions!Continue(w, e)
            BY <2>1 DEF Questions!Snapshot
        <3> QED BY <1>2, <3>1 DEF AskFields
    <2>2. CASE Questions!Decode(w)
        <3>1. PICK h \in ask[w].todo : Questions!Continue(w, [ask[w] EXCEPT !.todo = @ \ {h},
                   !.got = IF Questions!LiveAt(h, ask[w].clock) THEN Append(@, h) ELSE @])
            BY <2>2 DEF Questions!Decode
        <3>2. PICK todo, got : todo = ask[w].todo \ {h}
                  /\ got = IF Questions!LiveAt(h, ask[w].clock) THEN Append(ask[w].got, h) ELSE ask[w].got
            OBVIOUS
        <3>3. PICK e : e = [ask[w] EXCEPT !.todo = todo, !.got = got]
            OBVIOUS
        <3>4. Questions!Continue(w, e)
            BY <3>1, <3>2, <3>3
        <3>5. ask[w].step = "decode"
            BY <2>2 DEF Questions!Decode, Questions!At
        <3> QED BY <1>2, <3>3, <3>4, <3>5 DEF AskFields
    <2>3. ASSUME NEW got, Questions!Answer(w, "listed", got)
          PROVE  \E e : /\ DOMAIN e = AskFields /\ e.tool = ask[w].tool
                        /\ e.step \in {"decode", "page", "open", "done"}
                        /\ e.seen = ask[w].seen /\ e.lost = ask[w].lost
                        /\ Questions!Continue(w, e) \/ ask' = [ask EXCEPT ![w] = e]
        <3>1. PICK e : e = [ask[w] EXCEPT !.step = "done", !.answer = "listed", !.got = got, !.todo = {}]
            OBVIOUS
        <3>2. ask' = [ask EXCEPT ![w] = e]
            BY <2>3, <3>1 DEF Questions!Answer
        <3> QED BY <1>2, <3>1, <3>2 DEF AskFields
    <2>4. CASE Questions!Rank(w)
        BY <2>3, <2>4 DEF Questions!Rank
    <2>5. CASE Questions!Open(w)
        <3>1. PICK e : e = [ask[w] EXCEPT !.clock = tick, !.step = "page"]
            OBVIOUS
        <3>2. Questions!Continue(w, e)
            BY <2>5, <3>1 DEF Questions!Open
        <3> QED BY <1>2, <3>1, <3>2 DEF AskFields
    <2>6. CASE Questions!Find(w)
        BY <2>3, <2>6 DEF Questions!Find
    <2>7. CASE Questions!List(w)
        <3>1. \/ Questions!Answer(w, "listed", ask[w].got)
              \/ \E more, total : Questions!Continue(w, [ask[w] EXCEPT !.got = more, !.total = total, !.step = "open"])
            BY <2>7 DEF Questions!List
        <3>2. CASE Questions!Answer(w, "listed", ask[w].got)
            BY <2>3, <3>2
        <3>3. ASSUME NEW more, NEW total,
                     Questions!Continue(w, [ask[w] EXCEPT !.got = more, !.total = total, !.step = "open"])
              PROVE  \E e : /\ DOMAIN e = AskFields /\ e.tool = ask[w].tool
                            /\ e.step \in {"decode", "page", "open", "done"}
                            /\ e.seen = ask[w].seen /\ e.lost = ask[w].lost
                            /\ Questions!Continue(w, e) \/ ask' = [ask EXCEPT ![w] = e]
            <4>1. PICK e : e = [ask[w] EXCEPT !.got = more, !.total = total, !.step = "open"]
                OBVIOUS
            <4> QED BY <1>2, <3>3, <4>1 DEF AskFields
        <3> QED BY <3>1, <3>2, <3>3
    <2> QED BY <2>1, <2>2, <2>4, <2>5, <2>6, <2>7
<1>4. ask[w].tool \notin {"retrieve", "query"}
    BY <1>1, <1>2 DEF AsksSound, AskSound, Questions!Snapshot, Questions!Decode, Questions!Rank,
       Questions!Open, Questions!Find, Questions!List, Questions!At, Questions!Running
<1>5. e.step \notin {"exists", "clock", "status"} /\ Questions!Running(w)
    BY <1>1, <1>3
<1>6. UNCHANGED <<tick, entries>>
    BY <1>1
<1>7. ASSUME Questions!Continue(w, e) PROVE AsksSound'
    BY <1>2, <1>3, <1>4, <1>5, <1>6, <1>7, AsksListed
<1>8. ASSUME ask' = [ask EXCEPT ![w] = e] PROVE AsksSound'
    BY <1>2, <1>3, <1>4, <1>5, <1>6, <1>8, AsksListed
<1>9. AsksSound'
    BY <1>3, <1>7, <1>8
<1> QED BY <1>1, <1>9 DEF QueriesInv, AsksSound, Questions!CountsShown

LEMMA QueriesStep ==
    ASSUME Questions!QueriesAssumption, QueriesInv, [Questions!Next]_(Questions!queryVars)
    PROVE  QueriesInv'
<1>1. CASE UNCHANGED Questions!queryVars
    <2>1. UNCHANGED <<tick, entries, count, ask, shown>>
        BY <1>1 DEF Questions!queryVars
    <2>2. Questions!Live' = Questions!Live /\ RowsMoved
        BY <2>1, RowsStill
    <2>3. ASSUME NEW w \in Askers PROVE AskSound(ask[w])'
        <3>1. PICK c : c = ask[w]
            OBVIOUS
        <3>2. AskSound(c) /\ ask'[w] = c
            BY <2>1, <3>1 DEF QueriesInv
        <3>3. AskSound(c)'
            BY <2>1, <2>2, <3>2, AskKept DEF QueriesInv
        <3> QED BY <3>2, <3>3 DEF AskSound, HashSound, AnswerTrue
    <2> QED BY <2>1, <2>3 DEF QueriesInv, Questions!CountsShown
<1> QED BY <1>1, OthersStep, AskStep, RetrieveStep, SearchStep, ResultsStep, ExistsStep, StatusStep, ListStep
        DEF Questions!Next

QueriesPart == part = "queries" => QueriesInv

\* For any hashes, workers, scores and TTL, and any interleaving of the lock sections of the
\* tools with the stores, removals and reaps of others: what a tool says of one hash was so
\* at some moment of its call (mcp_server.py:1620), and an entry's count never exceeds the
\* answers that showed its content (compression_store.py:901).
THEOREM HashAnswersAlwaysTrue ==
    Spec => [](part = "queries" => Questions!HashAnswersTrue /\ Questions!CountsShown)
<1>1. Init => QueriesPart
    BY QueriesInit, SharingAssumption DEF Init, QueriesPart
<1>2. QueriesPart /\ [Next]_vars => QueriesPart'
    <2> SUFFICES ASSUME QueriesPart, [Next]_vars, part' = "queries" PROVE QueriesInv'
        BY DEF QueriesPart
    <2>1. CASE Next
        <3>1. QueriesInv /\ Questions!Next
            BY <2>1 DEF Next, QueriesPart
        <3> QED BY <3>1, QueriesStep, SharingAssumption
    <2>2. CASE UNCHANGED vars
        <3>1. UNCHANGED part /\ UNCHANGED queryVars
            BY <2>2 DEF vars
        <3>2. QueriesInv /\ UNCHANGED Questions!queryVars
            BY <3>1 DEF QueriesPart, queryVars, Questions!queryVars
        <3> QED BY <3>2, QueriesStep, SharingAssumption
    <2> QED BY <2>1, <2>2
<1>3. QueriesPart => (part = "queries" => Questions!HashAnswersTrue /\ Questions!CountsShown)
    <2>1. ASSUME QueriesInv PROVE Questions!HashAnswersTrue
        <3>1. ASSUME NEW w \in Askers, Questions!Answered(w, "retrieve") \/ Questions!Answered(w, "query")
              PROVE  AnswerTrue(ask[w]) /\ ask[w].answer # "refused"
            BY <2>1, <3>1 DEF QueriesInv, AskSound, HashSound, Questions!Answered
        <3> QED BY <3>1 DEF Questions!HashAnswersTrue, AnswerTrue
    <2> QED BY <2>1 DEF QueriesPart, QueriesInv
<1> QED BY <1>1, <1>2, <1>3, PTL DEF Spec

LEMMA QueriesFinite ==
    /\ \A S : Questions!IsFiniteSet(S) <=> IsFiniteSet(S)
    /\ \A S : Questions!Cardinality(S) = Cardinality(S)
BY DEF IsFiniteSet, Questions!IsFiniteSet, Cardinality, Questions!Cardinality

\* A relation that puts the members of S one before another.
OrdersAll(less, S) ==
    /\ \A g \in S : <<g, g>> \notin less
    /\ \A g, h \in S : g # h => <<g, h>> \in less \/ <<h, g>> \in less
    /\ \A f, g, h \in S : <<f, g>> \in less /\ <<g, h>> \in less => <<f, h>> \in less

Sorted(s, less) == \A i, j \in DOMAIN s : i < j => <<s[i], s[j]>> \in less

\* A finite set can be put in such an order, each member behind as many as come before it.
LEMMA Sortable ==
    ASSUME NEW S, IsFiniteSet(S), NEW less, OrdersAll(less, S)
    PROVE  \E s \in [1..Cardinality(S) -> S] : Sorted(s, less)
<1> DEFINE n == Cardinality(S)
           Below(h) == {g \in S : <<g, h>> \in less}
           rank == [h \in S |-> Cardinality(Below(h)) + 1]
<1>1. n \in Nat
    BY FS_CardinalityType
<1>2. ASSUME NEW h \in S
      PROVE  /\ IsFiniteSet(Below(h)) /\ Cardinality(Below(h)) \in Nat /\ Cardinality(Below(h)) < n
    <2> DEFINE B == Below(h)
    <2>1. B \subseteq S /\ h \notin B
        BY DEF OrdersAll
    <2> HIDE DEF B
    <2>2. IsFiniteSet(B) /\ Cardinality(B) \in Nat /\ Cardinality(B) <= n /\ Cardinality(B) # n
        BY <2>1, FS_Subset, FS_CardinalityType
    <2> QED BY <1>1, <2>2 DEF B
<1>3. ASSUME NEW g \in S, NEW h \in S, <<g, h>> \in less
      PROVE  rank[g] < rank[h]
    <2> DEFINE A == Below(g)
               B == Below(h)
    <2>1. A \subseteq B /\ g \in B /\ g \notin A
        BY <1>3 DEF OrdersAll
    <2>2. IsFiniteSet(B) /\ Cardinality(A) \in Nat /\ Cardinality(B) \in Nat
        BY <1>2
    <2>3. rank[g] = Cardinality(A) + 1 /\ rank[h] = Cardinality(B) + 1
        OBVIOUS
    <2> HIDE DEF A, B, rank
    <2>4. Cardinality(A) <= Cardinality(B) /\ Cardinality(A) # Cardinality(B)
        BY <2>1, <2>2, FS_Subset
    <2> QED BY <2>2, <2>3, <2>4
<1>4. rank \in [S -> 1..n] /\ \A h \in S : rank[h] \in Int
    <2>1. ASSUME NEW h \in S PROVE rank[h] \in 1..n /\ rank[h] \in Int
        <3>1. PICK m : m = Cardinality(Below(h))
            OBVIOUS
        <3>2. m \in Nat /\ m < n /\ rank[h] = m + 1
            BY <1>2, <3>1
        <3> HIDE DEF rank, n
        <3> QED BY <1>1, <3>2
    <2>2. rank = [h \in S |-> rank[h]]
        OBVIOUS
    <2> HIDE DEF rank, n
    <2> QED BY <2>1, <2>2
<1> HIDE DEF rank
<1>5. rank \in Injection(S, 1..n)
    <2>1. \A g, h \in S : rank[g] = rank[h] => g = h
        <3> SUFFICES ASSUME NEW g \in S, NEW h \in S, rank[g] = rank[h], g # h PROVE FALSE
            OBVIOUS
        <3>1. <<g, h>> \in less \/ <<h, g>> \in less
            BY DEF OrdersAll
        <3> QED BY <1>3, <1>4, <3>1
    <2> QED BY <1>4, <2>1 DEF Injection, IsInjective
<1>6. IsFiniteSet(1..n) /\ Cardinality(1..n) = n
    <2>1. 1 \in Int /\ n \in Int
        BY <1>1
    <2>2. IsFiniteSet(1..n) /\ Cardinality(1..n) = IF 1 > n THEN 0 ELSE n - 1 + 1
        BY <2>1, FS_Interval
    <2> QED BY <1>1, <2>2
<1>7. \A i \in 1..n : \E h \in S : rank[h] = i
    <2>1. rank \in Surjection(S, 1..n)
        BY <1>5, <1>6, FS_Injection
    <2> QED BY <2>1 DEF Surjection
<1> DEFINE s == [i \in 1..n |-> CHOOSE h \in S : rank[h] = i]
<1>8. /\ s \in [1..n -> S]
      /\ \A i \in 1..n : rank[s[i]] = i /\ s[i] \in S
    BY <1>7
<1>9. ASSUME NEW i \in 1..n, NEW j \in 1..n, i < j
      PROVE  <<s[i], s[j]>> \in less
    <2>1. s[i] # s[j]
        BY <1>8, <1>9
    <2>2. <<s[j], s[i]>> \notin less
        BY <1>3, <1>8, <1>9
    <2> QED BY <1>8, <2>1, <2>2 DEF OrdersAll
<1> HIDE DEF s
<1>10. DOMAIN s = 1..n
    BY <1>8
<1> QED BY <1>8, <1>9, <1>10 DEF Sorted

\* What is in order names each member once, and has before a member those of the places
\* before its own.
LEMMA SortedPlaces ==
    ASSUME NEW S, IsFiniteSet(S), NEW less, OrdersAll(less, S), NEW n, n = Cardinality(S),
           NEW s \in [1..n -> S], Sorted(s, less)
    PROVE  /\ n \in Nat
           /\ \A i, j \in 1..n : s[i] = s[j] => i = j
           /\ \A h \in S : \E i \in 1..n : s[i] = h
           /\ \A i \in 1..n : Cardinality({g \in S : <<g, s[i]>> \in less}) = i - 1
<1>1. n \in Nat /\ DOMAIN s = 1..n
    BY FS_CardinalityType
<1>2. \A i, j \in 1..n : s[i] = s[j] => i = j
    <2> SUFFICES ASSUME NEW i \in 1..n, NEW j \in 1..n, s[i] = s[j], i # j PROVE FALSE
        OBVIOUS
    <2>1. i < j \/ j < i
        BY <1>1
    <2>2. <<s[i], s[i]>> \in less
        BY <1>1, <2>1 DEF Sorted
    <2> QED BY <2>2 DEF OrdersAll
<1>3. IsFiniteSet(1..n) /\ Cardinality(1..n) = n
    <2>1. 1 \in Int /\ n \in Int
        BY <1>1
    <2>2. IsFiniteSet(1..n) /\ Cardinality(1..n) = IF 1 > n THEN 0 ELSE n - 1 + 1
        BY <2>1, FS_Interval
    <2> QED BY <1>1, <2>2
<1>4. \A h \in S : \E i \in 1..n : s[i] = h
    <2>1. s \in Injection(1..n, S)
        BY <1>2 DEF Injection, IsInjective
    <2>2. s \in Surjection(1..n, S)
        BY <1>3, <2>1, FS_Injection
    <2> QED BY <2>2 DEF Surjection
<1>5. ASSUME NEW i \in 1..n
      PROVE  Cardinality({g \in S : <<g, s[i]>> \in less}) = i - 1
    <2> DEFINE B == {g \in S : <<g, s[i]>> \in less}
               low == 1..(i - 1)
               f == [j \in low |-> s[j]]
    <2>1. i \in Nat /\ i - 1 \in Nat /\ low \subseteq 1..n /\ \A j \in low : j < i
        BY <1>1
    <2>2. \A j \in low : f[j] \in B
        BY <1>1, <2>1 DEF Sorted
    <2>3. ASSUME NEW g \in B PROVE \E j \in low : f[j] = g
        <3>1. PICK j \in 1..n : s[j] = g
            BY <1>4
        <3>2. ~(i < j) /\ i # j
            <4>1. ASSUME i < j PROVE FALSE
                <5>1. <<s[i], s[j]>> \in less /\ <<s[j], s[i]>> \in less /\ s[i] \in S /\ s[j] \in S
                    BY <1>1, <3>1, <4>1 DEF Sorted
                <5> QED BY <5>1 DEF OrdersAll
            <4>2. i # j
                BY <3>1 DEF OrdersAll
            <4> QED BY <4>1, <4>2
        <3>3. j \in low
            BY <1>1, <3>2
        <3> QED BY <3>1, <3>3
    <2>4. f \in Bijection(low, B)
        <3>1. f \in [low -> B]
            BY <2>2
        <3>2. \A a, b \in low : f[a] = f[b] => a = b
            BY <1>2, <2>1
        <3> HIDE DEF low, B, f
        <3> QED BY <2>3, <3>1, <3>2 DEF Bijection, Injection, Surjection, IsInjective
    <2> HIDE DEF B, f
    <2>5. Cardinality(B) = i - 1
        BY <2>1, <2>4, FS_CountingElements DEF ExistsBijection
    <2> QED BY <2>5 DEF B
<1> QED BY <1>1, <1>2, <1>4, <1>5
\* The entries that are live by a clock.
LiveBy(time) == {h \in Hashes : Questions!LiveAt(h, time)}

\* The members of S that a listing has before h.
Ahead(S, h) == {g \in S : <<g, h>> \in Questions!NewestFirst}

EntriesTyped == entries \in [Hashes -> Nat \cup {None}] /\ tick \in Nat

\* An order given as pairs is kept by InOrder, which leaves no member out and repeats none.
LEMMA OrderKept ==
    ASSUME NEW S, IsFiniteSet(S), NEW before, OrdersAll(before, S),
           NEW s, s = Questions!InOrder(S, before), NEW n, n = Cardinality(S)
    PROVE  /\ n \in Nat /\ s \in Seq(S) /\ Len(s) = n
           /\ \A i, j \in 1..n : s[i] = s[j] => i = j
           /\ \A h \in S : \E i \in 1..n : s[i] = h
           /\ \A i \in 1..n : Cardinality({g \in S : <<g, s[i]>> \in before}) = i - 1
           /\ \A i, j \in 1..n : i < j => <<s[i], s[j]>> \in before
<1>1. n \in Nat
    BY FS_CardinalityType
<1>2. PICK f \in [1..n -> S] : Sorted(f, before)
    BY Sortable
<1>3. \A i, j \in 1..n : i # j => f[i] # f[j]
    BY <1>2, SortedPlaces
<1>4. Questions!SetToSeqs(S) = {g \in [1..n -> S] : \A i, j \in 1..n : i # j => g[i] # g[j]}
    BY QueriesFinite DEF Questions!SetToSeqs
<1>5. f \in Questions!SetToSeqs(S)
    BY <1>2, <1>3, <1>4
<1>6. s = CHOOSE g \in Questions!SetToSeqs(S) : Sorted(g, before)
    BY DEF Questions!InOrder, Sorted
<1>7. s \in Questions!SetToSeqs(S) /\ Sorted(s, before)
    BY <1>2, <1>5, <1>6
<1>8. s \in [1..n -> S]
    BY <1>4, <1>7
<1>9. s \in Seq(S) /\ Len(s) = n
    BY <1>1, <1>8
<1>10. \A i, j \in 1..n : i < j => <<s[i], s[j]>> \in before
    BY <1>7, <1>8 DEF Sorted
<1> QED BY <1>1, <1>7, <1>8, <1>9, <1>10, SortedPlaces

\* Newest first is an order of the entries that are there.
LEMMA NewestOrders ==
    ASSUME Questions!QueriesAssumption, EntriesTyped, NEW S, S \subseteq Hashes, \A h \in S : entries[h] # None
    PROVE  OrdersAll(Questions!NewestFirst, S)
<1>1. \A h \in S : entries[h] \in Nat /\ h \in Nat /\ h \in Hashes
    BY DEF EntriesTyped, Questions!QueriesAssumption
<1>2. \A g, h \in S : <<g, h>> \in Questions!NewestFirst <=>
          entries[g] > entries[h] \/ (entries[g] = entries[h] /\ g > h)
    BY <1>1 DEF Questions!NewestFirst, Questions!Newer
<1>3. \A g \in S : <<g, g>> \notin Questions!NewestFirst
    BY <1>1, <1>2
<1>4. \A g, h \in S : g # h => <<g, h>> \in Questions!NewestFirst \/ <<h, g>> \in Questions!NewestFirst
    BY <1>1, <1>2
<1>5. \A f, g, h \in S : <<f, g>> \in Questions!NewestFirst /\ <<g, h>> \in Questions!NewestFirst
                         => <<f, h>> \in Questions!NewestFirst
    BY <1>1, <1>2
<1> QED BY <1>3, <1>4, <1>5 DEF OrdersAll

\* s is the members of S, n of them, each behind those that come before it.
Lists(s, n, S) ==
    /\ n \in Nat /\ s \in Seq(S) /\ Len(s) = n /\ IsFiniteSet(S) /\ S \subseteq Hashes
    /\ \A i, j \in 1..n : s[i] = s[j] => i = j
    /\ \A h \in S : \E i \in 1..n : s[i] = h
    /\ \A i \in 1..n : Cardinality(Ahead(S, s[i])) = i - 1

LEMMA ListingPlaces ==
    ASSUME Questions!QueriesAssumption, EntriesTyped, NEW time,
           NEW S, S = LiveBy(time), NEW s, s = Questions!Listing(time), NEW n, n = Cardinality(S)
    PROVE  Lists(s, n, S)
<1>1. S \subseteq Hashes /\ \A h \in S : entries[h] # None
    BY DEF LiveBy, Questions!LiveAt
<1>2. IsFiniteSet(S)
    BY <1>1, QueriesFinite, FS_Subset DEF Questions!QueriesAssumption
<1>3. OrdersAll(Questions!NewestFirst, S)
    BY <1>1, NewestOrders
<1>4. s = Questions!InOrder(S, Questions!NewestFirst)
    BY DEF Questions!Listing, LiveBy
<1>5. PICK before : before = Questions!NewestFirst
    OBVIOUS
<1>6. \A h : Ahead(S, h) = {g \in S : <<g, h>> \in before}
    BY <1>5 DEF Ahead
<1>7. OrdersAll(before, S) /\ s = Questions!InOrder(S, before)
    BY <1>3, <1>4, <1>5
<1>8. /\ n \in Nat /\ s \in Seq(S) /\ Len(s) = n
      /\ \A i, j \in 1..n : s[i] = s[j] => i = j
      /\ \A h \in S : \E i \in 1..n : s[i] = h
      /\ \A i \in 1..n : Cardinality({g \in S : <<g, s[i]>> \in before}) = i - 1
    BY <1>2, <1>7, OrderKept
<1>9. \A i \in 1..n : Cardinality(Ahead(S, s[i])) = i - 1
    BY <1>6, <1>8
<1> QED BY <1>1, <1>2, <1>8, <1>9 DEF Lists

\* No member is named twice.
Distinct(s) == \A i, j \in 1..Len(s) : s[i] = s[j] => i = j

LEMMA DistinctCounts ==
    ASSUME NEW S, NEW s \in Seq(S), Distinct(s)
    PROVE  Cardinality(Questions!ToSet(s)) = Len(s)
<1>1. Len(s) \in Nat /\ DOMAIN s = 1..Len(s)
    OBVIOUS
<1> DEFINE n == Len(s)
           T == Questions!ToSet(s)
           f == [i \in 1..n |-> s[i]]
<1>2. \A i \in 1..n : f[i] \in T
    BY <1>1 DEF Questions!ToSet
<1>3. \A h \in T : \E i \in 1..n : f[i] = h
    BY <1>1 DEF Questions!ToSet
<1>4. \A i, j \in 1..n : f[i] = f[j] => i = j
    BY DEF Distinct
<1>5. f \in [1..n -> T]
    BY <1>2
<1> HIDE DEF f, T
<1>6. f \in Bijection(1..n, T)
    BY <1>3, <1>4, <1>5 DEF Bijection, Injection, Surjection, IsInjective
<1>7. ExistsBijection(1..n, T)
    BY <1>6 DEF ExistsBijection
<1> QED BY <1>1, <1>7, FS_CountingElements DEF T

LEMMA MinOfTwo ==
    ASSUME NEW a \in Nat, NEW b \in Nat
    PROVE  LET m == Questions!Min({a, b}) IN m \in {a, b} /\ m <= a /\ m <= b
<1>1. \E m \in {a, b} : \A y \in {a, b} : m <= y
    <2>1. CASE a <= b
        BY <2>1
    <2>2. CASE ~(a <= b)
        BY <2>2
    <2> QED BY <2>1, <2>2
<1> QED BY <1>1 DEF Questions!Min

\* A part of a sequence.
LEMMA Slice ==
    ASSUME NEW S, NEW s \in Seq(S), NEW a \in Nat \ {0}, NEW b \in Nat, b <= Len(s), NEW t, t = SubSeq(s, a, b)
    PROVE  /\ t \in Seq(S) /\ Len(t) \in Nat
           /\ a <= b => Len(t) = (b - a) + 1
           /\ ~(a <= b) => Len(t) = 0
           /\ \A i \in 1..Len(t) : t[i] = s[(a - 1) + i] /\ (a - 1) + i \in a..b
<1>0. Len(s) \in Nat
    OBVIOUS
<1>1. \A i \in a..b : s[i] \in S
    OBVIOUS
<1>2. a \in Int /\ b \in Int
    OBVIOUS
<1>4. /\ t \in Seq(S) /\ Len(t) = IF a <= b THEN b - a + 1 ELSE 0
      /\ \A i \in 1..b - a + 1 : t[i] = s[a + i - 1]
    BY <1>1, <1>2 DEF SubSeq
<1>5. \A i \in 1..b - a + 1 : a + i - 1 = (a - 1) + i /\ (a - 1) + i \in a..b
    BY <1>2
<1>6. a <= b => Len(t) = b - a + 1 /\ b - a + 1 = (b - a) + 1
    BY <1>2, <1>4
<1>7. ~(a <= b) => Len(t) = 0
    BY <1>4
<1>8. ASSUME NEW i \in 1..Len(t) PROVE t[i] = s[(a - 1) + i] /\ (a - 1) + i \in a..b
    <2>1. i \in 1..b - a + 1
        BY <1>2, <1>6, <1>7
    <2>2. t[i] = s[a + i - 1] /\ a + i - 1 = (a - 1) + i /\ (a - 1) + i \in a..b
        BY <1>4, <1>5, <2>1
    <2> QED BY <2>2
<1> QED BY <1>4, <1>6, <1>7, <1>8

\* The first members of a sequence.
LEMMA FirstOf ==
    ASSUME NEW S, NEW s \in Seq(S), NEW n \in Nat, n <= Len(s), NEW t, t = SubSeq(s, 1, n)
    PROVE  /\ t \in Seq(S) /\ Len(t) = n
           /\ \A i \in 1..n : t[i] = s[i]
<1>1. PICK a : a = 1
    OBVIOUS
<1>2. a \in Nat \ {0} /\ t = SubSeq(s, a, n)
    BY <1>1
<1>3. /\ t \in Seq(S) /\ Len(t) \in Nat
      /\ a <= n => Len(t) = (n - a) + 1
      /\ ~(a <= n) => Len(t) = 0
      /\ \A i \in 1..Len(t) : t[i] = s[(a - 1) + i] /\ (a - 1) + i \in a..n
    BY <1>2, Slice, Zenon
<1>4. Len(t) = n
    <2>1. (n - a) + 1 = n /\ (~(a <= n) => n = 0)
        BY <1>1
    <2>2. CASE a <= n
        BY <1>3, <2>1, <2>2
    <2>3. CASE ~(a <= n)
        BY <1>3, <2>1, <2>3
    <2> QED BY <2>2, <2>3
<1>5. \A i \in 1..Len(t) : (a - 1) + i = i
    BY <1>1
<1> QED BY <1>3, <1>4, <1>5

\* The best of what was read: no match that is left out scores higher than one that is in.
LEMMA BestIsBest ==
    ASSUME Questions!QueriesAssumption, NEW got \in Seq(Hashes), Distinct(got),
           NEW s, s = Questions!Best(got)
    PROVE  /\ s \in Seq(Hashes) /\ Distinct(s) /\ Len(s) <= MaxResults
           /\ Questions!ToSet(s) \subseteq {h \in Questions!ToSet(got) : Questions!Matching(h)}
           /\ \A h \in Questions!ToSet(got) \ Questions!ToSet(s) :
                 Questions!Matching(h) =>
                     Len(s) = MaxResults /\ \A g \in Questions!ToSet(s) : ScoreOf[g] >= ScoreOf[h]
<1> DEFINE place(h) == CHOOSE i \in DOMAIN got : got[i] = h
           S == {h \in Questions!ToSet(got) : Questions!Matching(h)}
           before == {p \in Questions!ToSet(got) \X Questions!ToSet(got) : Questions!Outranks(p[1], p[2])
                          \/ (~Questions!Outranks(p[2], p[1]) /\ place(p[1]) < place(p[2]))}
           ranked == Questions!InOrder(S, before)
           n == Cardinality(S)
<1>1. s = SubSeq(ranked, 1, Questions!Min({MaxResults, Len(ranked)}))
    BY DEF Questions!Best
<1>2. DOMAIN got = 1..Len(got) /\ Len(got) \in Nat
    OBVIOUS
<1>3. Questions!ToSet(got) \subseteq Hashes /\ S \subseteq Questions!ToSet(got)
    BY <1>2 DEF Questions!ToSet
<1>4. \A h \in Questions!ToSet(got) : place(h) \in 1..Len(got) /\ got[place(h)] = h
    BY <1>2 DEF Questions!ToSet
<1>5. IsFiniteSet(S)
    BY <1>3, QueriesFinite, FS_Subset DEF Questions!QueriesAssumption
<1>6. \A h \in S : ScoreOf[h] \in Nat /\ place(h) \in Nat
    <2>1. \A h \in S : ScoreOf[h] \in Nat
        BY <1>3 DEF Questions!QueriesAssumption
    <2>2. \A h \in S : place(h) \in Nat
        <3> HIDE DEF place
        <3> QED BY <1>3, <1>4
    <2> QED BY <2>1, <2>2
<1>7. \A g, h \in S : <<g, h>> \in before <=>
          ScoreOf[g] > ScoreOf[h] \/ (~(ScoreOf[h] > ScoreOf[g]) /\ place(g) < place(h))
    BY <1>3 DEF Questions!Outranks
<1>8. \A g, h \in S : place(g) = place(h) => g = h
    BY <1>3, <1>4
<1> HIDE DEF place, before, S
<1>9. OrdersAll(before, S)
    <2>1. \A g \in S : <<g, g>> \notin before
        BY <1>6, <1>7
    <2>2. \A g, h \in S : g # h => <<g, h>> \in before \/ <<h, g>> \in before
        BY <1>6, <1>7, <1>8
    <2>3. \A f, g, h \in S : <<f, g>> \in before /\ <<g, h>> \in before => <<f, h>> \in before
        BY <1>6, <1>7
    <2> QED BY <2>1, <2>2, <2>3 DEF OrdersAll
<1> HIDE DEF ranked, n
<1>10. /\ n \in Nat /\ ranked \in Seq(S) /\ Len(ranked) = n
       /\ \A i, j \in 1..n : ranked[i] = ranked[j] => i = j
       /\ \A h \in S : \E i \in 1..n : ranked[i] = h
       /\ \A i, j \in 1..n : i < j => <<ranked[i], ranked[j]>> \in before
    BY <1>5, <1>9, OrderKept DEF ranked, n
<1>11. MaxResults \in Nat
    BY DEF Questions!QueriesAssumption
<1>12. /\ s \in Seq(S) /\ Len(s) \in Nat /\ Len(s) <= MaxResults /\ Len(s) <= n
       /\ Len(s) = MaxResults \/ Len(s) = n
       /\ \A i \in 1..Len(s) : s[i] = ranked[i]
    <2>1. PICK m : m = Questions!Min({MaxResults, n})
        OBVIOUS
    <2>2. m \in Nat /\ m \in {MaxResults, n} /\ m <= MaxResults /\ m <= n
        BY <1>10, <1>11, <2>1, MinOfTwo
    <2>3. PICK r, T, t : r = ranked /\ T = S /\ t = s
        OBVIOUS
    <2>4. r \in Seq(T) /\ m <= Len(r) /\ t = SubSeq(r, 1, m)
        BY <1>1, <1>10, <2>1, <2>2, <2>3
    <2>5. /\ t \in Seq(T) /\ Len(t) = m
          /\ \A i \in 1..m : t[i] = r[i]
        BY <2>2, <2>4, FirstOf
    <2> QED BY <2>2, <2>3, <2>5
<1>13. Distinct(s)
    BY <1>10, <1>12 DEF Distinct
<1>14. s \in Seq(Hashes) /\ Questions!ToSet(s) \subseteq S
    BY <1>3, <1>12 DEF Questions!ToSet
<1>15. ASSUME NEW h \in S, h \notin Questions!ToSet(s)
       PROVE  Len(s) = MaxResults /\ \A g \in Questions!ToSet(s) : ScoreOf[g] >= ScoreOf[h]
    <2>1. DOMAIN s = 1..Len(s)
        BY <1>12
    <2>2. PICK k \in 1..n : ranked[k] = h
        BY <1>10
    <2>3. k \notin 1..Len(s)
        BY <1>12, <1>15, <2>1, <2>2 DEF Questions!ToSet
    <2>4. Len(s) < k /\ Len(s) = MaxResults
        BY <1>10, <1>12, <2>2, <2>3
    <2>5. ASSUME NEW g \in Questions!ToSet(s) PROVE ScoreOf[g] >= ScoreOf[h]
        <3>1. PICK i \in 1..Len(s) : s[i] = g
            BY <2>1 DEF Questions!ToSet
        <3>2. i \in 1..n /\ i < k /\ ranked[i] = g
            BY <1>10, <1>12, <2>4, <3>1
        <3>3. <<g, h>> \in before /\ g \in S
            BY <1>10, <1>14, <2>2, <3>2
        <3> QED BY <1>6, <1>7, <3>3
    <2> QED BY <2>4, <2>5
<1> QED BY <1>12, <1>13, <1>14, <1>15 DEF S

\* What a ranking, a search and a listing promise.
RankTrue(c) ==
    /\ Questions!ToSet(c.got) \subseteq c.seen \cap {h \in Hashes : Questions!Matching(h)}
    /\ Len(c.got) = Cardinality(Questions!ToSet(c.got)) /\ Len(c.got) <= MaxResults
    /\ \A h \in Questions!Steady(c) \ Questions!ToSet(c.got) :
          Questions!Matching(h) =>
              Len(c.got) = MaxResults /\ \A g \in Questions!ToSet(c.got) : ScoreOf[g] >= ScoreOf[h]

FindTrue(c) ==
    Len(c.got) <= LimitCap /\ Questions!ToSet(c.got) \subseteq {h \in c.seen : Questions!Matching(h)}

PagesTrue(c) ==
    /\ Questions!ToSet(c.got) \subseteq c.seen
    /\ ~c.moved => Questions!Steady(c) \subseteq Questions!ToSet(c.got)
    /\ ~c.moved /\ ~c.grew => Cardinality(Questions!ToSet(c.got)) = Len(c.got) /\ Len(c.got) = c.total

ListTrue(c) ==
    c.answer # "refused" =>
        /\ c.tool = "rank" => RankTrue(c)
        /\ c.tool = "find" => FindTrue(c)
        /\ c.tool = "list" => PagesTrue(c)

\* What a call over every entry has: nothing that was never there, what is live by its clock
\* witnessed.
HasSeen(c) ==
    /\ c.got \in Seq(Hashes) /\ Questions!ToSet(c.got) \subseteq c.seen /\ c.seen \subseteq Hashes
    /\ c.clock \in Nat /\ c.clock <= tick /\ LiveBy(c.clock) \subseteq c.seen
    /\ c.grew \in BOOLEAN /\ c.moved \in BOOLEAN

\* A ranking has decoded, or has still to decode, every entry that was there all along.
Ranking(c) ==
    /\ c.step \in {"keys", "decode"} /\ c.todo \subseteq Hashes
    /\ Distinct(c.got) /\ Questions!ToSet(c.got) \cap c.todo = {}
    /\ c.step = "keys" => c.got = <<>>
    /\ c.step = "decode" => Questions!Steady(c) \subseteq Questions!ToSet(c.got) \cup c.todo

\* Without a removal or a refresh, what a listing has not listed yet has at least as many
\* before it as are listed; and without an addition either, each is listed at its place.
Paging(c) ==
    /\ ~c.moved =>
        /\ LiveBy(c.clock) = Questions!Live
        /\ \A h \in Questions!Steady(c) \ Questions!ToSet(c.got) :
              Cardinality(Ahead(Questions!Live, h)) >= Len(c.got)
    /\ ~c.moved /\ ~c.grew =>
        /\ \A i \in 1..Len(c.got) :
              c.got[i] \in Questions!Live /\ Cardinality(Ahead(Questions!Live, c.got[i])) = i - 1
        /\ c.got # <<>> => c.total = Cardinality(Questions!Live)
        /\ c.got = <<>> => c.total = 0

Underway(c) ==
    /\ HasSeen(c)
    /\ c.tool = "rank" => Ranking(c)
    /\ c.tool # "rank" => /\ c.step \in {"open", "page"}
                          /\ c.limit \in Nat /\ 1 <= c.limit /\ c.limit <= LimitCap
    /\ c.tool = "list" => Paging(c)

ListTools == {"rank", "find", "list"}

ListSound(c) ==
    c # None /\ c.tool \in ListTools =>
        /\ c.step # "done" => Underway(c)
        /\ c.step = "done" => ListTrue(c)

\* What a step does to the entries: by an earlier clock only a stored one becomes live; a
\* step that moves none leaves the live ones as they were, and one that adds none either
\* leaves the same ones live.
Env(grows, moves) ==
    /\ EntriesTyped /\ EntriesTyped' /\ tick <= tick'
    /\ \A time \in Nat : time <= tick => LiveBy(time)' \subseteq LiveBy(time) \cup Questions!Live'
    /\ ~moves =>
        /\ Questions!Live \subseteq Questions!Live'
        /\ \A h \in Questions!Live : entries'[h] = entries[h]
        /\ \A time \in Nat : time <= tick /\ LiveBy(time) = Questions!Live => LiveBy(time)' = Questions!Live'
    /\ ~moves /\ ~grows => Questions!Live' = Questions!Live

\* How a call goes on over a step of others.
Follows(c, d, grows, moves) ==
    /\ d.tool = c.tool /\ d.step = c.step /\ d.clock = c.clock /\ d.limit = c.limit
    /\ d.todo = c.todo /\ d.got = c.got /\ d.total = c.total
    /\ Questions!Live' \subseteq d.seen /\ c.seen \subseteq d.seen /\ d.seen \subseteq Hashes
    /\ Questions!Steady(d) \subseteq Questions!Steady(c)
    /\ d.moved \in BOOLEAN /\ d.grew \in BOOLEAN
    /\ ~d.moved => ~moves /\ ~c.moved
    /\ ~d.grew => ~grows /\ ~c.grew

\* What is before an entry stays before it when nothing moves.
LEMMA AheadGrows ==
    ASSUME Questions!QueriesAssumption, NEW CONSTANT grows, NEW CONSTANT moves, Env(grows, moves), ~moves,
           NEW h \in Questions!Live
    PROVE  /\ Cardinality(Ahead(Questions!Live, h)) \in Nat
           /\ Cardinality(Ahead(Questions!Live, h)') \in Nat
           /\ Cardinality(Ahead(Questions!Live, h)) <= Cardinality(Ahead(Questions!Live, h)')
           /\ ~grows => Ahead(Questions!Live, h)' = Ahead(Questions!Live, h)
<1>1. /\ Questions!Live \subseteq Questions!Live' /\ Questions!Live' \subseteq Hashes
      /\ \A g \in Questions!Live : entries'[g] = entries[g]
      /\ ~grows => Questions!Live' = Questions!Live
    BY DEF Env, Questions!Live
<1>2. PICK A : A = Ahead(Questions!Live, h)
    OBVIOUS
<1>3. PICK B : B = Ahead(Questions!Live, h)'
    OBVIOUS
<1>4. A \subseteq B /\ B \subseteq Hashes
    BY <1>1, <1>2, <1>3 DEF Ahead, Questions!NewestFirst, Questions!Newer
<1>5. ~grows => A = B
    BY <1>1, <1>2, <1>3 DEF Ahead, Questions!NewestFirst, Questions!Newer
<1>6. IsFiniteSet(B) /\ Cardinality(B) \in Nat
    BY <1>4, QueriesFinite, FS_Subset, FS_CardinalityType DEF Questions!QueriesAssumption
<1>7. IsFiniteSet(A) /\ Cardinality(A) \in Nat /\ Cardinality(A) <= Cardinality(B)
    BY <1>4, <1>6, FS_Subset, FS_CardinalityType
<1> QED BY <1>2, <1>3, <1>5, <1>6, <1>7

LEMMA UnderwayFollows ==
    ASSUME Questions!QueriesAssumption, NEW CONSTANT grows, NEW CONSTANT moves, Env(grows, moves),
           NEW CONSTANT c, NEW CONSTANT d, Underway(c), Hashes \ Questions!Live \subseteq c.lost,
           Follows(c, d, grows, moves)
    PROVE  Underway(d)'
<1>1. Questions!Steady(c) \subseteq Questions!Live
    BY DEF Underway, HasSeen, Questions!Steady
<1>2. HasSeen(d)'
    <2>1. c.clock \in Nat /\ c.clock <= tick /\ tick <= tick' /\ tick \in Nat /\ tick' \in Nat
        BY DEF Underway, HasSeen, Env, EntriesTyped
    <2>2. LiveBy(c.clock)' \subseteq LiveBy(c.clock) \cup Questions!Live'
        BY <2>1 DEF Env
    <2>3. LiveBy(d.clock)' \subseteq d.seen
        BY <2>2 DEF Underway, HasSeen, Follows
    <2>4. d.clock \in Nat /\ d.clock <= tick'
        BY <2>1 DEF Follows
    <2> QED BY <2>3, <2>4 DEF Underway, HasSeen, Follows
<1>3. c.tool = "rank" => Ranking(d)'
    BY DEF Underway, Ranking, Follows
<1>4. ASSUME c.tool = "list" PROVE Paging(d)'
    <2>1. ASSUME ~d.moved PROVE LiveBy(d.clock)' = Questions!Live'
        BY <1>4, <2>1 DEF Underway, HasSeen, Paging, Follows, Env
    <2>2. ASSUME ~d.moved, NEW h \in Questions!Steady(d) \ Questions!ToSet(d.got)
          PROVE  Cardinality(Ahead(Questions!Live, h)') >= Len(d.got)
        <3>1. h \in Questions!Live /\ Cardinality(Ahead(Questions!Live, h)) >= Len(c.got) /\ ~moves
            BY <1>1, <1>4, <2>2 DEF Underway, Paging, Follows
        <3>2. PICK a, b : a = Cardinality(Ahead(Questions!Live, h)) /\ b = Cardinality(Ahead(Questions!Live, h)')
            OBVIOUS
        <3>3. a \in Nat /\ b \in Nat /\ a <= b
            BY <3>1, <3>2, AheadGrows
        <3>4. d.got = c.got /\ Len(c.got) \in Nat
            BY DEF Follows, Underway, HasSeen
        <3> QED BY <3>1, <3>2, <3>3, <3>4
    <2>3. ASSUME ~d.moved, ~d.grew
          PROVE  /\ \A i \in 1..Len(d.got) :
                       d.got[i] \in Questions!Live' /\ Cardinality(Ahead(Questions!Live, d.got[i])') = i - 1
                 /\ d.got # <<>> => d.total = Cardinality(Questions!Live')
                 /\ d.got = <<>> => d.total = 0
        <3>1. ~c.moved /\ ~c.grew /\ ~moves /\ ~grows /\ d.got = c.got /\ d.total = c.total
            BY <2>3 DEF Follows
        <3>2. Questions!Live' = Questions!Live
            BY <3>1 DEF Env
        <3>3. Paging(c)
            BY <1>4 DEF Underway
        <3>4. ASSUME NEW i \in 1..Len(c.got)
              PROVE  c.got[i] \in Questions!Live' /\ Cardinality(Ahead(Questions!Live, c.got[i])') = i - 1
            <4>1. c.got[i] \in Questions!Live /\ Cardinality(Ahead(Questions!Live, c.got[i])) = i - 1
                BY <3>1, <3>3, <3>4 DEF Paging
            <4>2. Ahead(Questions!Live, c.got[i])' = Ahead(Questions!Live, c.got[i])
                BY <3>1, <4>1, AheadGrows
            <4> QED BY <3>2, <4>1, <4>2
        <3>5. /\ c.got # <<>> => c.total = Cardinality(Questions!Live)
              /\ c.got = <<>> => c.total = 0
            BY <3>1, <3>3 DEF Paging
        <3> QED BY <3>1, <3>2, <3>4, <3>5
    <2> QED BY <2>1, <2>2, <2>3 DEF Paging
<1> QED BY <1>2, <1>3, <1>4 DEF Underway, Follows

\* A listing that is running has witnessed the present.
Witnessed(c) ==
    c # None =>
        /\ DOMAIN c = AskFields
        /\ c.step # "done" => Questions!Live \subseteq c.seen /\ Hashes \ Questions!Live \subseteq c.lost

LEMMA ListWitnesses ==
    ASSUME Questions!QueriesAssumption, NEW CONSTANT grows, NEW CONSTANT moves, Env(grows, moves),
           NEW CONSTANT c, NEW CONSTANT d, ListSound(c), Witnessed(c), d = Questions!Witness(c, grows, moves)
    PROVE  ListSound(d)'
<1>1. CASE c = None
    BY <1>1 DEF Questions!Witness, ListSound
<1>2. CASE c # None /\ c.step = "done"
    BY <1>2 DEF Questions!Witness, ListSound, ListTrue, RankTrue, FindTrue, PagesTrue, Questions!Matching
<1>3. CASE c # None /\ c.step # "done"
    <2>1. /\ DOMAIN c = AskFields
          /\ d = [c EXCEPT !.seen = @ \cup Questions!Live', !.lost = @ \cup (Hashes \ Questions!Live'),
                           !.grew = @ \/ grows, !.moved = @ \/ moves]
        BY <1>3 DEF Questions!Witness, Witnessed
    <2>2. /\ d.tool = c.tool /\ d.step = c.step /\ d.clock = c.clock /\ d.limit = c.limit
          /\ d.todo = c.todo /\ d.got = c.got /\ d.total = c.total
          /\ d.seen = c.seen \cup Questions!Live' /\ d.lost = c.lost \cup (Hashes \ Questions!Live')
        BY <2>1 DEF AskFields
    <2>3. d.grew = (c.grew \/ grows) /\ d.moved = (c.moved \/ moves)
        BY <2>1, Zenon DEF AskFields
    <2>4. ASSUME c.tool \in ListTools PROVE Underway(d)'
        <3>1. Underway(c)
            BY <1>3, <2>4 DEF ListSound
        <3>2. c.seen \subseteq Hashes /\ Questions!Live \subseteq c.seen /\ Hashes \ Questions!Live \subseteq c.lost
            BY <1>3, <3>1 DEF Underway, HasSeen, Witnessed
        <3>3. d.seen \subseteq Hashes /\ Questions!Steady(d) \subseteq Questions!Steady(c)
            BY <2>2, <3>2 DEF Questions!Live, Questions!Steady
        <3>4. d.moved \in BOOLEAN /\ d.grew \in BOOLEAN
            BY <2>3, Zenon
        <3>5. /\ ~d.moved => ~moves /\ ~c.moved
              /\ ~d.grew => ~grows /\ ~c.grew
            BY <2>3, Zenon
        <3>6. Follows(c, d, grows, moves)
            BY <2>2, <3>3, <3>4, <3>5 DEF Follows
        <3> QED BY <3>1, <3>2, <3>6, UnderwayFollows
    <2> QED BY <1>3, <2>2, <2>4 DEF ListSound
<1> QED BY <1>1, <1>2, <1>3

\* A call that is not touched while no entry is added, refreshed or removed.
LEMMA ListKept ==
    ASSUME Questions!QueriesAssumption, Env(FALSE, FALSE), NEW CONSTANT c, ListSound(c), Witnessed(c)
    PROVE  ListSound(c)'
<1>1. CASE c = None \/ c.tool \notin ListTools
    BY <1>1 DEF ListSound
<1>2. CASE c # None /\ c.step = "done"
    BY <1>2 DEF ListSound, ListTrue, RankTrue, FindTrue, PagesTrue, Questions!Matching
<1>3. CASE c # None /\ c.step # "done" /\ c.tool \in ListTools
    <2>1. Underway(c) /\ Questions!Live \subseteq c.seen /\ Hashes \ Questions!Live \subseteq c.lost
        BY <1>3 DEF ListSound, Witnessed
    <2>2. Questions!Live' = Questions!Live
        BY DEF Env
    <2>3. PICK no : no = FALSE
        OBVIOUS
    <2>4. Env(no, no) /\ ~no
        BY <2>3, Zenon
    <2>5. Follows(c, c, no, no)
        BY <2>1, <2>2, <2>4 DEF Follows, Underway, HasSeen
    <2>6. Underway(c)'
        BY <2>1, <2>4, <2>5, UnderwayFollows
    <2> QED BY <1>3, <2>6 DEF ListSound
<1> QED BY <1>1, <1>2, <1>3

ListsSound ==
    /\ DOMAIN ask = Askers
    /\ \A w \in Askers : ListSound(ask[w]) /\ Witnessed(ask[w])

LEMMA ListsWitness ==
    ASSUME Questions!QueriesAssumption, ListsSound, NEW CONSTANT grows, NEW CONSTANT moves, Env(grows, moves),
           ask' = [v \in Askers |-> Questions!Witness(ask[v], grows, moves)]
    PROVE  \A v \in Askers : ListSound(ask[v])'
<1>1. ASSUME NEW v \in Askers PROVE ListSound(ask[v])'
    <2>1. PICK c : c = ask[v]
        OBVIOUS
    <2>2. PICK d : d = Questions!Witness(c, grows, moves)
        OBVIOUS
    <2>3. ListSound(c) /\ Witnessed(c) /\ ask'[v] = d
        BY <2>1, <2>2 DEF ListsSound
    <2>4. ListSound(d)'
        BY <2>2, <2>3, ListWitnesses
    <2>5. (ask[v])' = d
        BY <2>3
    <2> HIDE DEF ListSound
    <2> QED BY <2>4, <2>5 DEF ListSound, Underway, HasSeen, Ranking, Paging, ListTrue, RankTrue, FindTrue, PagesTrue
<1> QED BY <1>1

LEMMA ListsContinue ==
    ASSUME Questions!QueriesAssumption, ListsSound, Env(FALSE, FALSE),
           NEW w, NEW CONSTANT e, ListSound(e), Witnessed(e), Questions!Continue(w, e)
    PROVE  \A v \in Askers : ListSound(ask[v])'
<1>1. ASSUME NEW v \in Askers PROVE ListSound(ask[v])'
    <2>1. PICK c : c = IF v = w THEN e ELSE ask[v]
        OBVIOUS
    <2>2. PICK no : no = FALSE
        OBVIOUS
    <2>3. PICK d : d = Questions!Witness(c, no, no)
        OBVIOUS
    <2>4. ListSound(c) /\ Witnessed(c)
        BY <2>1 DEF ListsSound
    <2>5. ask'[v] = d
        BY <2>1, <2>2, <2>3, Zenon DEF Questions!Continue
    <2>6. Env(no, no)
        BY <2>2, Zenon
    <2>7. ListSound(d)'
        BY <2>3, <2>4, <2>6, ListWitnesses
    <2> QED BY <2>5, <2>7 DEF ListSound, Underway, HasSeen, Ranking, Paging, ListTrue, RankTrue, FindTrue, PagesTrue
<1> QED BY <1>1

LEMMA ListsReplace ==
    ASSUME Questions!QueriesAssumption, ListsSound, Env(FALSE, FALSE),
           NEW w \in Askers, NEW CONSTANT e, ListSound(e)', ask' = [ask EXCEPT ![w] = e]
    PROVE  \A v \in Askers : ListSound(ask[v])'
<1>1. ASSUME NEW v \in Askers PROVE ListSound(ask[v])'
    <2>1. PICK c : c = IF v = w THEN e ELSE ask[v]
        OBVIOUS
    <2>2. ask'[v] = c
        BY <2>1 DEF ListsSound
    <2>3. ListSound(c)'
        <3>1. CASE v = w
            BY <2>1, <3>1
        <3>2. CASE v # w
            <4>1. ListSound(c) /\ Witnessed(c)
                BY <2>1, <3>2 DEF ListsSound
            <4> QED BY <4>1, ListKept
        <3> QED BY <3>1, <3>2
    <2> QED BY <2>2, <2>3 DEF ListSound, Underway, HasSeen, Ranking, Paging, ListTrue, RankTrue, FindTrue, PagesTrue
<1> QED BY <1>1

LEMMA EnvStill ==
    ASSUME EntriesTyped, UNCHANGED <<entries, tick>>
    PROVE  Env(FALSE, FALSE)
<1>1. EntriesTyped' /\ tick <= tick'
    BY DEF EntriesTyped
<1>2. Questions!Live' = Questions!Live
    BY DEF Questions!Live, Questions!LiveAt, Questions!Expired
<1>3. \A time \in Nat : LiveBy(time)' = LiveBy(time)
    BY DEF LiveBy, Questions!LiveAt, Questions!Expired
<1> QED BY <1>1, <1>2, <1>3 DEF Env

LEMMA EnvReap ==
    ASSUME QueriesInv, NEW h \in Hashes, Questions!Reap(h), h \notin Questions!Live, tick' = tick
    PROVE  Env(FALSE, FALSE)
<1>1. EntriesTyped /\ EntriesTyped' /\ tick <= tick' /\ Questions!Live' = Questions!Live
    BY ReapKeepsLive DEF QueriesInv, EntriesTyped
<1>2. \A g \in Hashes : entries'[g] = IF g = h THEN None ELSE entries[g]
    BY <1>1 DEF Questions!Reap, EntriesTyped
<1>3. \A time \in Nat : LiveBy(time)' = LiveBy(time) \ {h}
    BY <1>2 DEF LiveBy, Questions!LiveAt, Questions!Expired
<1>4. Questions!Live \subseteq Hashes
    BY DEF Questions!Live
<1>5. \A g \in Questions!Live : entries'[g] = entries[g]
    BY <1>2, <1>4
<1> QED BY <1>1, <1>3, <1>5 DEF Env

LEMMA EnvDrop ==
    ASSUME QueriesInv, NEW h \in Hashes, Questions!Drop(h)
    PROVE  Env(FALSE, TRUE)
<1>1. tick' = tick /\ entries' = [entries EXCEPT ![h] = None] /\ tick \in Nat
    BY DEF Questions!Drop, QueriesInv
<1>2. \A g \in Hashes : entries'[g] = IF g = h THEN None ELSE entries[g]
    BY <1>1 DEF QueriesInv
<1>3. \A time \in Nat : LiveBy(time)' \subseteq LiveBy(time)
    BY <1>2 DEF LiveBy, Questions!LiveAt, Questions!Expired
<1>4. EntriesTyped /\ EntriesTyped' /\ tick <= tick'
    BY <1>1 DEF QueriesInv, EntriesTyped
<1> QED BY <1>3, <1>4 DEF Env

LEMMA EnvTick ==
    ASSUME QueriesInv, Questions!Tick, NEW CONSTANT moves, ~moves => Questions!Live' = Questions!Live
    PROVE  Env(FALSE, moves)
<1>1. tick' = tick + 1 /\ entries' = entries /\ tick \in Nat
    BY DEF Questions!Tick, QueriesInv
<1>2. EntriesTyped /\ EntriesTyped' /\ tick <= tick'
    BY <1>1 DEF QueriesInv, EntriesTyped
<1>3. \A time \in Nat : LiveBy(time)' = LiveBy(time)
    BY <1>1 DEF LiveBy, Questions!LiveAt, Questions!Expired
<1> QED BY <1>1, <1>2, <1>3 DEF Env

\* A new entry is live by every earlier clock; a refresh moves the entry.
LEMMA EnvStore ==
    ASSUME Questions!QueriesAssumption, QueriesInv, NEW h \in Hashes, Questions!Store(h),
           NEW CONSTANT grows, NEW CONSTANT moves, ~moves => entries[h] = None, ~grows => entries[h] # None
    PROVE  Env(grows, moves)
<1>1. tick' = tick /\ entries' = [entries EXCEPT ![h] = tick] /\ tick \in Nat /\ Ttl \in Nat /\ None \notin Nat
    BY DEF Questions!Store, QueriesInv, Questions!QueriesAssumption
<1>2. \A g \in Hashes : entries'[g] = IF g = h THEN tick ELSE entries[g]
    BY <1>1 DEF QueriesInv
<1>3. EntriesTyped /\ EntriesTyped' /\ tick <= tick'
    BY <1>1 DEF QueriesInv, EntriesTyped
<1>4. ASSUME NEW time \in Nat, time <= tick PROVE LiveBy(time)' = LiveBy(time) \cup {h}
    <2>1. ASSUME NEW g \in Hashes PROVE Questions!LiveAt(g, time)' <=> (g = h \/ Questions!LiveAt(g, time))
        <3>1. CASE g = h
            <4>1. entries'[g] = tick /\ ~(time > tick + Ttl) /\ tick # None
                BY <1>1, <1>2, <1>4, <3>1
            <4> QED BY <3>1, <4>1 DEF Questions!LiveAt, Questions!Expired
        <3>2. CASE g # h
            BY <1>2, <3>2 DEF Questions!LiveAt, Questions!Expired
        <3> QED BY <3>1, <3>2
    <2> QED BY <2>1 DEF LiveBy
<1>5. Questions!Live' = Questions!Live \cup {h}
    <2>1. Questions!Live = LiveBy(tick) /\ Questions!Live' = LiveBy(tick)'
        BY DEF LiveBy, Questions!Live
    <2>2. PICK now1 : now1 = tick
        OBVIOUS
    <2>3. LiveBy(now1)' = LiveBy(now1) \cup {h}
        BY <1>1, <1>4, <2>2
    <2>4. Questions!Live = LiveBy(now1) /\ Questions!Live' = LiveBy(now1)'
        BY <1>1, <2>2 DEF LiveBy, Questions!Live
    <2> QED BY <2>3, <2>4
<1>6. ASSUME entries[h] = None, NEW g \in Questions!Live PROVE entries'[g] = entries[g]
    <2>1. g # h /\ g \in Hashes
        BY <1>6 DEF Questions!Live, Questions!LiveAt, Questions!Expired
    <2> QED BY <1>2, <2>1
<1>7. ~moves => \A g \in Questions!Live : entries'[g] = entries[g]
    BY <1>6
<1>8. moves \/ grows
    OBVIOUS
<1> QED BY <1>3, <1>4, <1>5, <1>7, <1>8 DEF Env

ListsInv == \A w \in Askers : ListSound(ask[w])

LEMMA ListsAre ==
    ASSUME QueriesInv, ListsInv
    PROVE  ListsSound /\ EntriesTyped
BY DEF QueriesInv, AskSound, Witnessed, ListsInv, ListsSound, EntriesTyped

\* A step of others.
LEMMA ListsOthers ==
    ASSUME Questions!QueriesAssumption, QueriesInv, ListsInv,
           Questions!Tick \/ \E h \in Hashes : Questions!Store(h) \/ Questions!Drop(h)
    PROVE  ListsInv'
<1>1. ListsSound
    BY ListsAre
<1>2. ASSUME NEW h \in Hashes, Questions!Store(h) PROVE ListsInv'
    <2>1. PICK grows, moves : grows = (entries[h] = None) /\ moves = (entries[h] # None)
        BY Zenon
    <2>2. ask' = [v \in Askers |-> Questions!Witness(ask[v], grows, moves)]
        BY <1>2, <2>1, Zenon DEF Questions!Store
    <2>3. (~moves => entries[h] = None) /\ (~grows => entries[h] # None)
        BY <2>1, Zenon
    <2>4. Env(grows, moves)
        BY <1>2, <2>3, EnvStore
    <2> QED BY <1>1, <2>2, <2>4, ListsWitness DEF ListsInv
<1>3. ASSUME NEW h \in Hashes, Questions!Drop(h) PROVE ListsInv'
    <2>1. PICK no, yes : no = FALSE /\ yes = TRUE
        OBVIOUS
    <2>2. ask' = [v \in Askers |-> Questions!Witness(ask[v], no, yes)]
        BY <1>3, <2>1, Zenon DEF Questions!Drop
    <2>3. Env(no, yes)
        BY <1>3, <2>1, EnvDrop, Zenon
    <2> QED BY <1>1, <2>2, <2>3, ListsWitness DEF ListsInv
<1>4. CASE Questions!Tick
    <2>1. PICK no : no = FALSE
        OBVIOUS
    <2>2. PICK moves : moves = (Questions!Live' # Questions!Live)
        BY Zenon
    <2>3. ask' = [v \in Askers |-> Questions!Witness(ask[v], no, moves)]
        BY <1>4, <2>1, <2>2, Zenon DEF Questions!Tick
    <2>4. ~moves => Questions!Live' = Questions!Live
        BY <2>2, Zenon
    <2>5. Env(FALSE, moves)
        BY <1>4, <2>4, EnvTick
    <2>6. Env(no, moves)
        BY <2>1, <2>5, Zenon
    <2> QED BY <1>1, <2>3, <2>6, ListsWitness DEF ListsInv
<1> QED BY <1>2, <1>3, <1>4

\* A call begins: it has seen what is live now, and nothing is listed.
LEMMA ListsBegin ==
    ASSUME Questions!QueriesAssumption, QueriesInv, ListsInv, NEW w \in Askers, NEW CONSTANT tool,
           NEW CONSTANT h, NEW CONSTANT limit, NEW CONSTANT first,
           Questions!Begin(w, tool, h, limit, first),
           tool = "rank" => first \in {"keys", "done"},
           tool \in {"find", "list"} =>
               first = "done" \/ (first = "open" /\ limit \in Nat /\ 1 <= limit /\ limit <= LimitCap)
    PROVE  ListsInv'
<1>1. PICK e : e = [tool |-> tool, hash |-> h, limit |-> limit, clock |-> tick, step |-> first,
            todo |-> {}, got |-> <<>>, total |-> 0,
            answer |-> IF first = "done" THEN "refused" ELSE "none",
            seen |-> Questions!Live, lost |-> Hashes \ Questions!Live, grew |-> FALSE, moved |-> FALSE]
    OBVIOUS
<1>2. ask' = [ask EXCEPT ![w] = e] /\ UNCHANGED <<tick, entries>>
    BY <1>1 DEF Questions!Begin
<1>3. ListsSound /\ Env(FALSE, FALSE) /\ tick \in Nat /\ Questions!Live' = Questions!Live
    BY <1>2, ListsAre, EnvStill DEF EntriesTyped, Env
<1>4. /\ e.tool = tool /\ e.step = first /\ e.clock = tick /\ e.limit = limit /\ e.todo = {} /\ e.got = <<>>
      /\ e.total = 0 /\ e.seen = Questions!Live /\ e.lost = Hashes \ Questions!Live
      /\ first = "done" => e.answer = "refused"
    BY <1>1
<1>5. e.grew = FALSE /\ e.moved = FALSE
    BY <1>1, Zenon
<1>6. ASSUME tool \in ListTools, first # "done" PROVE Underway(e)'
    <2>1. Questions!ToSet(e.got) = {} /\ e.got \in Seq(Hashes) /\ Len(e.got) = 0 /\ 1..Len(e.got) = {}
        BY <1>4 DEF Questions!ToSet
    <2>2. Questions!Live' = LiveBy(e.clock)' /\ Questions!Live \subseteq Hashes
        BY <1>2, <1>4 DEF LiveBy, Questions!Live
    <2>3. HasSeen(e)'
        <3>1. LiveBy(e.clock)' \subseteq e.seen
            BY <1>3, <1>4, <2>2
        <3>2. e.seen \subseteq Hashes /\ Questions!ToSet(e.got) \subseteq e.seen
            BY <1>4, <2>1, <2>2
        <3>3. e.clock \in Nat /\ e.clock <= tick'
            BY <1>2, <1>3, <1>4
        <3>4. e.grew \in BOOLEAN /\ e.moved \in BOOLEAN
            BY <1>5
        <3> QED BY <2>1, <3>1, <3>2, <3>3, <3>4 DEF HasSeen
    <2>4. tool = "rank" => Ranking(e)'
        BY <1>4, <1>6, <2>1 DEF Ranking, Distinct
    <2>5. ASSUME tool = "list" PROVE Paging(e)'
        <3>1. ASSUME NEW g \in Questions!Live
              PROVE  Cardinality(Ahead(Questions!Live, g)') >= Len(e.got)
            <4>1. PICK no : no = FALSE
                OBVIOUS
            <4>2. Env(no, no) /\ ~no
                BY <1>3, <4>1, Zenon
            <4>3. Cardinality(Ahead(Questions!Live, g)') \in Nat
                BY <3>1, <4>2, AheadGrows
            <4> QED BY <2>1, <4>3
        <3> QED BY <1>3, <1>4, <2>1, <2>2, <3>1 DEF Paging, Questions!Steady
    <2> QED BY <1>4, <1>6, <2>3, <2>4, <2>5 DEF Underway, ListTools
<1>7. ListSound(e)'
    BY <1>4, <1>6 DEF ListSound, ListTrue
<1> QED BY <1>2, <1>3, <1>7, ListsReplace DEF ListsInv

LEMMA ListsAsk ==
    ASSUME Questions!QueriesAssumption, QueriesInv, ListsInv, NEW w \in Askers,
           \/ \E h \in Hashes \cup {None}, query \in BOOLEAN, filters \in {"none", "some", "bad"} :
                 Questions!AskRetrieve(w, h, query, filters)
           \/ \E limit \in Limits, tool \in {"find", "list"} : Questions!AskPage(w, tool, limit)
    PROVE  ListsInv'
<1>1. ASSUME NEW h \in Hashes \cup {None}, NEW query \in BOOLEAN, NEW filters \in {"none", "some", "bad"},
             Questions!AskRetrieve(w, h, query, filters)
      PROVE  ListsInv'
    <2>1. PICK tool, first :
             /\ tool = (IF h = None THEN "rank" ELSE IF query THEN "query" ELSE "retrieve")
             /\ first \in {"done", IF h = None THEN "keys" ELSE "read"}
             /\ Questions!Begin(w, tool, h, MaxResults, first)
        BY <1>1 DEF Questions!AskRetrieve
    <2> QED BY <2>1, ListsBegin
<1>2. ASSUME NEW limit \in Limits, NEW tool \in {"find", "list"}, Questions!AskPage(w, tool, limit)
      PROVE  ListsInv'
    <2>1. PICK first, n : /\ n = Questions!Limit(limit) /\ first = (IF limit < 1 THEN "done" ELSE "open")
                          /\ Questions!Begin(w, tool, None, n, first)
        BY <1>2 DEF Questions!AskPage
    <2>2. limit \in Nat /\ LimitCap \in Nat /\ LimitCap >= 1
        BY DEF Questions!QueriesAssumption
    <2>3. n \in {limit, LimitCap} /\ n <= LimitCap
        BY <2>1, <2>2, MinOfTwo DEF Questions!Limit
    <2>4. first = "done" \/ (first = "open" /\ n \in Nat /\ 1 <= n /\ n <= LimitCap)
        BY <2>1, <2>2, <2>3
    <2> QED BY <2>1, <2>4, ListsBegin
<1> QED BY <1>1, <1>2

\* A step of a call about one hash.
LEMMA ListsHash ==
    ASSUME Questions!QueriesAssumption, QueriesInv, ListsInv, NEW w \in Askers, Env(FALSE, FALSE),
           NEW CONSTANT e, DOMAIN e = AskFields, e.tool \notin ListTools,
           \/ ask' = [ask EXCEPT ![w] = e]
           \/ /\ Questions!Continue(w, e)
              /\ e.seen = ask[w].seen /\ e.lost = ask[w].lost /\ Questions!Running(w)
    PROVE  ListsInv'
<1>1. ListsSound /\ ListSound(e) /\ ListSound(e)'
    BY ListsAre DEF ListSound
<1>2. CASE ask' = [ask EXCEPT ![w] = e]
    BY <1>1, <1>2, ListsReplace DEF ListsInv
<1>3. CASE Questions!Continue(w, e) /\ e.seen = ask[w].seen /\ e.lost = ask[w].lost /\ Questions!Running(w)
    <2>1. Witnessed(e)
        BY <1>1, <1>3 DEF Witnessed, ListsSound, Questions!Running
    <2> QED BY <1>1, <1>3, <2>1, ListsContinue DEF ListsInv
<1> QED BY <1>2, <1>3

LEMMA ListsHashes ==
    ASSUME Questions!QueriesAssumption, QueriesInv, ListsInv, NEW w \in Askers,
           \/ Questions!Retrieve(w) \/ Questions!Search(w) \/ Questions!Results(w)
           \/ Questions!Exists(w) \/ Questions!StatusClock(w) \/ Questions!Status(w)
    PROVE  ListsInv'
<1>1. /\ Questions!Running(w) /\ ask[w] # None /\ AskSound(ask[w]) /\ tick' = tick
      /\ DOMAIN ask[w] = AskFields /\ ask[w].tool \in {"retrieve", "query"}
    BY DEF Questions!Retrieve, Questions!Search, Questions!Results, Questions!Exists, Questions!StatusClock,
       Questions!Status, Questions!At, Questions!Running, QueriesInv, AskSound
<1>2. /\ ask[w].hash \in Hashes
      /\ Questions!LiveAt(ask[w].hash, tick) <=> ask[w].hash \in Questions!Live
      /\ HashSound(ask[w])
    BY <1>1, HashWitnessed
<1>3. \/ UNCHANGED entries
      \/ Questions!Reap(ask[w].hash) /\ ask[w].hash \notin Questions!Live
    <2>1. CASE Questions!Retrieve(w)
        BY <1>2, <2>1 DEF Questions!Retrieve
    <2>2. CASE Questions!Search(w)
        BY <1>2, <2>2 DEF Questions!Search
    <2>3. CASE Questions!Results(w) \/ Questions!Exists(w) \/ Questions!StatusClock(w)
        BY <2>3 DEF Questions!Results, Questions!Exists, Questions!StatusClock
    <2>4. CASE Questions!Status(w)
        <3>1. \/ UNCHANGED entries
              \/ /\ Questions!Reap(ask[w].hash) /\ entries[ask[w].hash] # None
                 /\ Questions!Expired(ask[w].hash, ask[w].clock)
            BY <2>4 DEF Questions!Status
        <3>2. ASSUME entries[ask[w].hash] # None, Questions!Expired(ask[w].hash, ask[w].clock)
              PROVE  ask[w].hash \notin Questions!Live
            <4>1. ask[w].clock \in Nat /\ ask[w].clock <= tick /\ tick \in Nat
                BY <1>2, <2>4 DEF HashSound, Questions!Status, Questions!At, QueriesInv
            <4>2. entries[ask[w].hash] \in Nat /\ Ttl \in Nat
                BY <1>2, <3>2 DEF QueriesInv, Questions!QueriesAssumption
            <4>3. tick > entries[ask[w].hash] + Ttl
                BY <3>2, <4>1, <4>2 DEF Questions!Expired
            <4> QED BY <4>3 DEF Questions!Live, Questions!LiveAt, Questions!Expired
        <3> QED BY <3>1, <3>2
    <2> QED BY <2>1, <2>2, <2>3, <2>4
<1>4. Env(FALSE, FALSE)
    BY <1>1, <1>2, <1>3, EnvReap, EnvStill, ListsAre
<1> DEFINE Goes(e) ==
           /\ DOMAIN e = AskFields /\ e.tool = ask[w].tool
           /\ \/ ask' = [ask EXCEPT ![w] = e]
              \/ Questions!Continue(w, e) /\ e.seen = ask[w].seen /\ e.lost = ask[w].lost
<1>5. ASSUME NEW answer, NEW got, Questions!Answer(w, answer, got) PROVE \E e : Goes(e)
    <2>1. PICK e : e = [ask[w] EXCEPT !.step = "done", !.answer = answer, !.got = got, !.todo = {}]
        OBVIOUS
    <2>2. ask' = [ask EXCEPT ![w] = e]
        BY <1>5, <2>1 DEF Questions!Answer
    <2>3. DOMAIN e = AskFields /\ e.tool = ask[w].tool
        BY <1>1, <2>1 DEF AskFields
    <2> QED BY <2>2, <2>3
<1>6. ASSUME NEW step, NEW time,
             \/ Questions!Continue(w, [ask[w] EXCEPT !.step = step])
             \/ Questions!Continue(w, [ask[w] EXCEPT !.clock = time, !.step = step])
      PROVE  \E e : Goes(e)
    <2>1. PICK e : /\ e \in {[ask[w] EXCEPT !.step = step], [ask[w] EXCEPT !.clock = time, !.step = step]}
                   /\ Questions!Continue(w, e)
        BY <1>6
    <2>2. DOMAIN e = AskFields /\ e.tool = ask[w].tool /\ e.seen = ask[w].seen /\ e.lost = ask[w].lost
        BY <1>1, <2>1 DEF AskFields
    <2> QED BY <2>1, <2>2
<1>7. \E e : Goes(e)
    <2> HIDE DEF Goes
    <2>1. CASE Questions!Retrieve(w)
        BY <1>5, <1>6, <2>1 DEF Questions!Retrieve
    <2>2. CASE Questions!Search(w)
        BY <1>6, <2>2 DEF Questions!Search
    <2>3. CASE Questions!Results(w)
        BY <1>5, <2>3 DEF Questions!Results
    <2>4. CASE Questions!Exists(w)
        BY <1>5, <1>6, <2>4 DEF Questions!Exists
    <2>5. CASE Questions!StatusClock(w)
        BY <1>6, <2>5 DEF Questions!StatusClock
    <2>6. CASE Questions!Status(w)
        BY <1>5, <2>6 DEF Questions!Status
    <2> QED BY <2>1, <2>2, <2>3, <2>4, <2>5, <2>6
<1>8. PICK e : Goes(e)
    BY <1>7
<1>9. e.tool \notin ListTools
    BY <1>1, <1>8 DEF ListTools
<1> QED BY <1>1, <1>4, <1>8, <1>9, ListsHash

\* A call over every entry goes on as e.
LEMMA ListsGoOn ==
    ASSUME Questions!QueriesAssumption, QueriesInv, ListsInv, NEW w \in Askers, UNCHANGED <<tick, entries>>,
           Questions!Running(w), NEW CONSTANT e, DOMAIN e = AskFields, ListSound(e),
           e.seen = ask[w].seen, e.lost = ask[w].lost, Questions!Continue(w, e)
    PROVE  ListsInv'
<1>1. ListsSound /\ Env(FALSE, FALSE)
    BY ListsAre, EnvStill
<1>2. Witnessed(e)
    BY <1>1 DEF Witnessed, ListsSound, Questions!Running
<1> QED BY <1>1, <1>2, ListsContinue DEF ListsInv

\* What a running call over every entry is.
LEMMA ListRuns ==
    ASSUME QueriesInv, ListsInv, NEW w \in Askers, Questions!Running(w), NEW c, c = ask[w]
    PROVE  /\ c # None /\ c.step # "done" /\ DOMAIN c = AskFields /\ tick \in Nat
           /\ Questions!Live \subseteq c.seen /\ Hashes \ Questions!Live \subseteq c.lost
           /\ c.tool \in ListTools => Underway(c)
<1>1. AskSound(c) /\ ListSound(c) /\ c # None /\ c.step # "done"
    BY DEF QueriesInv, ListsInv, Questions!Running
<1> QED BY <1>1 DEF AskSound, ListSound, QueriesInv

\* A call over every entry is answered with got.
LEMMA ListsEnd ==
    ASSUME QueriesInv, ListsInv, NEW w \in Askers, Questions!Running(w),
           NEW CONSTANT c, c = ask[w], NEW CONSTANT got, Questions!Answer(w, "listed", got)
    PROVE  \E e : /\ ask' = [ask EXCEPT ![w] = e] /\ e.step = "done" /\ e.tool = c.tool /\ e.got = got
                  /\ e.seen = c.seen /\ e.lost = c.lost /\ e.total = c.total
                  /\ e.moved = c.moved /\ e.grew = c.grew
<1>1. PICK e : e = [c EXCEPT !.step = "done", !.answer = "listed", !.got = got, !.todo = {}]
    OBVIOUS
<1>2. ask' = [ask EXCEPT ![w] = e]
    BY <1>1 DEF Questions!Answer
<1>3. DOMAIN c = AskFields
    BY ListRuns
<1>4. /\ e.step = "done" /\ e.tool = c.tool /\ e.got = got /\ e.seen = c.seen /\ e.lost = c.lost
      /\ e.total = c.total /\ e.moved = c.moved /\ e.grew = c.grew
    BY <1>1, <1>3 DEF AskFields
<1> QED BY <1>2, <1>4

LEMMA ListsAnswer ==
    ASSUME Questions!QueriesAssumption, QueriesInv, ListsInv, NEW w \in Askers, UNCHANGED <<tick, entries>>,
           NEW CONSTANT e, ask' = [ask EXCEPT ![w] = e], e.step = "done", ListTrue(e)
    PROVE  ListsInv'
<1>1. ListsSound /\ Env(FALSE, FALSE)
    BY ListsAre, EnvStill
<1>2. ListSound(e)'
    BY DEF ListSound, ListTrue, RankTrue, FindTrue, PagesTrue, Questions!Matching
<1> QED BY <1>1, <1>2, ListsReplace DEF ListsInv

\* search_all() takes the keys of every entry that is there.
LEMMA SnapshotLists ==
    ASSUME Questions!QueriesAssumption, QueriesInv, ListsInv, NEW w \in Askers, Questions!Snapshot(w)
    PROVE  ListsInv'
<1>1. PICK c, e : c = ask[w] /\ e = [c EXCEPT !.todo = {h \in Hashes : entries[h] # None}, !.step = "decode"]
    OBVIOUS
<1>2. /\ Questions!Running(w) /\ c.step = "keys" /\ UNCHANGED <<tick, entries>> /\ Questions!Continue(w, e)
    BY <1>1 DEF Questions!Snapshot, Questions!At
<1>3. /\ c # None /\ DOMAIN c = AskFields
      /\ Questions!Live \subseteq c.seen /\ Hashes \ Questions!Live \subseteq c.lost
      /\ c.tool \in ListTools => Underway(c)
    BY <1>1, <1>2, ListRuns
<1>4. /\ DOMAIN e = AskFields /\ e.tool = c.tool /\ e.step = "decode" /\ e.clock = c.clock /\ e.got = c.got
      /\ e.seen = c.seen /\ e.lost = c.lost /\ e.todo = {h \in Hashes : entries[h] # None}
      /\ e.grew = c.grew /\ e.moved = c.moved
    BY <1>1, <1>3 DEF AskFields
<1>5. ASSUME c.tool \in ListTools PROVE Underway(e)
    <2>1. c.tool = "rank" /\ HasSeen(c) /\ Ranking(c)
        BY <1>2, <1>3, <1>5 DEF Underway
    <2>2. c.got = <<>> /\ Questions!ToSet(e.got) = {}
        BY <1>2, <1>4, <2>1 DEF Ranking, Questions!ToSet
    <2>3. Questions!Steady(e) \subseteq e.todo
        BY <1>3, <1>4, <2>1 DEF Questions!Steady, HasSeen, Questions!Live, Questions!LiveAt, Questions!Expired
    <2>4. Ranking(e)
        BY <1>4, <2>1, <2>2, <2>3 DEF Ranking
    <2>5. HasSeen(e)
        BY <1>4, <2>1 DEF HasSeen
    <2> QED BY <1>4, <2>1, <2>4, <2>5 DEF Underway
<1>6. ListSound(e)
    BY <1>4, <1>5 DEF ListSound
<1> QED BY <1>1, <1>2, <1>4, <1>6, ListsGoOn

LEMMA AppendNew ==
    ASSUME NEW n \in Nat, NEW s, NEW h, NEW t, DOMAIN s = 1..n, Len(s) = n, DOMAIN t = 1..(n + 1),
           Len(t) = n + 1, t[n + 1] = h, \A i \in 1..n : t[i] = s[i]
    PROVE  /\ Questions!ToSet(t) = Questions!ToSet(s) \cup {h}
           /\ Distinct(s) /\ h \notin Questions!ToSet(s) => Distinct(t)
<1>1. \A i \in 1..(n + 1) : i \in 1..n \/ i = n + 1
    OBVIOUS
<1>2. 1..n \subseteq 1..(n + 1) /\ n + 1 \in 1..(n + 1)
    OBVIOUS
<1>3. Questions!ToSet(t) = Questions!ToSet(s) \cup {h}
    BY <1>1, <1>2 DEF Questions!ToSet
<1>4. ASSUME Distinct(s), h \notin Questions!ToSet(s), NEW i \in 1..(n + 1), NEW j \in 1..(n + 1), t[i] = t[j]
      PROVE  i = j
    <2>1. \A k \in 1..n : t[k] # h
        BY <1>4 DEF Questions!ToSet
    <2> QED BY <1>1, <1>4, <2>1 DEF Distinct
<1> QED BY <1>3, <1>4 DEF Distinct

\* An entry that went in between drops out: it was not there all along.
LEMMA DecodeLists ==
    ASSUME Questions!QueriesAssumption, QueriesInv, ListsInv, NEW w \in Askers, Questions!Decode(w)
    PROVE  ListsInv'
<1>1. PICK c : c = ask[w]
    OBVIOUS
<1>2. PICK h \in c.todo : Questions!Continue(w, [c EXCEPT !.todo = @ \ {h},
               !.got = IF Questions!LiveAt(h, c.clock) THEN Append(@, h) ELSE @])
    BY <1>1 DEF Questions!Decode
<1>3. /\ Questions!Running(w) /\ c.step = "decode" /\ UNCHANGED <<tick, entries>> /\ c.tool = "rank"
    BY <1>1 DEF Questions!Decode, Questions!At
<1>4. /\ c # None /\ DOMAIN c = AskFields /\ tick \in Nat
      /\ Questions!Live \subseteq c.seen /\ Hashes \ Questions!Live \subseteq c.lost
      /\ HasSeen(c) /\ Ranking(c)
    BY <1>1, <1>3, ListRuns DEF Underway, ListTools
<1>5. PICK got, todo, e : /\ got = IF Questions!LiveAt(h, c.clock) THEN Append(c.got, h) ELSE c.got
                          /\ todo = c.todo \ {h}
                          /\ e = [c EXCEPT !.todo = todo, !.got = got]
    OBVIOUS
<1>6. Questions!Continue(w, e)
    BY <1>2, <1>5
<1>7. /\ DOMAIN e = AskFields /\ e.tool = c.tool /\ e.step = "decode" /\ e.clock = c.clock /\ e.got = got
      /\ e.seen = c.seen /\ e.lost = c.lost /\ e.todo = todo
      /\ e.grew = c.grew /\ e.moved = c.moved
    BY <1>3, <1>4, <1>5 DEF AskFields
<1>8. c.todo \subseteq Hashes /\ h \in Hashes /\ h \notin Questions!ToSet(c.got) /\ c.got \in Seq(Hashes)
    BY <1>4 DEF Ranking, HasSeen
<1>9. HasSeen(e) /\ Ranking(e)
    <2>1. CASE Questions!LiveAt(h, c.clock)
        <3>1. got = Append(c.got, h)
            BY <1>5, <2>1
        <3>2. /\ got \in Seq(Hashes) /\ Questions!ToSet(got) = Questions!ToSet(c.got) \cup {h}
              /\ Distinct(c.got) => Distinct(got)
            <4>1. PICK old, S : old = c.got /\ S = Hashes
                OBVIOUS
            <4>2. old \in Seq(S) /\ h \in S /\ got = Append(old, h)
                BY <1>8, <3>1, <4>1
            <4>3. /\ got \in Seq(S) /\ Len(got) = Len(old) + 1 /\ got[Len(old) + 1] = h
                  /\ \A i \in 1..Len(old) : got[i] = old[i]
                BY <4>2
            <4>4. PICK n : n = Len(old)
                OBVIOUS
            <4>5. /\ n \in Nat /\ DOMAIN old = 1..n /\ Len(old) = n /\ DOMAIN got = 1..(n + 1)
                  /\ Len(got) = n + 1 /\ got[n + 1] = h /\ \A i \in 1..n : got[i] = old[i]
                BY <4>2, <4>3, <4>4
            <4>6. /\ Questions!ToSet(got) = Questions!ToSet(old) \cup {h}
                  /\ Distinct(old) /\ h \notin Questions!ToSet(old) => Distinct(got)
                BY <4>5, AppendNew
            <4> QED BY <1>8, <4>1, <4>3, <4>6
        <3>3. h \in c.seen
            BY <1>4, <1>8, <2>1 DEF HasSeen, LiveBy
        <3>4. HasSeen(e)
            BY <1>4, <1>7, <3>2, <3>3 DEF HasSeen
        <3>5. Ranking(e)
            BY <1>3, <1>4, <1>5, <1>7, <3>2 DEF Ranking, Questions!Steady
        <3> QED BY <3>4, <3>5
    <2>2. CASE ~Questions!LiveAt(h, c.clock)
        <3>1. got = c.got
            BY <1>5, <2>2
        <3>2. h \notin Questions!Live
            <4>1. c.clock \in Nat /\ c.clock <= tick /\ Ttl \in Nat
                BY <1>4 DEF HasSeen, Questions!QueriesAssumption
            <4>2. entries[h] # None => entries[h] \in Nat
                BY <1>8 DEF QueriesInv
            <4> QED BY <1>4, <2>2, <4>1, <4>2 DEF Questions!Live, Questions!LiveAt, Questions!Expired
        <3>3. h \notin Questions!Steady(c)
            BY <1>4, <1>8, <3>2 DEF Questions!Steady
        <3>4. HasSeen(e)
            BY <1>4, <1>7, <3>1 DEF HasSeen
        <3>5. Ranking(e)
            BY <1>3, <1>4, <1>5, <1>7, <3>1, <3>3 DEF Ranking, Questions!Steady
        <3> QED BY <3>4, <3>5
    <2> QED BY <2>1, <2>2
<1>10. ListSound(e)
    BY <1>3, <1>7, <1>9 DEF ListSound, Underway
<1> QED BY <1>1, <1>3, <1>6, <1>7, <1>10, ListsGoOn

\* The answer of a ranking.
LEMMA RankLists ==
    ASSUME Questions!QueriesAssumption, QueriesInv, ListsInv, NEW w \in Askers, Questions!Rank(w)
    PROVE  ListsInv'
<1>1. PICK c, s : c = ask[w] /\ s = Questions!Best(c.got)
    OBVIOUS
<1>2. /\ Questions!Running(w) /\ c.step = "decode" /\ UNCHANGED <<tick, entries>> /\ c.tool = "rank"
      /\ c.todo = {} /\ Questions!Answer(w, "listed", s)
    BY <1>1 DEF Questions!Rank, Questions!At
<1>3. HasSeen(c) /\ Ranking(c)
    BY <1>1, <1>2, ListRuns DEF Underway, ListTools
<1>4. Questions!Steady(c) \subseteq Questions!ToSet(c.got) /\ c.got \in Seq(Hashes) /\ Distinct(c.got)
    BY <1>2, <1>3 DEF Ranking, HasSeen
<1>5. /\ s \in Seq(Hashes) /\ Distinct(s) /\ Len(s) <= MaxResults
      /\ Questions!ToSet(s) \subseteq {h \in Questions!ToSet(c.got) : Questions!Matching(h)}
      /\ \A h \in Questions!ToSet(c.got) \ Questions!ToSet(s) :
            Questions!Matching(h) =>
                Len(s) = MaxResults /\ \A g \in Questions!ToSet(s) : ScoreOf[g] >= ScoreOf[h]
    BY <1>1, <1>4, BestIsBest
<1>6. Len(s) = Cardinality(Questions!ToSet(s))
    BY <1>5, DistinctCounts
<1>7. PICK e : /\ ask' = [ask EXCEPT ![w] = e] /\ e.step = "done" /\ e.tool = c.tool /\ e.got = s
               /\ e.seen = c.seen /\ e.lost = c.lost
    BY <1>1, <1>2, ListsEnd
<1>8. RankTrue(e)
    BY <1>3, <1>4, <1>5, <1>6, <1>7 DEF RankTrue, HasSeen, Questions!Steady
<1> QED BY <1>2, <1>7, <1>8, ListsAnswer DEF ListTrue

LEMMA OpenLists ==
    ASSUME Questions!QueriesAssumption, QueriesInv, ListsInv, NEW w \in Askers, Questions!Open(w)
    PROVE  ListsInv'
<1>1. PICK c, e : c = ask[w] /\ e = [c EXCEPT !.clock = tick, !.step = "page"]
    OBVIOUS
<1>2. /\ Questions!Running(w) /\ c.step = "open" /\ UNCHANGED <<tick, entries>> /\ Questions!Continue(w, e)
    BY <1>1 DEF Questions!Open, Questions!At
<1>3. /\ c # None /\ DOMAIN c = AskFields /\ tick \in Nat
      /\ Questions!Live \subseteq c.seen /\ Hashes \ Questions!Live \subseteq c.lost
      /\ c.tool \in ListTools => Underway(c)
    BY <1>1, <1>2, ListRuns
<1>4. /\ DOMAIN e = AskFields /\ e.tool = c.tool /\ e.step = "page" /\ e.clock = tick /\ e.got = c.got
      /\ e.seen = c.seen /\ e.lost = c.lost /\ e.limit = c.limit /\ e.total = c.total
      /\ e.grew = c.grew /\ e.moved = c.moved
    BY <1>1, <1>3 DEF AskFields
<1>5. ASSUME c.tool \in ListTools PROVE Underway(e)
    <2>1. Underway(c) /\ c.tool # "rank"
        BY <1>2, <1>3, <1>5 DEF Underway, Ranking
    <2>2. LiveBy(tick) = Questions!Live
        BY DEF LiveBy, Questions!Live
    <2>3. HasSeen(e)
        BY <1>3, <1>4, <2>1, <2>2 DEF Underway, HasSeen
    <2>4. c.tool = "list" => Paging(e)
        BY <1>4, <2>1, <2>2 DEF Underway, Paging, Questions!Steady
    <2> QED BY <1>4, <2>1, <2>3, <2>4 DEF Underway
<1>6. ListSound(e)
    BY <1>4, <1>5 DEF ListSound
<1> QED BY <1>1, <1>2, <1>4, <1>6, ListsGoOn

\* A search answers with entries that were live by its clock.
LEMMA FindLists ==
    ASSUME Questions!QueriesAssumption, QueriesInv, ListsInv, NEW w \in Askers, Questions!Find(w)
    PROVE  ListsInv'
<1>1. PICK c, S, hits, s :
        /\ c = ask[w] /\ S = {h \in Hashes : Questions!LiveAt(h, c.clock) /\ Questions!Matching(h)}
        /\ hits = Questions!InOrder(S, Questions!NewestFirst)
        /\ s = SubSeq(hits, 1, Questions!Min({c.limit, Len(hits)}))
    OBVIOUS
<1>2. /\ Questions!Running(w) /\ c.step = "page" /\ UNCHANGED <<tick, entries>> /\ c.tool = "find"
      /\ Questions!Answer(w, "listed", s)
    BY <1>1 DEF Questions!Find, Questions!At
<1>3. HasSeen(c) /\ c.limit \in Nat /\ c.limit <= LimitCap /\ LimitCap \in Nat
    BY <1>1, <1>2, ListRuns DEF Underway, ListTools, Questions!QueriesAssumption
<1>4. EntriesTyped /\ S \subseteq Hashes /\ \A h \in S : entries[h] # None
    BY <1>1, ListsAre DEF Questions!LiveAt, Questions!Expired
<1>5. OrdersAll(Questions!NewestFirst, S) /\ IsFiniteSet(S)
    BY <1>4, NewestOrders, QueriesFinite, FS_Subset DEF Questions!QueriesAssumption
<1>6. hits \in Seq(S)
    <2>1. PICK before, n : before = Questions!NewestFirst /\ n = Cardinality(S)
        OBVIOUS
    <2>2. OrdersAll(before, S) /\ hits = Questions!InOrder(S, before)
        BY <1>1, <1>5, <2>1
    <2> QED BY <1>5, <2>1, <2>2, OrderKept
<1>7. s \in Seq(S) /\ Len(s) \in Nat /\ Len(s) <= c.limit
    <2>1. PICK m : m = Questions!Min({c.limit, Len(hits)})
        OBVIOUS
    <2>2. Len(hits) \in Nat
        BY <1>6
    <2>3. m \in Nat /\ m <= c.limit /\ m <= Len(hits)
        BY <1>3, <2>1, <2>2, MinOfTwo
    <2>4. s = SubSeq(hits, 1, m)
        BY <1>1, <2>1
    <2>5. s \in Seq(S) /\ Len(s) = m
        BY <1>6, <2>3, <2>4, FirstOf
    <2> QED BY <2>3, <2>5
<1>8. Questions!ToSet(s) \subseteq S
    BY <1>7 DEF Questions!ToSet
<1>9. S \subseteq {h \in c.seen : Questions!Matching(h)}
    BY <1>1, <1>3 DEF HasSeen, LiveBy
<1>10. PICK e : /\ ask' = [ask EXCEPT ![w] = e] /\ e.step = "done" /\ e.tool = c.tool /\ e.got = s
                /\ e.seen = c.seen
    <2>1. c = ask[w]
        BY <1>1
    <2>2. PICK got : got = s
        OBVIOUS
    <2>3. Questions!Answer(w, "listed", got)
        BY <1>2, <2>2
    <2>4. PICK e : /\ ask' = [ask EXCEPT ![w] = e] /\ e.step = "done" /\ e.tool = c.tool /\ e.got = got
                   /\ e.seen = c.seen
        BY <1>2, <2>1, <2>3, ListsEnd
    <2> QED BY <2>2, <2>4
<1>11. FindTrue(e)
    BY <1>3, <1>7, <1>8, <1>9, <1>10 DEF FindTrue
<1> QED BY <1>2, <1>10, <1>11, ListsAnswer DEF ListTrue

\* A page continues the listing after the entries that are listed; without a page all are.
LEMMA PageLists ==
    ASSUME Questions!QueriesAssumption, QueriesInv, ListsInv, NEW w \in Askers, Questions!List(w)
    PROVE  ListsInv'
<1>1. PICK c : c = ask[w]
    OBVIOUS
<1>2. PICK L, k, page :
        /\ L = Questions!Listing(c.clock) /\ k = Len(c.got)
        /\ page = SubSeq(L, k + 1, Questions!Min({k + c.limit, Len(L)}))
    OBVIOUS
<1>3. /\ Questions!Running(w) /\ c.step = "page" /\ UNCHANGED <<tick, entries>> /\ c.tool = "list"
      /\ page = <<>> => Questions!Answer(w, "listed", c.got)
      /\ page # <<>> => Questions!Continue(w, [c EXCEPT !.got = @ \o page, !.total = Len(L), !.step = "open"])
    BY <1>1, <1>2 DEF Questions!List, Questions!At, Questions!NextPage
<1>4. /\ c # None /\ DOMAIN c = AskFields
      /\ Questions!Live \subseteq c.seen /\ Hashes \ Questions!Live \subseteq c.lost
      /\ HasSeen(c) /\ Paging(c) /\ c.limit \in Nat /\ 1 <= c.limit /\ c.limit <= LimitCap
    BY <1>1, <1>3, ListRuns DEF Underway, ListTools
<1>5. c.got \in Seq(Hashes) /\ k \in Nat /\ Questions!ToSet(c.got) \subseteq c.seen /\ DOMAIN c.got = 1..k
    BY <1>2, <1>4 DEF HasSeen
<1>6. PICK S, n : S = LiveBy(c.clock) /\ n = Cardinality(S)
    OBVIOUS
<1>7. /\ n \in Nat /\ L \in Seq(S) /\ Len(L) = n /\ IsFiniteSet(S) /\ S \subseteq Hashes
      /\ \A h \in S : \E i \in 1..n : L[i] = h
      /\ \A i \in 1..n : Cardinality(Ahead(S, L[i])) = i - 1 /\ L[i] \in S
    <2>1. EntriesTyped
        BY ListsAre
    <2>2. PICK time : time = c.clock
        OBVIOUS
    <2>3. S = LiveBy(time) /\ L = Questions!Listing(time)
        BY <1>2, <1>6, <2>2
    <2>4. n = Cardinality(S)
        BY <1>6
    <2>5. Lists(L, n, S)
        BY <2>1, <2>3, <2>4, ListingPlaces
    <2>6. L \in Seq(S) /\ Len(L) = n /\ n \in Nat
        BY <2>5 DEF Lists
    <2>7. \A i \in 1..n : L[i] \in S
        BY <2>6
    <2> QED BY <2>5, <2>7 DEF Lists
<1>8. /\ page \in Seq(S) /\ Len(page) \in Nat
      /\ \A i \in 1..Len(page) : page[i] = L[k + i] /\ k + i \in 1..n
      /\ Len(page) = 0 => n <= k
    <2>1. PICK m, a, limit : /\ m = Questions!Min({k + c.limit, Len(L)}) /\ a = k + 1 /\ limit = c.limit
        OBVIOUS
    <2>2. k + limit \in Nat /\ Len(L) \in Nat /\ a \in Nat \ {0}
        BY <1>4, <1>5, <1>7, <2>1
    <2>3. m \in Nat /\ m \in {k + limit, Len(L)} /\ m <= k + limit /\ m <= Len(L)
        BY <2>1, <2>2, MinOfTwo
    <2>4. /\ page = SubSeq(L, a, m) /\ L \in Seq(S) /\ a \in Nat \ {0}
          /\ m \in Nat /\ m <= Len(L)
        BY <1>2, <1>7, <2>1, <2>2, <2>3
    <2>5. /\ page \in Seq(S) /\ Len(page) \in Nat
          /\ a <= m => Len(page) = (m - a) + 1
          /\ ~(a <= m) => Len(page) = 0
          /\ \A i \in 1..Len(page) : page[i] = L[(a - 1) + i] /\ (a - 1) + i \in a..m
        <3>1. page \in Seq(S) /\ Len(page) \in Nat
            BY <2>4, Slice
        <3>2. a <= m => Len(page) = (m - a) + 1
            BY <2>4, Slice
        <3>3. ~(a <= m) => Len(page) = 0
            BY <2>4, Slice
        <3>4. ASSUME NEW i \in 1..Len(page) PROVE page[i] = L[(a - 1) + i] /\ (a - 1) + i \in a..m
            BY <2>4, Slice
        <3> QED BY <3>1, <3>2, <3>3, <3>4
    <2>6. ASSUME NEW i \in 1..Len(page) PROVE page[i] = L[k + i] /\ k + i \in 1..n
        <3>1. (a - 1) + i = k + i
            BY <1>5, <2>1
        <3>2. page[i] = L[(a - 1) + i] /\ (a - 1) + i \in a..m
            BY <2>5
        <3>3. k + i \in a..m
            BY <3>1, <3>2
        <3>4. k + i \in 1..n
            <4>1. m <= n
                BY <1>7, <2>3
            <4>2. k + i >= k + 1 /\ k + i <= m /\ k + i \in Int
                BY <2>1, <2>2, <2>3, <3>3
            <4> QED BY <1>5, <1>7, <2>3, <4>1, <4>2
        <3> QED BY <3>1, <3>2, <3>4
    <2>7. ASSUME Len(page) = 0 PROVE n <= k
        <3>1. ~(a <= m)
            BY <2>2, <2>3, <2>5, <2>7
        <3>2. Len(L) = n /\ c.limit >= 1 /\ a = k + 1
            BY <1>4, <1>7, <2>1
        <3> QED BY <1>4, <1>5, <1>7, <2>1, <2>2, <2>3, <3>1, <3>2
    <2> QED BY <2>5, <2>6, <2>7
<1>9. Questions!Steady(c) \subseteq Questions!Live
    BY <1>4 DEF Questions!Steady, HasSeen
<1>10. ASSUME ~c.moved, NEW h \in Questions!Steady(c) \ Questions!ToSet(c.got)
       PROVE  \E i \in 1..n : L[i] = h /\ i > k
    <2>1. S = Questions!Live /\ Cardinality(Ahead(S, h)) >= k
        BY <1>2, <1>4, <1>6, <1>10 DEF Paging
    <2>2. PICK i \in 1..n : L[i] = h
        BY <1>7, <1>9, <1>10, <2>1
    <2>3. i - 1 >= k
        BY <1>7, <2>1, <2>2
    <2> QED BY <1>5, <1>7, <2>2, <2>3
<1>11. CASE page = <<>>
    <2>1. n <= k
        BY <1>8, <1>11
    <2>2. PICK got, e : /\ got = c.got /\ ask' = [ask EXCEPT ![w] = e] /\ e.step = "done" /\ e.tool = c.tool
                        /\ e.got = got /\ e.seen = c.seen /\ e.lost = c.lost /\ e.total = c.total
                        /\ e.moved = c.moved /\ e.grew = c.grew
        BY <1>1, <1>3, <1>11, ListsEnd
    <2>3. ~c.moved => Questions!Steady(c) \subseteq Questions!ToSet(c.got)
        BY <1>5, <1>7, <1>10, <2>1
    <2>4. ASSUME ~c.moved, ~c.grew
          PROVE  Cardinality(Questions!ToSet(c.got)) = Len(c.got) /\ Len(c.got) = c.total
        <3>1. /\ \A i \in 1..k : c.got[i] \in S /\ Cardinality(Ahead(S, c.got[i])) = i - 1
              /\ c.got # <<>> => c.total = n
              /\ c.got = <<>> => c.total = 0
            BY <1>2, <1>4, <1>6, <2>4 DEF Paging
        <3>2. Distinct(c.got)
            <4> SUFFICES ASSUME NEW i \in 1..k, NEW j \in 1..k, c.got[i] = c.got[j] PROVE i = j
                BY <1>2 DEF Distinct
            <4>1. i - 1 = j - 1
                BY <3>1
            <4> QED BY <1>5, <4>1
        <3>3. PICK T : T = Questions!ToSet(c.got)
            OBVIOUS
        <3>4. Cardinality(T) = k
            BY <1>2, <1>5, <3>2, <3>3, DistinctCounts
        <3>5. T \subseteq S
            BY <1>5, <3>1, <3>3 DEF Questions!ToSet
        <3>6. k <= n
            BY <1>6, <1>7, <3>4, <3>5, FS_Subset
        <3>7. k = n
            BY <1>5, <1>7, <2>1, <3>6
        <3>8. c.got = <<>> => k = 0
            BY <1>2
        <3> QED BY <1>2, <3>1, <3>3, <3>4, <3>7, <3>8
    <2>5. PagesTrue(e)
        BY <1>5, <2>2, <2>3, <2>4 DEF PagesTrue, Questions!Steady
    <2> QED BY <1>3, <2>2, <2>5, ListsAnswer DEF ListTrue
<1>12. CASE page # <<>>
    <2>1. PICK got, e : got = c.got \o page /\ e = [c EXCEPT !.got = got, !.total = Len(L), !.step = "open"]
        OBVIOUS
    <2>2. Questions!Continue(w, e)
        BY <1>3, <1>12, <2>1
    <2>3. /\ DOMAIN e = AskFields /\ e.tool = "list" /\ e.step = "open" /\ e.clock = c.clock /\ e.got = got
          /\ e.seen = c.seen /\ e.lost = c.lost /\ e.limit = c.limit /\ e.total = n
          /\ e.grew = c.grew /\ e.moved = c.moved
        BY <1>3, <1>4, <1>7, <2>1 DEF AskFields
    <2>4. PICK p : p = Len(page)
        OBVIOUS
    <2>5. page \in Seq(Hashes)
        BY <1>7, <1>8
    <2>6. /\ got \in Seq(Hashes) /\ Len(got) = k + p /\ p \in Nat /\ DOMAIN got = 1..(k + p)
          /\ \A i \in 1..k : got[i] = c.got[i]
          /\ \A i \in 1..p : got[k + i] = page[i]
        <3>1. PICK old : old = c.got
            OBVIOUS
        <3>2. old \in Seq(Hashes) /\ Len(old) = k /\ got = old \o page
            BY <1>2, <1>5, <2>1, <3>1
        <3>3. /\ got \in Seq(Hashes) /\ Len(got) = k + p /\ p \in Nat
              /\ \A i \in 1..k : got[i] = old[i]
              /\ \A i \in 1..p : got[k + i] = page[i]
            <4>1. old \in Seq(Hashes) /\ page \in Seq(Hashes) /\ got = old \o page
                BY <2>5, <3>2
            <4>2. /\ got \in Seq(Hashes) /\ Len(got) = Len(old) + Len(page) /\ Len(page) \in Nat
                  /\ Len(old) \in Nat
                BY <4>1
            <4>3. ASSUME NEW i \in 1..Len(old) PROVE got[i] = old[i]
                BY <4>1
            <4>4. ASSUME NEW i \in 1..Len(page) PROVE got[Len(old) + i] = page[i]
                BY <4>1
            <4> QED BY <2>4, <3>2, <4>2, <4>3, <4>4
        <3> QED BY <3>1, <3>3
    <2>7. \A i \in 1..(k + p) : i \in 1..k \/ (i - k \in 1..p /\ i = k + (i - k))
        BY <1>5, <2>6
    <2>8. \A i \in (k + 1)..(k + p) : got[i] = L[i] /\ i \in 1..n
        <3> SUFFICES ASSUME NEW i \in (k + 1)..(k + p) PROVE got[i] = L[i] /\ i \in 1..n
            OBVIOUS
        <3>1. i - k \in 1..p /\ k + (i - k) = i
            BY <1>5, <2>6
        <3>2. got[k + (i - k)] = page[i - k] /\ page[i - k] = L[k + (i - k)] /\ k + (i - k) \in 1..n
            BY <1>8, <2>4, <2>6, <3>1
        <3> QED BY <3>1, <3>2
    <2>9. p # 0 /\ got # <<>>
        BY <1>5, <1>8, <1>12, <2>4, <2>6
    <2>10. HasSeen(e)
        <3>1. S \subseteq c.seen
            BY <1>4, <1>6 DEF HasSeen
        <3>2. ASSUME NEW i \in 1..(k + p) PROVE got[i] \in c.seen
            <4>1. CASE i \in 1..k
                BY <1>5, <2>6, <4>1 DEF Questions!ToSet
            <4>2. CASE i \notin 1..k
                <5>1. i \in (k + 1)..(k + p)
                    BY <1>5, <2>6, <4>2
                <5>2. got[i] \in S
                    BY <1>7, <2>8, <5>1
                <5> QED BY <3>1, <5>2
            <4> QED BY <4>1, <4>2
        <3>3. Questions!ToSet(got) \subseteq c.seen
            BY <2>6, <3>2 DEF Questions!ToSet
        <3> QED BY <1>4, <2>3, <2>6, <3>3 DEF HasSeen
    <2>11. ASSUME ~c.moved, NEW h \in Questions!Steady(c) \ Questions!ToSet(got)
           PROVE  Cardinality(Ahead(Questions!Live, h)) >= k + p
        <3>1. \A i \in 1..k : c.got[i] # h
            BY <1>5, <2>6, <2>11 DEF Questions!ToSet
        <3>2. h \notin Questions!ToSet(c.got)
            BY <1>5, <3>1 DEF Questions!ToSet
        <3>3. PICK i \in 1..n : L[i] = h /\ i > k
            BY <1>10, <2>11, <3>2
        <3>4. i \notin (k + 1)..(k + p)
            <4>1. ASSUME i \in (k + 1)..(k + p) PROVE FALSE
                <5>1. got[i] = h /\ i \in 1..(k + p)
                    BY <1>5, <2>6, <2>8, <3>3, <4>1
                <5> QED BY <2>6, <2>11, <5>1 DEF Questions!ToSet
            <4> QED BY <4>1
        <3>5. i - 1 >= k + p
            BY <1>5, <1>7, <2>6, <3>3, <3>4
        <3>6. S = Questions!Live /\ Cardinality(Ahead(S, h)) = i - 1
            BY <1>4, <1>6, <1>7, <2>11, <3>3 DEF Paging
        <3> QED BY <3>5, <3>6
    <2>12. ASSUME ~c.moved, ~c.grew, NEW i \in 1..(k + p)
           PROVE  got[i] \in Questions!Live /\ Cardinality(Ahead(Questions!Live, got[i])) = i - 1
        <3>1. S = Questions!Live
            BY <1>4, <1>6, <2>12 DEF Paging
        <3>2. CASE i \in 1..k
            BY <1>2, <1>4, <2>6, <2>12, <3>2 DEF Paging
        <3>3. CASE i \notin 1..k
            <4>1. i \in (k + 1)..(k + p)
                BY <1>5, <2>6, <3>3
            <4>2. got[i] = L[i] /\ i \in 1..n
                BY <2>8, <4>1
            <4> QED BY <1>7, <3>1, <4>2
        <3> QED BY <3>2, <3>3
    <2>13. ~c.moved => LiveBy(c.clock) = Questions!Live /\ n = Cardinality(Questions!Live)
        BY <1>4, <1>6 DEF Paging
    <2>14. Paging(e)
        BY <2>3, <2>6, <2>9, <2>11, <2>12, <2>13 DEF Paging, Questions!Steady
    <2>15. ListSound(e)
        BY <1>4, <2>3, <2>10, <2>14 DEF ListSound, Underway
    <2> QED BY <1>1, <1>3, <2>2, <2>3, <2>15, ListsGoOn
<1> QED BY <1>11, <1>12

LEMMA ListsInit ==
    ASSUME Questions!QueriesAssumption, Questions!Init
    PROVE  ListsInv
BY DEF Questions!Init, Questions!QueriesAssumption, ListsInv, ListSound

LEMMA ListsStep ==
    ASSUME Questions!QueriesAssumption, QueriesInv, ListsInv, [Questions!Next]_(Questions!queryVars)
    PROVE  ListsInv'
<1>1. CASE UNCHANGED Questions!queryVars
    <2>1. UNCHANGED <<tick, entries, ask>>
        BY <1>1 DEF Questions!queryVars
    <2>2. ListsSound /\ Env(FALSE, FALSE)
        BY <2>1, ListsAre, EnvStill
    <2>3. ASSUME NEW w \in Askers PROVE ListSound(ask[w])'
        <3>1. PICK c : c = ask[w]
            OBVIOUS
        <3>2. ListSound(c) /\ Witnessed(c) /\ ask'[w] = c
            BY <2>1, <2>2, <3>1 DEF ListsSound
        <3>3. ListSound(c)'
            BY <2>2, <3>2, ListKept
        <3> QED BY <3>2, <3>3 DEF ListSound, Underway, HasSeen, Ranking, Paging, ListTrue, RankTrue, FindTrue, PagesTrue
    <2> QED BY <2>3 DEF ListsInv
<1> QED BY <1>1, ListsOthers, ListsAsk, ListsHashes, SnapshotLists, DecodeLists, RankLists, OpenLists, FindLists,
           PageLists DEF Questions!Next

ListsPart == part = "queries" => QueriesInv /\ ListsInv

\* For any hashes, workers, scores, limits and TTL, and any interleaving: besides what a tool
\* says of one hash, a search over every entry passes over none that was there all along in
\* favour of a worse one (compression_store.py:966), and the pages of a listing tile it as
\* long as nothing is removed or refreshed between them (mcp_server.py:2924).
THEOREM AnswersAlwaysTrue == Spec => []AnswersTrue
<1>1. Init => ListsPart
    BY QueriesInit, ListsInit, SharingAssumption DEF Init, ListsPart
<1>2. ListsPart /\ [Next]_vars => ListsPart'
    <2> SUFFICES ASSUME ListsPart, [Next]_vars, part' = "queries" PROVE QueriesInv' /\ ListsInv'
        BY DEF ListsPart
    <2>1. CASE Next
        <3>1. QueriesInv /\ ListsInv /\ Questions!Next
            BY <2>1 DEF Next, ListsPart
        <3> QED BY <3>1, QueriesStep, ListsStep, SharingAssumption
    <2>2. CASE UNCHANGED vars
        <3>1. UNCHANGED part /\ UNCHANGED queryVars
            BY <2>2 DEF vars
        <3>2. QueriesInv /\ ListsInv /\ UNCHANGED Questions!queryVars
            BY <3>1 DEF ListsPart, queryVars, Questions!queryVars
        <3> QED BY <3>2, QueriesStep, ListsStep, SharingAssumption
    <2> QED BY <2>1, <2>2
<1>3. ListsPart => (part = "queries" => Questions!RankingComplete /\ Questions!PagesTile)
    <2> SUFFICES ASSUME ListsInv PROVE Questions!RankingComplete /\ Questions!PagesTile
        BY DEF ListsPart
    <2>1. ASSUME NEW w \in Askers, NEW tool \in ListTools, Questions!Answered(w, tool)
          PROVE  ListTrue(ask[w]) /\ ask[w].answer # "refused" /\ ask[w].tool = tool
        BY <2>1 DEF ListsInv, ListSound, Questions!Answered
    <2>2. Questions!RankingComplete
        <3>1. ASSUME NEW w \in Askers, Questions!Answered(w, "rank") PROVE RankTrue(ask[w])
            BY <2>1, <3>1 DEF ListTools, ListTrue
        <3> QED BY <3>1, QueriesFinite DEF Questions!RankingComplete, RankTrue
    <2>3. Questions!PagesTile
        <3>1. ASSUME NEW w \in Askers, Questions!Answered(w, "find") PROVE FindTrue(ask[w])
            BY <2>1, <3>1 DEF ListTools, ListTrue
        <3>2. ASSUME NEW w \in Askers, Questions!Answered(w, "list") PROVE PagesTrue(ask[w])
            BY <2>1, <3>2 DEF ListTools, ListTrue
        <3> QED BY <3>1, <3>2, QueriesFinite DEF Questions!PagesTile, FindTrue, PagesTrue
    <2> QED BY <2>2, <2>3
<1>4. Spec => []ListsPart
    BY <1>1, <1>2, PTL DEF Spec
<1>5. (part = "queries" => Questions!HashAnswersTrue /\ Questions!CountsShown)
      /\ (part = "queries" => Questions!RankingComplete /\ Questions!PagesTile) => AnswersTrue
    BY DEF AnswersTrue, Questions!AnswersTrue
<1> QED BY <1>3, <1>4, <1>5, HashAnswersAlwaysTrue, PTL

-----------------------------------------------------------------------------
(* RetrievalFeedback: the retrieval signals.                               *)

\* The instance counts as this module does.
LEMMA FeedbackCardinality ==
    /\ \A S : Feedback!Cardinality(S) = Cardinality(S)
    /\ \A S : Feedback!IsFiniteSet(S) <=> IsFiniteSet(S)
BY DEF Cardinality, Feedback!Cardinality, IsFiniteSet, Feedback!IsFiniteSet

LEMMA LeastOfTimes ==
    ASSUME NEW S \in SUBSET Nat, S # {}
    PROVE  Feedback!Min(S) \in S /\ \A y \in S : Feedback!Min(S) <= y
<1>1. PICK x \in S : \A y \in S : ~(<<y, x>> \in OpToRel(<, Nat))
    BY WFMin, NatLessThanWellFounded
<1>2. ASSUME NEW y \in S PROVE x <= y
    <2>1. y \in Nat /\ x \in Nat
        OBVIOUS
    <2>2. y < x => <<y, x>> \in OpToRel(<, Nat)
        BY <2>1 DEF OpToRel
    <2>3. ~(y < x)
        BY <1>1, <2>2
    <2> QED BY <2>1, <2>3
<1> QED BY <1>2 DEF Feedback!Min

\* q without its first k entries is d.
EndsIn(q, d, k) ==
    /\ k \in Nat /\ Len(q) = Len(d) + k
    /\ \A i \in 1..Len(d) : d[i] = q[i + k]

\* A set of places of q beyond the first k has as many places of d.
LEMMA PlacesShift ==
    ASSUME NEW q \in Seq(Nat), NEW d \in Seq(Nat), NEW k, EndsIn(q, d, k),
           NEW S \in SUBSET (1..Len(d)), NEW R \in SUBSET (1..Len(q)), \A i \in S : i + k \in R
    PROVE  /\ IsFiniteSet(S) /\ IsFiniteSet(R)
           /\ Cardinality(S) \in Nat /\ Cardinality(R) \in Nat /\ Cardinality(S) <= Cardinality(R)
<1>1. k \in Nat /\ Len(q) \in Nat /\ Len(d) \in Nat
    BY DEF EndsIn
<1>2. IsFiniteSet(R) /\ IsFiniteSet(S)
    <2>1. IsFiniteSet(1..Len(q)) /\ IsFiniteSet(1..Len(d))
        BY <1>1, FS_Interval
    <2> QED BY <2>1, FS_Subset
<1>3. PICK f : f = [i \in S |-> i + k]
    OBVIOUS
<1>4. f \in Injection(S, R)
    <2>1. f \in [S -> R]
        BY <1>3
    <2>2. \A i, j \in S : f[i] = f[j] => i = j
        BY <1>1, <1>3
    <2> QED BY <2>1, <2>2 DEF Injection, IsInjective
<1>5. Cardinality(S) <= Cardinality(R)
    BY <1>2, <1>4, FS_Injection
<1> QED BY <1>2, <1>5, FS_CardinalityType

\* The late entries of a deque: recorded behind a younger one.
Late(q, time) == {i \in 1..Len(q) : q[i] <= time /\ \E j \in 1..(i - 1) : q[j] > time}

Young(q, time) == \E i \in 1..Len(q) : q[i] > time

LEMMA LateCounted ==
    ASSUME NEW q \in Seq(Nat), NEW time \in Int
    PROVE  /\ IsFiniteSet(Late(q, time)) /\ Cardinality(Late(q, time)) \in Nat
           /\ ~Young(q, time) => Cardinality(Late(q, time)) = 0
<1>1. Len(q) \in Nat /\ Late(q, time) \subseteq 1..Len(q)
    BY DEF Late
<1>2. IsFiniteSet(Late(q, time))
    <2>1. IsFiniteSet(1..Len(q))
        BY <1>1, FS_Interval
    <2> QED BY <1>1, <2>1, FS_Subset
<1>3. ~Young(q, time) => Late(q, time) = {}
    BY <1>1 DEF Late, Young
<1> QED BY <1>2, <1>3, FS_CardinalityType, FS_EmptySet

\* Entries that go from the head take none of the others' place.
LEMMA LateShrinks ==
    ASSUME NEW q \in Seq(Nat), NEW d \in Seq(Nat), NEW k, EndsIn(q, d, k), NEW time \in Int
    PROVE  /\ Cardinality(Late(d, time)) <= Cardinality(Late(q, time))
           /\ Young(d, time) => Young(q, time)
<1>1. /\ k \in Nat /\ Len(q) \in Nat /\ Len(d) \in Nat /\ Len(q) = Len(d) + k
      /\ \A i \in 1..Len(d) : d[i] = q[i + k]
      /\ \A i \in 1..Len(q) : q[i] \in Nat
    BY DEF EndsIn
<1>2. ASSUME NEW i \in Late(d, time) PROVE i + k \in Late(q, time)
    <2>1. PICK j \in 1..(i - 1) : d[j] > time
        BY DEF Late
    <2>2. i \in 1..Len(d) /\ d[i] <= time
        BY DEF Late
    <2>3. i \in Int /\ j \in Int /\ 1 <= i /\ i <= Len(d) /\ 1 <= j /\ j <= i - 1
        BY <1>1, <2>1, <2>2
    <2>4. i + k \in 1..Len(q) /\ j + k \in 1..((i + k) - 1) /\ j \in 1..Len(d)
        BY <1>1, <2>3
    <2>5. d[i] = q[i + k] /\ d[j] = q[j + k]
        BY <1>1, <2>2, <2>4
    <2>6. q[i + k] <= time /\ q[j + k] > time
        BY <2>1, <2>2, <2>5
    <2> QED BY <2>4, <2>6 DEF Late
<1>3. Cardinality(Late(d, time)) <= Cardinality(Late(q, time))
    <2>1. Late(d, time) \subseteq 1..Len(d) /\ Late(q, time) \subseteq 1..Len(q)
        BY DEF Late
    <2> QED BY <1>2, <2>1, PlacesShift
<1>4. ASSUME Young(d, time) PROVE Young(q, time)
    <2>1. PICK i \in 1..Len(d) : d[i] > time
        BY <1>4 DEF Young
    <2>2. i + k \in 1..Len(q)
        BY <1>1
    <2>3. q[i + k] > time
        BY <1>1, <2>1
    <2> QED BY <2>2, <2>3 DEF Young
<1> QED BY <1>3, <1>4

\* An entry appended is late only if it is no younger than the time.
LEMMA LateAppends ==
    ASSUME NEW q \in Seq(Nat), NEW e \in Nat, NEW time \in Int
    PROVE  /\ Append(q, e) \in Seq(Nat)
           /\ Cardinality(Late(Append(q, e), time)) <= Cardinality(Late(q, time)) + 1
           /\ e > time => Cardinality(Late(Append(q, e), time)) <= Cardinality(Late(q, time))
           /\ ~Young(q, time) => Cardinality(Late(Append(q, e), time)) = 0
           /\ e <= time /\ Young(Append(q, e), time) => Young(q, time)
<1>. DEFINE a == Append(q, e)
<1>1. /\ a \in Seq(Nat) /\ Len(a) = Len(q) + 1 /\ Len(q) \in Nat
      /\ \A i \in 1..Len(q) : a[i] = q[i]
      /\ a[Len(q) + 1] = e
      /\ \A i \in 1..Len(q) : q[i] \in Nat
    OBVIOUS
<1>. HIDE DEF a
<1>0. ASSUME NEW i \in Late(a, time)
      PROVE  /\ Young(q, time)
             /\ i \in Late(q, time) \/ (i = Len(q) + 1 /\ e <= time)
    <2>1. i \in 1..(Len(q) + 1) /\ a[i] <= time
        BY <1>1 DEF Late
    <2>2. PICK j \in 1..(i - 1) : a[j] > time
        BY DEF Late
    <2>3. i \in Int /\ j \in Int /\ 1 <= j /\ j <= i - 1 /\ i <= Len(q) + 1
        BY <1>1, <2>1, <2>2
    <2>4. j \in 1..Len(q)
        BY <1>1, <2>3
    <2>5. q[j] > time
        BY <1>1, <2>2, <2>4
    <2>6. Young(q, time)
        BY <2>4, <2>5 DEF Young
    <2>7. CASE i = Len(q) + 1
        BY <1>1, <2>1, <2>6, <2>7
    <2>8. CASE i # Len(q) + 1
        <3>1. i \in 1..Len(q)
            BY <1>1, <2>3, <2>8
        <3>2. q[i] <= time
            BY <1>1, <2>1, <3>1
        <3> QED BY <2>2, <2>5, <2>6, <3>1, <3>2 DEF Late
    <2> QED BY <2>7, <2>8
<1>2. Late(a, time) \subseteq Late(q, time) \cup {Len(q) + 1}
    BY <1>0
<1>3. e > time => Late(a, time) \subseteq Late(q, time)
    BY <1>0
<1>4. ~Young(q, time) => Late(a, time) = {}
    BY <1>0
<1>5. ASSUME e <= time, Young(a, time) PROVE Young(q, time)
    <2>1. PICK i \in 1..(Len(q) + 1) : a[i] > time
        BY <1>1, <1>5 DEF Young
    <2>2. i # Len(q) + 1
        BY <1>1, <1>5, <2>1
    <2>3. i \in 1..Len(q)
        BY <1>1, <2>2
    <2>4. q[i] > time
        BY <1>1, <2>1, <2>3
    <2> QED BY <2>3, <2>4 DEF Young
<1>6. IsFiniteSet(Late(q, time)) /\ Cardinality(Late(q, time)) \in Nat
    BY LateCounted
<1>7. /\ IsFiniteSet(Late(q, time) \cup {Len(q) + 1})
      /\ Cardinality(Late(q, time) \cup {Len(q) + 1}) <= Cardinality(Late(q, time)) + 1
    <2>1. /\ IsFiniteSet(Late(q, time) \cup {Len(q) + 1})
          /\ \/ Cardinality(Late(q, time) \cup {Len(q) + 1}) = Cardinality(Late(q, time))
             \/ Cardinality(Late(q, time) \cup {Len(q) + 1}) = Cardinality(Late(q, time)) + 1
        BY <1>6, FS_AddElement
    <2> QED BY <1>6, <2>1
<1>8. Cardinality(Late(a, time)) <= Cardinality(Late(q, time)) + 1
    <2>1. /\ Cardinality(Late(a, time)) <= Cardinality(Late(q, time) \cup {Len(q) + 1})
          /\ IsFiniteSet(Late(a, time))
        BY <1>2, <1>7, FS_Subset
    <2>2. Cardinality(Late(a, time)) \in Nat /\ Cardinality(Late(q, time) \cup {Len(q) + 1}) \in Nat
        BY <2>1, <1>7, FS_CardinalityType
    <2> QED BY <1>6, <1>7, <2>1, <2>2
<1>9. e > time => Cardinality(Late(a, time)) <= Cardinality(Late(q, time))
    BY <1>3, <1>6, FS_Subset
<1>10. ~Young(q, time) => Cardinality(Late(a, time)) = 0
    BY <1>4, FS_EmptySet
<1> QED BY <1>1, <1>5, <1>8, <1>9, <1>10 DEF a

\* A bounded deque is the deque without its oldest entries.
LEMMA BoundedEnds ==
    ASSUME NEW q \in Seq(Nat), Feedback!FeedbackAssumption
    PROVE  /\ Feedback!Bounded(q) \in Seq(Nat)
           /\ \E k : EndsIn(q, Feedback!Bounded(q), k)
           /\ Len(Feedback!Bounded(q)) = IF Len(q) > MaxPer THEN Len(q) - 1 ELSE Len(q)
<1>1. Len(q) \in Nat /\ MaxPer \in Nat
    BY DEF Feedback!FeedbackAssumption
<1>2. CASE Len(q) > MaxPer
    <2>1. /\ Feedback!Bounded(q) = Tail(q) /\ q # <<>> /\ Tail(q) \in Seq(Nat)
          /\ Len(Tail(q)) = Len(q) - 1 /\ \A i \in 1..(Len(q) - 1) : Tail(q)[i] = q[i + 1]
        BY <1>1, <1>2 DEF Feedback!Bounded
    <2>2. EndsIn(q, Tail(q), 1)
        BY <1>1, <2>1 DEF EndsIn
    <2> QED BY <1>2, <2>1, <2>2
<1>3. CASE ~(Len(q) > MaxPer)
    <2>1. Feedback!Bounded(q) = q
        BY <1>3 DEF Feedback!Bounded
    <2>2. EndsIn(q, q, 0)
        BY <1>1 DEF EndsIn
    <2> QED BY <1>3, <2>1, <2>2
<1> QED BY <1>2, <1>3

\* What decay leaves: aged entries are gone from the head, and a head that stays is young.
LEMMA DecayedEnds ==
    ASSUME Feedback!FeedbackAssumption, NEW s \in Shapes, events[s] \in Seq(Nat), NEW time \in Nat
    PROVE  /\ Feedback!Decayed(s, time) \in Seq(Nat)
           /\ \E k : /\ EndsIn(events[s], Feedback!Decayed(s, time), k)
                     /\ \A j \in 1..k : events[s][j] + WindowTime <= time
           /\ Feedback!Decayed(s, time) # <<>> => Feedback!Decayed(s, time)[1] + WindowTime > time
<1>. DEFINE q == events[s]
            young == {i \in DOMAIN q : ~Feedback!Aged(q[i], time)}
<1>1. /\ Len(q) \in Nat /\ DOMAIN q = 1..Len(q) /\ WindowTime \in Nat /\ q \in Seq(Nat)
      /\ \A i \in 1..Len(q) : q[i] \in Nat
    BY DEF Feedback!FeedbackAssumption
<1>2. CASE young = {}
    <2>1. Feedback!Decayed(s, time) = <<>>
        BY <1>2 DEF Feedback!Decayed
    <2>2. EndsIn(q, <<>>, Len(q)) /\ \A j \in 1..Len(q) : q[j] + WindowTime <= time
        BY <1>1, <1>2 DEF EndsIn, Feedback!Aged
    <2> QED BY <2>1, <2>2
<1>3. CASE young # {}
    <2>1. young \in SUBSET Nat
        BY <1>1
    <2>2. PICK m : m = Feedback!Min(young)
        OBVIOUS
    <2>3. m \in young /\ \A y \in young : m <= y
        BY <1>3, <2>1, <2>2, LeastOfTimes
    <2>4. m \in 1..Len(q) /\ q[m] + WindowTime > time
        BY <1>1, <2>3 DEF Feedback!Aged
    <2>5. ASSUME NEW j \in 1..(m - 1) PROVE q[j] + WindowTime <= time
        <3>1. j \in 1..Len(q) /\ j \in Int /\ m \in Int /\ ~(m <= j)
            BY <1>1, <2>4
        <3>2. j \notin young
            BY <2>3, <3>1
        <3> QED BY <1>1, <3>1, <3>2 DEF Feedback!Aged
    <2>6. Feedback!Decayed(s, time) = SubSeq(q, m, Len(q))
        BY <1>3, <2>2 DEF Feedback!Decayed
    <2>7. PICK d : d = SubSeq(q, m, Len(q))
        OBVIOUS
    <2>8. /\ d \in Seq(Nat) /\ Len(d) = (Len(q) - m) + 1
          /\ \A i \in 1..((Len(q) - m) + 1) : d[i] = q[(m + i) - 1]
        BY <1>1, <2>4, <2>7
    <2>9. EndsIn(q, d, m - 1)
        BY <1>1, <2>4, <2>8 DEF EndsIn
    <2>10. d[1] = q[m]
        <3>1. m \in Int /\ 1 \in 1..((Len(q) - m) + 1)
            BY <1>1, <2>4
        <3>2. d[1] = q[(m + 1) - 1] /\ (m + 1) - 1 = m
            BY <2>8, <3>1
        <3> QED BY <3>2
    <2> QED BY <2>4, <2>5, <2>6, <2>7, <2>8, <2>9, <2>10
<1> QED BY <1>2, <1>3

\* The late entries that an answer about a shape counts.
LateOver(ev, s, time) == Feedback!OverBuckets(s, [r \in Shapes |-> Cardinality(Late(ev[r], time))])

YoungOver(ev, s, time) == Young(ev[s], time) \/ Young(ev[Anonymous], time)

\* Behind a younger entry, every late one and every late recorder yet to come is another
\* caller than the one that recorded the younger.
Outrun(ev, s, time, late) ==
    YoungOver(ev, s, time) => LateOver(ev, s, time) + Cardinality(late) <= Cardinality(Threads) - 1

LEMMA LateOverIs ==
    ASSUME Feedback!FeedbackAssumption, NEW ev \in [Shapes -> Seq(Nat)], NEW s \in Shapes, NEW time \in Int
    PROVE  /\ Cardinality(Late(ev[s], time)) \in Nat /\ Cardinality(Late(ev[Anonymous], time)) \in Nat
           /\ s = Anonymous => LateOver(ev, s, time) = Cardinality(Late(ev[s], time))
           /\ s # Anonymous => LateOver(ev, s, time) = Cardinality(Late(ev[s], time))
                                                       + Cardinality(Late(ev[Anonymous], time))
           /\ LateOver(ev, s, time) \in Nat
<1>1. Anonymous \in Shapes
    BY DEF Feedback!FeedbackAssumption
<1>2. /\ Cardinality(Late(ev[s], time)) \in Nat /\ Cardinality(Late(ev[Anonymous], time)) \in Nat
    BY <1>1, LateCounted
<1>3. /\ s = Anonymous => LateOver(ev, s, time) = Cardinality(Late(ev[s], time))
      /\ s # Anonymous => LateOver(ev, s, time) = Cardinality(Late(ev[s], time))
                                                  + Cardinality(Late(ev[Anonymous], time))
    BY <1>1 DEF LateOver, Feedback!OverBuckets
<1> QED BY <1>2, <1>3

\* Entries that go and recorders that are done outrun nobody.
LEMMA OutrunShrinks ==
    ASSUME Feedback!FeedbackAssumption,
           NEW ev \in [Shapes -> Seq(Nat)], NEW to \in [Shapes -> Seq(Nat)],
           \A r \in Shapes : \E k : EndsIn(ev[r], to[r], k),
           NEW s \in Shapes, NEW time \in Int, NEW late \in SUBSET Threads, NEW fewer \in SUBSET late,
           Outrun(ev, s, time, late)
    PROVE  Outrun(to, s, time, fewer)
<1>1. Anonymous \in Shapes /\ IsFiniteSet(Threads)
    BY FeedbackCardinality DEF Feedback!FeedbackAssumption
<1>2. ASSUME NEW r \in Shapes
      PROVE  /\ Cardinality(Late(to[r], time)) <= Cardinality(Late(ev[r], time))
             /\ Young(to[r], time) => Young(ev[r], time)
    <2>1. PICK k : EndsIn(ev[r], to[r], k)
        OBVIOUS
    <2> QED BY <2>1, LateShrinks
<1>3. /\ Cardinality(fewer) <= Cardinality(late)
      /\ Cardinality(fewer) \in Nat /\ Cardinality(late) \in Nat /\ Cardinality(Threads) \in Nat
    <2>1. IsFiniteSet(late)
        BY <1>1, FS_Subset
    <2>2. IsFiniteSet(fewer) /\ Cardinality(fewer) <= Cardinality(late)
        BY <2>1, FS_Subset
    <2> QED BY <1>1, <2>1, <2>2, FS_CardinalityType
<1>4. LateOver(to, s, time) <= LateOver(ev, s, time) /\ LateOver(to, s, time) \in Nat /\ LateOver(ev, s, time) \in Nat
    <2>1. /\ Cardinality(Late(to[s], time)) <= Cardinality(Late(ev[s], time))
          /\ Cardinality(Late(to[Anonymous], time)) <= Cardinality(Late(ev[Anonymous], time))
        BY <1>1, <1>2
    <2>2. /\ Cardinality(Late(ev[s], time)) \in Nat /\ Cardinality(Late(ev[Anonymous], time)) \in Nat
          /\ s = Anonymous => LateOver(ev, s, time) = Cardinality(Late(ev[s], time))
          /\ s # Anonymous => LateOver(ev, s, time) = Cardinality(Late(ev[s], time))
                                                      + Cardinality(Late(ev[Anonymous], time))
          /\ LateOver(ev, s, time) \in Nat
        BY LateOverIs
    <2>3. /\ Cardinality(Late(to[s], time)) \in Nat /\ Cardinality(Late(to[Anonymous], time)) \in Nat
          /\ s = Anonymous => LateOver(to, s, time) = Cardinality(Late(to[s], time))
          /\ s # Anonymous => LateOver(to, s, time) = Cardinality(Late(to[s], time))
                                                      + Cardinality(Late(to[Anonymous], time))
          /\ LateOver(to, s, time) \in Nat
        BY LateOverIs
    <2> QED BY <2>1, <2>2, <2>3
<1>5. YoungOver(to, s, time) => YoungOver(ev, s, time)
    BY <1>1, <1>2 DEF YoungOver
<1> QED BY <1>3, <1>4, <1>5 DEF Outrun

\* A recorder's entry takes its own place among the late ones.
LEMMA OutrunAppends ==
    ASSUME Feedback!FeedbackAssumption,
           NEW ev \in [Shapes -> Seq(Nat)], NEW r \in Shapes, NEW e \in Nat,
           NEW s \in Shapes, NEW time \in Int, NEW late \in SUBSET Threads, NEW t \in Threads,
           t \in late <=> e <= time,
           Outrun(ev, s, time, late)
    PROVE  Outrun([ev EXCEPT ![r] = Append(@, e)], s, time, late \ {t})
<1>. DEFINE to == [ev EXCEPT ![r] = Append(@, e)]
<1>1. /\ Anonymous \in Shapes /\ IsFiniteSet(Threads)
    BY FeedbackCardinality DEF Feedback!FeedbackAssumption
<1>2. /\ to \in [Shapes -> Seq(Nat)] /\ to[r] = Append(ev[r], e)
      /\ \A q \in Shapes : q # r => to[q] = ev[q]
    OBVIOUS
<1>. HIDE DEF to
<1>3. /\ Cardinality(late) \in Nat /\ Cardinality(late \ {t}) \in Nat /\ Cardinality(Threads) \in Nat
      /\ t \in late => Cardinality(late \ {t}) = Cardinality(late) - 1
      /\ t \notin late => late \ {t} = late
      /\ Cardinality(late \ {t}) <= Cardinality(Threads) - 1
    <2>1. IsFiniteSet(late)
        BY <1>1, FS_Subset
    <2>2. IsFiniteSet(late \ {t}) /\ (t \in late => Cardinality(late \ {t}) = Cardinality(late) - 1)
        BY <2>1, FS_RemoveElement
    <2>3. /\ IsFiniteSet(Threads \ {t}) /\ Cardinality(Threads \ {t}) = Cardinality(Threads) - 1
        BY <1>1, FS_RemoveElement
    <2>4. Cardinality(late \ {t}) <= Cardinality(Threads \ {t})
        <3>1. late \ {t} \subseteq Threads \ {t}
            OBVIOUS
        <3> QED BY <2>3, <3>1, FS_Subset
    <2>5. /\ Cardinality(late) \in Nat /\ Cardinality(late \ {t}) \in Nat /\ Cardinality(Threads) \in Nat
        BY <1>1, <2>1, <2>2, FS_CardinalityType
    <2> QED BY <2>2, <2>3, <2>4, <2>5
<1>4. /\ Cardinality(Late(to[r], time)) <= Cardinality(Late(ev[r], time)) + 1
      /\ e > time => Cardinality(Late(to[r], time)) <= Cardinality(Late(ev[r], time))
      /\ ~Young(ev[r], time) => Cardinality(Late(to[r], time)) = 0
      /\ e <= time /\ Young(to[r], time) => Young(ev[r], time)
    BY <1>2, LateAppends
<1>5. /\ LateOver(to, s, time) <= LateOver(ev, s, time) + 1
      /\ e > time => LateOver(to, s, time) <= LateOver(ev, s, time)
      /\ LateOver(to, s, time) \in Nat /\ LateOver(ev, s, time) \in Nat
    <2>1. /\ Cardinality(Late(ev[s], time)) \in Nat /\ Cardinality(Late(ev[Anonymous], time)) \in Nat
          /\ s = Anonymous => LateOver(ev, s, time) = Cardinality(Late(ev[s], time))
          /\ s # Anonymous => LateOver(ev, s, time) = Cardinality(Late(ev[s], time))
                                                      + Cardinality(Late(ev[Anonymous], time))
          /\ LateOver(ev, s, time) \in Nat
        BY LateOverIs
    <2>2. /\ Cardinality(Late(to[s], time)) \in Nat /\ Cardinality(Late(to[Anonymous], time)) \in Nat
          /\ s = Anonymous => LateOver(to, s, time) = Cardinality(Late(to[s], time))
          /\ s # Anonymous => LateOver(to, s, time) = Cardinality(Late(to[s], time))
                                                      + Cardinality(Late(to[Anonymous], time))
          /\ LateOver(to, s, time) \in Nat
        BY <1>2, LateOverIs
    <2>3. CASE r = s
        <3>1. s # Anonymous => to[Anonymous] = ev[Anonymous]
            BY <1>1, <1>2, <2>3
        <3> QED BY <1>4, <2>1, <2>2, <2>3, <3>1
    <2>4. CASE r # s /\ r = Anonymous
        <3>1. to[s] = ev[s] /\ s # Anonymous
            BY <1>2, <2>4
        <3> QED BY <1>4, <2>1, <2>2, <2>4, <3>1
    <2>5. CASE r # s /\ r # Anonymous
        <3>1. to[s] = ev[s] /\ to[Anonymous] = ev[Anonymous]
            BY <1>1, <1>2, <2>5
        <3> QED BY <2>1, <2>2, <3>1
    <2> QED BY <2>3, <2>4, <2>5
<1>6. ASSUME ~YoungOver(ev, s, time), YoungOver(to, s, time)
      PROVE  LateOver(to, s, time) = 0 /\ e > time
    <2>1. ~Young(ev[s], time) /\ ~Young(ev[Anonymous], time) /\ (r = s \/ r = Anonymous)
        BY <1>1, <1>2, <1>6 DEF YoungOver
    <2>2. /\ Cardinality(Late(ev[s], time)) = 0 /\ Cardinality(Late(ev[Anonymous], time)) = 0
        BY <1>1, <2>1, LateCounted
    <2>3. Cardinality(Late(to[s], time)) = 0 /\ Cardinality(Late(to[Anonymous], time)) = 0
        BY <1>1, <1>2, <1>4, <2>1, <2>2
    <2>4. LateOver(to, s, time) = 0
        <3>1. /\ s = Anonymous => LateOver(to, s, time) = Cardinality(Late(to[s], time))
              /\ s # Anonymous => LateOver(to, s, time) = Cardinality(Late(to[s], time))
                                                          + Cardinality(Late(to[Anonymous], time))
            BY <1>2, LateOverIs
        <3> QED BY <2>3, <3>1
    <2>5. Young(to[r], time) /\ ~Young(ev[r], time)
        <3>1. CASE Young(to[s], time)
            BY <1>2, <2>1, <3>1
        <3>2. CASE Young(to[Anonymous], time)
            BY <1>1, <1>2, <2>1, <3>2
        <3> QED BY <1>6, <3>1, <3>2 DEF YoungOver
    <2>6. e > time
        BY <1>4, <2>5
    <2> QED BY <2>4, <2>6
<1>7. ASSUME YoungOver(to, s, time)
      PROVE  LateOver(to, s, time) + Cardinality(late \ {t}) <= Cardinality(Threads) - 1
    <2>1. CASE ~YoungOver(ev, s, time)
        <3>1. LateOver(to, s, time) = 0
            BY <1>6, <1>7, <2>1
        <3> QED BY <1>3, <3>1
    <2>2. CASE YoungOver(ev, s, time)
        <3>1. LateOver(ev, s, time) + Cardinality(late) <= Cardinality(Threads) - 1
            BY <2>2 DEF Outrun
        <3>2. CASE t \in late
            BY <1>3, <1>5, <3>1, <3>2
        <3>3. CASE t \notin late
            <4>1. e > time /\ late \ {t} = late
                BY <1>3, <3>3
            <4>2. LateOver(to, s, time) <= LateOver(ev, s, time) /\ Cardinality(late \ {t}) = Cardinality(late)
                BY <1>5, <4>1
            <4> QED BY <1>3, <1>5, <3>1, <4>2
        <3> QED BY <3>2, <3>3
    <2> QED BY <2>1, <2>2
<1>8. Outrun(to, s, time, late \ {t})
    BY <1>7 DEF Outrun
<1> QED BY <1>8 DEF to

\* A deque is the history without aged entries at the head.
Retained(q, d, time) == \E k : EndsIn(q, d, k) /\ \A j \in 1..k : q[j] + WindowTime <= time

LEMMA RetainedLater ==
    ASSUME Feedback!FeedbackAssumption, NEW q \in Seq(Nat), NEW d \in Seq(Nat),
           NEW time \in Nat, NEW later \in Nat, time <= later, Retained(q, d, time)
    PROVE  Retained(q, d, later)
<1>1. PICK k : EndsIn(q, d, k) /\ \A j \in 1..k : q[j] + WindowTime <= time
    BY DEF Retained
<1>2. /\ k \in Nat /\ Len(q) \in Nat /\ Len(d) \in Nat /\ Len(q) = Len(d) + k /\ WindowTime \in Nat
      /\ \A j \in 1..Len(q) : q[j] \in Nat
    BY <1>1 DEF EndsIn, Feedback!FeedbackAssumption
<1>3. ASSUME NEW j \in 1..k PROVE q[j] + WindowTime <= later
    <2>1. j \in 1..Len(q)
        BY <1>2
    <2> QED BY <1>1, <1>2, <2>1
<1> QED BY <1>1, <1>3 DEF Retained

LEMMA RetainedDecays ==
    ASSUME NEW q \in Seq(Nat), NEW d \in Seq(Nat), NEW c \in Seq(Nat), NEW time \in Nat,
           Retained(q, d, time), Retained(d, c, time)
    PROVE  Retained(q, c, time)
<1>1. PICK k : EndsIn(q, d, k) /\ \A j \in 1..k : q[j] + WindowTime <= time
    BY DEF Retained
<1>2. PICK m : EndsIn(d, c, m) /\ \A j \in 1..m : d[j] + WindowTime <= time
    BY DEF Retained
<1>3. /\ k \in Nat /\ m \in Nat /\ Len(q) \in Nat /\ Len(d) \in Nat /\ Len(c) \in Nat
      /\ Len(q) = Len(d) + k /\ Len(d) = Len(c) + m
      /\ \A i \in 1..Len(d) : d[i] = q[i + k]
      /\ \A i \in 1..Len(c) : c[i] = d[i + m]
    BY <1>1, <1>2 DEF EndsIn
<1>4. EndsIn(q, c, k + m)
    <2>1. ASSUME NEW i \in 1..Len(c) PROVE c[i] = q[i + (k + m)]
        <3>1. i + m \in 1..Len(d) /\ (i + m) + k = i + (k + m)
            BY <1>3
        <3> QED BY <1>3, <3>1
    <2> QED BY <1>3, <2>1 DEF EndsIn
<1>5. ASSUME NEW j \in 1..(k + m) PROVE q[j] + WindowTime <= time
    <2>1. CASE j \in 1..k
        BY <1>1, <2>1
    <2>2. CASE j \notin 1..k
        <3>1. j - k \in 1..m /\ j - k \in 1..Len(d) /\ (j - k) + k = j
            BY <1>3, <2>2
        <3>2. d[j - k] = q[j]
            BY <1>3, <3>1
        <3> QED BY <1>2, <3>1, <3>2
    <2> QED BY <2>1, <2>2
<1> QED BY <1>4, <1>5 DEF Retained

\* A retrieval enters the deque and the history alike, and pushes out of both alike.
LEMMA RetainedRecords ==
    ASSUME Feedback!FeedbackAssumption, NEW q \in Seq(Nat), NEW d \in Seq(Nat), NEW time \in Nat,
           NEW e \in Nat, Retained(q, d, time), Len(q) <= MaxPer
    PROVE  Retained(Feedback!Bounded(Append(q, e)), Feedback!Bounded(Append(d, e)), time)
<1>1. PICK k : EndsIn(q, d, k) /\ \A j \in 1..k : q[j] + WindowTime <= time
    BY DEF Retained
<1>. DEFINE a == Append(q, e)
            b == Append(d, e)
<1>2. /\ k \in Nat /\ Len(q) \in Nat /\ Len(d) \in Nat /\ Len(q) = Len(d) + k /\ MaxPer \in Nat
      /\ \A i \in 1..Len(d) : d[i] = q[i + k]
    BY <1>1 DEF EndsIn, Feedback!FeedbackAssumption
<1>3. /\ a \in Seq(Nat) /\ Len(a) = Len(q) + 1 /\ b \in Seq(Nat) /\ Len(b) = Len(d) + 1
      /\ a[Len(q) + 1] = e /\ b[Len(d) + 1] = e
      /\ \A i \in 1..Len(q) : a[i] = q[i]
      /\ \A i \in 1..Len(d) : b[i] = d[i]
    OBVIOUS
<1>. HIDE DEF a, b
<1>4. ASSUME NEW i \in 1..Len(b) PROVE b[i] = a[i + k]
    <2>1. CASE i = Len(d) + 1
        <3>1. i + k = Len(q) + 1
            BY <1>2, <2>1
        <3> QED BY <1>3, <2>1, <3>1
    <2>2. CASE i # Len(d) + 1
        <3>1. i \in 1..Len(d) /\ i + k \in 1..Len(q)
            BY <1>2, <1>3, <2>2
        <3> QED BY <1>2, <1>3, <3>1
    <2> QED BY <2>1, <2>2
<1>5. ASSUME NEW j \in 1..k PROVE a[j] + WindowTime <= time
    <2>1. j \in 1..Len(q)
        BY <1>2
    <2> QED BY <1>1, <1>3, <2>1
<1>6. ASSUME ~(Len(a) > MaxPer) PROVE Retained(Feedback!Bounded(a), Feedback!Bounded(b), time)
    <2>1. ~(Len(b) > MaxPer)
        BY <1>2, <1>3, <1>6
    <2>2. Feedback!Bounded(a) = a /\ Feedback!Bounded(b) = b
        BY <1>6, <2>1 DEF Feedback!Bounded
    <2>3. EndsIn(a, b, k)
        BY <1>2, <1>3, <1>4 DEF EndsIn
    <2> QED BY <1>5, <2>2, <2>3 DEF Retained
<1>7. ASSUME Len(a) > MaxPer PROVE Retained(Feedback!Bounded(a), Feedback!Bounded(b), time)
    <2>1. /\ Feedback!Bounded(a) = Tail(a) /\ a # <<>> /\ Len(Tail(a)) = Len(a) - 1
          /\ \A i \in 1..(Len(a) - 1) : Tail(a)[i] = a[i + 1]
        BY <1>2, <1>3, <1>7 DEF Feedback!Bounded
    <2>2. CASE k = 0
        <3>1. /\ Feedback!Bounded(b) = Tail(b) /\ b # <<>> /\ Len(Tail(b)) = Len(b) - 1
              /\ \A i \in 1..(Len(b) - 1) : Tail(b)[i] = b[i + 1]
            <4>1. Len(b) > MaxPer
                BY <1>2, <1>3, <1>7, <2>2
            <4> QED BY <1>2, <1>3, <4>1 DEF Feedback!Bounded
        <3>2. ASSUME NEW i \in 1..Len(Tail(b)) PROVE Tail(b)[i] = Tail(a)[i + 0]
            <4>1. i + 1 \in 1..Len(b) /\ i \in 1..(Len(b) - 1) /\ i \in 1..(Len(a) - 1) /\ i + 0 = i /\ (i + 1) + k = i + 1
                BY <1>2, <1>3, <2>2, <3>1
            <4> QED BY <1>4, <2>1, <3>1, <4>1
        <3>3. EndsIn(Tail(a), Tail(b), 0)
            BY <1>2, <1>3, <2>1, <2>2, <3>1, <3>2 DEF EndsIn
        <3>4. \A j \in 1..0 : Tail(a)[j] + WindowTime <= time
            OBVIOUS
        <3> QED BY <2>1, <3>1, <3>3, <3>4 DEF Retained
    <2>3. CASE k # 0
        <3>1. ~(Len(b) > MaxPer)
            BY <1>2, <1>3, <2>3
        <3>2. Feedback!Bounded(b) = b
            BY <3>1 DEF Feedback!Bounded
        <3>3. ASSUME NEW i \in 1..Len(b) PROVE b[i] = Tail(a)[i + (k - 1)]
            <4>1. i + (k - 1) \in 1..(Len(a) - 1) /\ (i + (k - 1)) + 1 = i + k
                BY <1>2, <1>3, <2>3
            <4> QED BY <1>4, <2>1, <4>1
        <3>4. EndsIn(Tail(a), b, k - 1)
            <4>1. k - 1 \in Nat /\ Len(Tail(a)) = Len(b) + (k - 1)
                BY <1>2, <1>3, <2>1, <2>3
            <4> QED BY <3>3, <4>1 DEF EndsIn
        <3>5. ASSUME NEW j \in 1..(k - 1) PROVE Tail(a)[j] + WindowTime <= time
            <4>1. j \in 1..(Len(a) - 1) /\ j + 1 \in 1..k
                BY <1>2, <1>3
            <4> QED BY <1>5, <2>1, <4>1
        <3> QED BY <2>1, <3>2, <3>4, <3>5 DEF Retained
    <2> QED BY <2>2, <2>3
<1> QED BY <1>6, <1>7 DEF a, b

TimesBy(q, time) == \A i \in 1..Len(q) : q[i] <= time

LEMMA TimesRecorded ==
    ASSUME Feedback!FeedbackAssumption, NEW q \in Seq(Nat), NEW time \in Nat, NEW e \in Nat,
           TimesBy(q, time), e <= time, Len(q) <= MaxPer
    PROVE  /\ Feedback!Bounded(Append(q, e)) \in Seq(Nat)
           /\ TimesBy(Feedback!Bounded(Append(q, e)), time)
           /\ Len(Feedback!Bounded(Append(q, e))) <= MaxPer
<1>. DEFINE a == Append(q, e)
<1>1. /\ a \in Seq(Nat) /\ Len(a) = Len(q) + 1 /\ a[Len(q) + 1] = e /\ Len(q) \in Nat
      /\ \A i \in 1..Len(q) : a[i] = q[i]
    OBVIOUS
<1>2. MaxPer \in Nat
    BY DEF Feedback!FeedbackAssumption
<1>. HIDE DEF a
<1>3. TimesBy(a, time)
    <2>1. ASSUME NEW i \in 1..Len(a) PROVE a[i] <= time
        <3>1. CASE i = Len(q) + 1
            BY <1>1, <3>1
        <3>2. CASE i # Len(q) + 1
            <4>1. i \in 1..Len(q)
                BY <1>1, <3>2
            <4> QED BY <1>1, <4>1 DEF TimesBy
        <3> QED BY <3>1, <3>2
    <2> QED BY <2>1 DEF TimesBy
<1>4. PICK k : EndsIn(a, Feedback!Bounded(a), k)
    BY <1>1, BoundedEnds
<1>5. Feedback!Bounded(a) \in Seq(Nat) /\ Len(Feedback!Bounded(a)) = IF Len(a) > MaxPer THEN Len(a) - 1 ELSE Len(a)
    BY <1>1, BoundedEnds
<1>6. PICK c : c = Feedback!Bounded(a)
    OBVIOUS
<1>7. TimesBy(c, time)
    <2>1. ASSUME NEW i \in 1..Len(c) PROVE c[i] <= time
        <3>1. /\ k \in Nat /\ Len(a) = Len(c) + k /\ c[i] = a[i + k] /\ Len(c) \in Nat
            <4>1. EndsIn(a, c, k) /\ c \in Seq(Nat)
                BY <1>4, <1>5, <1>6
            <4> QED BY <4>1 DEF EndsIn
        <3>2. i + k \in 1..Len(a)
            BY <3>1
        <3> QED BY <1>3, <3>1, <3>2 DEF TimesBy
    <2> QED BY <2>1 DEF TimesBy
<1>8. Len(c) <= MaxPer
    BY <1>1, <1>2, <1>5, <1>6
<1> QED BY <1>5, <1>6, <1>7, <1>8 DEF a

\* The callers about to record or ask with a time no younger than the given one.
Pending(time) == {t \in Threads : read[t] # None /\ read[t].time <= time}

\* One shape's history and deque.
ShapeSound(s) ==
    /\ TimesBy(recent[s], clockNow)
    /\ Len(recent[s]) <= MaxPer
    /\ Retained(recent[s], events[s], clockNow)

ReadSound(r) == r = None \/ (r.shape \in Shapes /\ r.time \in Nat /\ r.time <= clockNow)

FeedbackInv ==
    /\ clockNow \in Nat
    /\ events \in [Shapes -> Seq(Nat)] /\ recent \in [Shapes -> Seq(Nat)]
    /\ DOMAIN read = Threads /\ \A t \in Threads : ReadSound(read[t])
    /\ \A s \in Shapes : ShapeSound(s)
    /\ \A s \in Shapes, time \in Int : Outrun(events, s, time, Pending(time))

LEMMA EndsItself ==
    ASSUME NEW q \in Seq(Nat)
    PROVE  /\ EndsIn(q, q, 0) /\ EndsIn(q, <<>>, Len(q))
           /\ \A time : Retained(q, q, time)
<1>1. EndsIn(q, q, 0) /\ EndsIn(q, <<>>, Len(q))
    BY DEF EndsIn
<1>2. ASSUME NEW time PROVE Retained(q, q, time)
    <2>1. \A j \in 1..0 : q[j] + WindowTime <= time
        OBVIOUS
    <2> QED BY <1>1, <2>1 DEF Retained
<1> QED BY <1>1, <1>2

LEMMA FeedbackInit ==
    ASSUME Feedback!FeedbackAssumption, Feedback!Init, read = [t \in Threads |-> None]
    PROVE  FeedbackInv
<1>1. clockNow = 0 /\ events = [s \in Shapes |-> <<>>] /\ recent = [s \in Shapes |-> <<>>]
    BY DEF Feedback!Init
<1>2. /\ events \in [Shapes -> Seq(Nat)] /\ recent \in [Shapes -> Seq(Nat)] /\ <<>> \in Seq(Nat) /\ Len(<<>>) = 0
      /\ \A s \in Shapes : events[s] = <<>> /\ recent[s] = <<>>
    BY <1>1
<1>3. DOMAIN read = Threads /\ \A t \in Threads : ReadSound(read[t])
    BY DEF ReadSound
<1>4. \A s \in Shapes : ShapeSound(s)
    <2>1. Retained(<<>>, <<>>, 0) /\ TimesBy(<<>>, 0)
        BY <1>2, EndsItself DEF TimesBy
    <2> QED BY <1>1, <1>2, <2>1 DEF ShapeSound, Feedback!FeedbackAssumption
<1>5. ASSUME NEW s \in Shapes, NEW time \in Int PROVE Outrun(events, s, time, Pending(time))
    <2>1. ~YoungOver(events, s, time)
        BY <1>2 DEF YoungOver, Young, Feedback!FeedbackAssumption
    <2> QED BY <2>1 DEF Outrun
<1> QED BY <1>1, <1>2, <1>3, <1>4, <1>5 DEF FeedbackInv

\* No entry is younger than the clock.
LEMMA NoneYounger ==
    ASSUME Feedback!FeedbackAssumption, FeedbackInv, NEW s \in Shapes, NEW time \in Int, clockNow <= time
    PROVE  ~YoungOver(events, s, time)
<1>1. ASSUME NEW r \in Shapes PROVE ~Young(events[r], time)
    <2>1. PICK q, d : q = recent[r] /\ d = events[r]
        OBVIOUS
    <2>2. q \in Seq(Nat) /\ d \in Seq(Nat) /\ TimesBy(q, clockNow) /\ Retained(q, d, clockNow) /\ clockNow \in Nat
        BY <2>1 DEF FeedbackInv, ShapeSound
    <2>3. PICK k : EndsIn(q, d, k)
        BY <2>2 DEF Retained
    <2>4. /\ k \in Nat /\ Len(q) \in Nat /\ Len(d) \in Nat /\ Len(q) = Len(d) + k
          /\ \A i \in 1..Len(d) : d[i] = q[i + k]
          /\ \A i \in 1..Len(q) : q[i] \in Nat
        BY <2>2, <2>3 DEF EndsIn
    <2>5. ASSUME NEW i \in 1..Len(d) PROVE ~(d[i] > time)
        <3>1. i + k \in 1..Len(q)
            BY <2>4
        <3>2. d[i] = q[i + k] /\ q[i + k] <= clockNow /\ q[i + k] \in Nat
            BY <2>2, <2>4, <3>1 DEF TimesBy
        <3> QED BY <2>2, <3>2
    <2> QED BY <2>1, <2>5 DEF Young
<1> QED BY <1>1 DEF YoungOver, Feedback!FeedbackAssumption

LEMMA ReadClockStep ==
    ASSUME Feedback!FeedbackAssumption, FeedbackInv,
           NEW t \in Threads, NEW records, NEW s \in Shapes, Feedback!ReadClock(t, records, s)
    PROVE  FeedbackInv'
<1>1. /\ read' = [read EXCEPT ![t] = [records |-> records, shape |-> s, time |-> clockNow]]
      /\ clockNow' = clockNow /\ events' = events /\ recent' = recent
    BY DEF Feedback!ReadClock
<1>2. /\ DOMAIN read' = Threads /\ read'[t].shape = s /\ read'[t].time = clockNow
      /\ \A x \in Threads : x # t => read'[x] = read[x]
    BY <1>1 DEF FeedbackInv
<1>3. \A x \in Threads : ReadSound(read[x])'
    BY <1>1, <1>2 DEF FeedbackInv, ReadSound
<1>4. \A r \in Shapes : ShapeSound(r)'
    BY <1>1 DEF FeedbackInv, ShapeSound, Retained, TimesBy, EndsIn
<1>5. ASSUME NEW r \in Shapes, NEW time \in Int PROVE Outrun(events, r, time, Pending(time)')
    <2>1. CASE clockNow <= time
        BY <2>1, NoneYounger DEF Outrun
    <2>2. CASE ~(clockNow <= time)
        <3>1. Pending(time)' \subseteq Pending(time)
            BY <1>2, <2>2 DEF Pending
        <3>2. Outrun(events, r, time, Pending(time)) /\ Pending(time) \subseteq Threads /\ events \in [Shapes -> Seq(Nat)]
            BY DEF FeedbackInv, Pending
        <3>3. \A x \in Shapes : \E k : EndsIn(events[x], events[x], k)
            BY <3>2, EndsItself
        <3> QED BY <3>1, <3>2, <3>3, OutrunShrinks
    <2> QED BY <2>1, <2>2
<1>6. \A r \in Shapes, time \in Int : Outrun(events', r, time, Pending(time)')
    BY <1>1, <1>5
<1> QED BY <1>1, <1>2, <1>3, <1>4, <1>6 DEF FeedbackInv, Outrun, YoungOver, Young, LateOver, Late, Feedback!OverBuckets

\* Deques that lose entries at the head, aged ones unless the history loses them too.
LEMMA ShrinkStep ==
    ASSUME Feedback!FeedbackAssumption, FeedbackInv,
           events' \in [Shapes -> Seq(Nat)], recent' \in [Shapes -> Seq(Nat)],
           clockNow' \in Nat, clockNow <= clockNow',
           \A s \in Shapes : /\ \E k : EndsIn(events[s], events'[s], k)
                             /\ \/ recent'[s] = recent[s] /\ Retained(events[s], events'[s], clockNow')
                                \/ recent'[s] = <<>> /\ events'[s] = <<>>,
           DOMAIN read' = Threads, \A t \in Threads : read'[t] = read[t] \/ read'[t] = None
    PROVE  FeedbackInv'
<1>1. \A t \in Threads : ReadSound(read[t])'
    BY DEF FeedbackInv, ReadSound
<1>2. ASSUME NEW s \in Shapes PROVE ShapeSound(s)'
    <2>1. PICK q, d, c, time : q = recent[s] /\ d = events[s] /\ c = events'[s] /\ time = clockNow'
        OBVIOUS
    <2>2. /\ q \in Seq(Nat) /\ d \in Seq(Nat) /\ c \in Seq(Nat) /\ time \in Nat /\ clockNow \in Nat
          /\ TimesBy(q, clockNow) /\ Len(q) <= MaxPer /\ Retained(q, d, clockNow) /\ MaxPer \in Nat
        BY <2>1 DEF FeedbackInv, ShapeSound, Feedback!FeedbackAssumption
    <2>3. CASE recent'[s] = recent[s] /\ Retained(events[s], events'[s], clockNow')
        <3>1. Retained(q, d, time)
            BY <2>1, <2>2, RetainedLater
        <3>2. Retained(q, c, time)
            BY <2>1, <2>2, <2>3, <3>1, RetainedDecays
        <3>3. TimesBy(q, time)
            <4>1. \A i \in 1..Len(q) : q[i] \in Nat
                BY <2>2
            <4> QED BY <2>1, <2>2, <4>1 DEF TimesBy
        <3>4. recent'[s] = q /\ events'[s] = c /\ clockNow' = time
            BY <2>1, <2>3
        <3> QED BY <2>2, <3>2, <3>3, <3>4 DEF ShapeSound, Retained, TimesBy, EndsIn
    <2>4. CASE recent'[s] = <<>> /\ events'[s] = <<>>
        <3>1. Retained(<<>>, <<>>, clockNow') /\ TimesBy(<<>>, clockNow') /\ Len(<<>>) = 0
            <4>1. <<>> \in Seq(Nat) /\ Len(<<>>) = 0
                OBVIOUS
            <4>2. Retained(<<>>, <<>>, clockNow')
                BY <4>1, EndsItself
            <4> QED BY <4>1, <4>2 DEF TimesBy
        <3> QED BY <2>2, <2>4, <3>1 DEF ShapeSound, Retained, TimesBy, EndsIn
    <2> QED BY <2>3, <2>4
<1>3. ASSUME NEW s \in Shapes, NEW time \in Int PROVE Outrun(events', s, time, Pending(time)')
    <2>1. PICK to : to = events'
        OBVIOUS
    <2>2. PICK fewer : fewer = Pending(time)'
        OBVIOUS
    <2>3. fewer \subseteq Pending(time) /\ Pending(time) \subseteq Threads
        BY <2>2 DEF Pending
    <2>4. Outrun(events, s, time, Pending(time)) /\ events \in [Shapes -> Seq(Nat)]
        BY DEF FeedbackInv
    <2>5. to \in [Shapes -> Seq(Nat)] /\ \A r \in Shapes : \E k : EndsIn(events[r], to[r], k)
        BY <2>1
    <2>6. Outrun(to, s, time, fewer)
        BY <2>3, <2>4, <2>5, OutrunShrinks
    <2> QED BY <2>1, <2>2, <2>6
<1> QED BY <1>1, <1>2, <1>3 DEF FeedbackInv, Outrun, YoungOver, Young, LateOver, Late, Feedback!OverBuckets

LEMMA RecordStep ==
    ASSUME Feedback!FeedbackAssumption, FeedbackInv, NEW t \in Threads, Feedback!RecordRetrieval(t)
    PROVE  FeedbackInv'
<1>1. PICK s, e : s = read[t].shape /\ e = read[t].time
    OBVIOUS
<1>2. /\ read[t] # None /\ read' = [read EXCEPT ![t] = None] /\ clockNow' = clockNow
      /\ s \in Shapes /\ e \in Nat /\ e <= clockNow /\ clockNow \in Nat
      /\ events \in [Shapes -> Seq(Nat)] /\ recent \in [Shapes -> Seq(Nat)]
      /\ DOMAIN read = Threads /\ MaxPer \in Nat
    BY <1>1 DEF Feedback!RecordRetrieval, FeedbackInv, ReadSound, Feedback!FeedbackAssumption
<1>3. PICK gone :
         /\ events' = [Feedback!Forget(events, gone) EXCEPT ![s] = Feedback!Bounded(Append(@, e))]
         /\ recent' = [Feedback!Forget(recent, gone) EXCEPT ![s] = Feedback!Bounded(Append(@, e))]
    BY <1>1 DEF Feedback!RecordRetrieval
<1>4. PICK mid, past : mid = Feedback!Forget(events, gone) /\ past = Feedback!Forget(recent, gone)
    OBVIOUS
<1>5. /\ mid \in [Shapes -> Seq(Nat)] /\ past \in [Shapes -> Seq(Nat)]
      /\ \A r \in Shapes : \/ mid[r] = events[r] /\ past[r] = recent[r]
                           \/ mid[r] = <<>> /\ past[r] = <<>>
    BY <1>2, <1>4 DEF Feedback!Forget
<1>6. ASSUME NEW r \in Shapes
      PROVE  /\ \E k : EndsIn(events[r], mid[r], k)
             /\ TimesBy(past[r], clockNow) /\ Len(past[r]) <= MaxPer /\ Retained(past[r], mid[r], clockNow)
    <2>1. ShapeSound(r) /\ events[r] \in Seq(Nat)
        BY <1>2 DEF FeedbackInv
    <2>2. <<>> \in Seq(Nat) /\ Len(<<>>) = 0
        OBVIOUS
    <2>3. EndsIn(events[r], events[r], 0) /\ EndsIn(events[r], <<>>, Len(events[r])) /\ Retained(<<>>, <<>>, clockNow)
        BY <2>1, <2>2, EndsItself
    <2>4. TimesBy(<<>>, clockNow)
        BY <2>2 DEF TimesBy
    <2>5. CASE mid[r] = events[r] /\ past[r] = recent[r]
        BY <2>1, <2>3, <2>5 DEF ShapeSound
    <2>6. CASE mid[r] = <<>> /\ past[r] = <<>>
        BY <1>2, <2>2, <2>3, <2>4, <2>6
    <2> QED BY <1>5, <2>5, <2>6
<1>7. /\ mid[s] \in Seq(Nat) /\ past[s] \in Seq(Nat)
      /\ events' = [mid EXCEPT ![s] = Feedback!Bounded(Append(@, e))]
      /\ recent' = [past EXCEPT ![s] = Feedback!Bounded(Append(@, e))]
    BY <1>2, <1>3, <1>4, <1>5
<1>8. /\ Feedback!Bounded(Append(past[s], e)) \in Seq(Nat)
      /\ TimesBy(Feedback!Bounded(Append(past[s], e)), clockNow)
      /\ Len(Feedback!Bounded(Append(past[s], e))) <= MaxPer
    BY <1>2, <1>6, <1>7, TimesRecorded
<1>9. Retained(Feedback!Bounded(Append(past[s], e)), Feedback!Bounded(Append(mid[s], e)), clockNow)
    BY <1>2, <1>6, <1>7, RetainedRecords
<1>10. /\ Append(mid[s], e) \in Seq(Nat) /\ Feedback!Bounded(Append(mid[s], e)) \in Seq(Nat)
       /\ \E k : EndsIn(Append(mid[s], e), Feedback!Bounded(Append(mid[s], e)), k)
    <2>1. Append(mid[s], e) \in Seq(Nat)
        BY <1>2, <1>7
    <2> QED BY <2>1, BoundedEnds
<1>11. PICK to, was : to = events' /\ was = recent'
    OBVIOUS
<1>12. /\ to \in [Shapes -> Seq(Nat)] /\ was \in [Shapes -> Seq(Nat)]
       /\ to[s] = Feedback!Bounded(Append(mid[s], e)) /\ was[s] = Feedback!Bounded(Append(past[s], e))
       /\ \A r \in Shapes : r # s => to[r] = mid[r] /\ was[r] = past[r]
    BY <1>2, <1>5, <1>7, <1>8, <1>10, <1>11
<1>13. ASSUME NEW r \in Shapes
       PROVE  TimesBy(was[r], clockNow) /\ Len(was[r]) <= MaxPer /\ Retained(was[r], to[r], clockNow)
    BY <1>6, <1>8, <1>9, <1>12
<1>14. ASSUME NEW r \in Shapes PROVE ShapeSound(r)'
    <2>1. recent'[r] = was[r] /\ events'[r] = to[r]
        BY <1>11
    <2> QED BY <1>2, <1>13, <2>1 DEF ShapeSound, Retained, TimesBy, EndsIn
<1>15. /\ DOMAIN read' = Threads /\ read'[t] = None
       /\ \A x \in Threads : x # t => read'[x] = read[x]
    BY <1>2
<1>16. \A x \in Threads : ReadSound(read[x])'
    BY <1>2, <1>15 DEF FeedbackInv, ReadSound
<1>17. ASSUME NEW r \in Shapes, NEW time \in Int PROVE Outrun(to, r, time, Pending(time)')
    <2>1. PICK late : late = Pending(time)
        OBVIOUS
    <2>2. Pending(time)' = late \ {t} /\ late \subseteq Threads /\ (t \in late <=> e <= time)
        BY <1>1, <1>2, <1>15, <2>1 DEF Pending
    <2>3. Outrun(events, r, time, late)
        BY <2>1 DEF FeedbackInv
    <2>4. Outrun(mid, r, time, late)
        BY <1>2, <1>5, <1>6, <2>2, <2>3, OutrunShrinks
    <2>5. PICK app : app = [mid EXCEPT ![s] = Append(@, e)]
        OBVIOUS
    <2>6. Outrun(app, r, time, late \ {t})
        BY <1>2, <1>5, <2>2, <2>4, <2>5, OutrunAppends
    <2>7. app \in [Shapes -> Seq(Nat)] /\ app[s] = Append(mid[s], e) /\ \A x \in Shapes : x # s => app[x] = mid[x]
        BY <1>2, <1>5, <1>10, <2>5
    <2>8. ASSUME NEW x \in Shapes PROVE \E k : EndsIn(app[x], to[x], k)
        <3>1. CASE x = s
            BY <1>10, <1>12, <2>7, <3>1
        <3>2. CASE x # s
            <4>1. app[x] = mid[x] /\ to[x] = mid[x] /\ mid[x] \in Seq(Nat)
                BY <1>5, <1>12, <2>7, <3>2
            <4> QED BY <4>1, EndsItself
        <3> QED BY <3>1, <3>2
    <2>9. Outrun(to, r, time, late \ {t})
        <3>1. late \ {t} \in SUBSET Threads /\ late \ {t} \subseteq late \ {t}
            BY <2>2
        <3> QED BY <1>12, <2>6, <2>7, <2>8, <3>1, OutrunShrinks
    <2> QED BY <2>2, <2>9
<1>18. \A r \in Shapes, time \in Int : Outrun(events', r, time, Pending(time)')
    BY <1>11, <1>17
<1> QED BY <1>2, <1>11, <1>12, <1>14, <1>15, <1>16, <1>18
        DEF FeedbackInv, Outrun, YoungOver, Young, LateOver, Late, Feedback!OverBuckets

\* What an asker's pruning leaves of each shape.
LEMMA PrunedEnds ==
    ASSUME Feedback!FeedbackAssumption, FeedbackInv, NEW time \in Nat, time <= clockNow,
           NEW s \in Shapes, NEW r \in Shapes
    PROVE  LET pruned == IF r \in Feedback!Buckets(s) THEN Feedback!Decayed(r, time) ELSE events[r] IN
           /\ pruned \in Seq(Nat)
           /\ \E k : EndsIn(events[r], pruned, k)
           /\ Retained(events[r], pruned, clockNow)
<1>1. events[r] \in Seq(Nat) /\ clockNow \in Nat
    BY DEF FeedbackInv
<1>2. CASE r \in Feedback!Buckets(s)
    <2>1. /\ Feedback!Decayed(r, time) \in Seq(Nat)
          /\ \E k : /\ EndsIn(events[r], Feedback!Decayed(r, time), k)
                    /\ \A j \in 1..k : events[r][j] + WindowTime <= time
        BY <1>1, DecayedEnds
    <2>2. Retained(events[r], Feedback!Decayed(r, time), time)
        BY <2>1 DEF Retained
    <2>3. Retained(events[r], Feedback!Decayed(r, time), clockNow)
        BY <1>1, <2>1, <2>2, RetainedLater
    <2> QED BY <1>2, <2>1, <2>3
<1>3. CASE r \notin Feedback!Buckets(s)
    BY <1>1, <1>3, EndsItself
<1> QED BY <1>2, <1>3

LEMMA GetHintsStep ==
    ASSUME Feedback!FeedbackAssumption, FeedbackInv, NEW t \in Threads, Feedback!GetHints(t)
    PROVE  FeedbackInv'
<1>1. PICK s, time : s = read[t].shape /\ time = read[t].time
    OBVIOUS
<1>2. /\ s \in Shapes /\ time \in Nat /\ time <= clockNow /\ DOMAIN read = Threads
      /\ events \in [Shapes -> Seq(Nat)] /\ recent \in [Shapes -> Seq(Nat)] /\ clockNow \in Nat
      /\ recent' = recent /\ clockNow' = clockNow /\ read' = [read EXCEPT ![t] = None]
    BY <1>1 DEF Feedback!GetHints, FeedbackInv, ReadSound
<1>3. events' = [r \in Shapes |-> IF r \in Feedback!Buckets(s) THEN Feedback!Decayed(r, time) ELSE events[r]]
    BY <1>1 DEF Feedback!GetHints
<1>4. \A r \in Shapes : /\ events'[r] \in Seq(Nat)
                        /\ \E k : EndsIn(events[r], events'[r], k)
                        /\ Retained(events[r], events'[r], clockNow)
    BY <1>2, <1>3, PrunedEnds
<1>5. events' \in [Shapes -> Seq(Nat)]
    BY <1>3, <1>4
<1>6. DOMAIN read' = Threads /\ \A x \in Threads : read'[x] = read[x] \/ read'[x] = None
    BY <1>2
<1> QED BY <1>2, <1>4, <1>5, <1>6, ShrinkStep

LEMMA ClearStep ==
    ASSUME Feedback!FeedbackAssumption, FeedbackInv, Feedback!Clear
    PROVE  FeedbackInv'
<1>1. /\ events' = [s \in Shapes |-> <<>>] /\ recent' = [s \in Shapes |-> <<>>]
      /\ clockNow' = clockNow /\ read' = read
    BY DEF Feedback!Clear
<1>2. events' \in [Shapes -> Seq(Nat)] /\ recent' \in [Shapes -> Seq(Nat)]
    BY <1>1
<1>3. \A s \in Shapes : /\ events'[s] = <<>> /\ recent'[s] = <<>>
                        /\ EndsIn(events[s], <<>>, Len(events[s]))
    BY <1>1, EndsItself DEF FeedbackInv
<1>4. clockNow' \in Nat /\ clockNow <= clockNow'
    BY <1>1 DEF FeedbackInv
<1>5. DOMAIN read' = Threads /\ \A x \in Threads : read'[x] = read[x]
    BY <1>1 DEF FeedbackInv
<1>6. \A s \in Shapes : \E k : EndsIn(events[s], events'[s], k)
    BY <1>3
<1> QED BY <1>2, <1>3, <1>4, <1>5, <1>6, ShrinkStep

\* The clock's tick, or a step of others.
LEMMA ClockStep ==
    ASSUME Feedback!FeedbackAssumption, FeedbackInv,
           clockNow' \in {clockNow, clockNow + 1}, UNCHANGED <<events, read, recent>>
    PROVE  FeedbackInv'
<1>1. /\ clockNow' \in Nat /\ clockNow <= clockNow'
      /\ events' \in [Shapes -> Seq(Nat)] /\ recent' \in [Shapes -> Seq(Nat)]
      /\ DOMAIN read' = Threads /\ \A x \in Threads : read'[x] = read[x]
    BY DEF FeedbackInv
<1>2. ASSUME NEW s \in Shapes
      PROVE  /\ \E k : EndsIn(events[s], events'[s], k)
             /\ recent'[s] = recent[s] /\ Retained(events[s], events'[s], clockNow')
    <2>1. PICK q, time : q = events[s] /\ time = clockNow'
        OBVIOUS
    <2>2. q \in Seq(Nat) /\ events'[s] = q /\ recent'[s] = recent[s]
        BY <2>1 DEF FeedbackInv
    <2>3. EndsIn(q, q, 0) /\ Retained(q, q, time)
        BY <2>2, EndsItself
    <2> QED BY <2>1, <2>2, <2>3
<1> QED BY <1>1, <1>2, ShrinkStep

LEMMA FeedbackStep ==
    ASSUME Feedback!FeedbackAssumption, FeedbackInv, [Feedback!Next]_(Feedback!feedbackVars)
    PROVE  FeedbackInv'
<1>1. CASE UNCHANGED Feedback!feedbackVars
    BY <1>1, ClockStep DEF Feedback!feedbackVars
<1>2. CASE Feedback!Tick
    BY <1>2, ClockStep DEF Feedback!Tick
<1> QED BY <1>1, <1>2, ReadClockStep, RecordStep, GetHintsStep, ClearStep DEF Feedback!Next

LEMMA Places ==
    ASSUME NEW n \in Nat
    PROVE  IsFiniteSet(1..n) /\ Cardinality(1..n) = n
<1>1. 1 \in Int /\ n \in Int
    OBVIOUS
<1>2. /\ IsFiniteSet(1..n)
      /\ Cardinality(1..n) = IF 1 > n THEN 0 ELSE n - 1 + 1
    BY <1>1, FS_Interval
<1> QED BY <1>2

\* As many places of the history are in the window as the deque has entries, or fewer.
LEMMA PlacesBack ==
    ASSUME NEW q \in Seq(Nat), NEW d \in Seq(Nat), NEW k, EndsIn(q, d, k),
           NEW S \in SUBSET (1..Len(q)), \A i \in S : i > k
    PROVE  Cardinality(S) \in Nat /\ Cardinality(S) <= Len(d)
<1>1. k \in Nat /\ Len(q) \in Nat /\ Len(d) \in Nat /\ Len(q) = Len(d) + k
    BY DEF EndsIn
<1>2. IsFiniteSet(S) /\ IsFiniteSet(1..Len(d)) /\ Cardinality(1..Len(d)) = Len(d)
    <2>1. IsFiniteSet(1..Len(q))
        BY <1>1, FS_Interval
    <2>2. IsFiniteSet(S)
        BY <2>1, FS_Subset
    <2> QED BY <1>1, <2>2, Places
<1>3. PICK f : f = [i \in S |-> i - k]
    OBVIOUS
<1>4. f \in Injection(S, 1..Len(d))
    <2>1. f \in [S -> 1..Len(d)]
        BY <1>1, <1>3
    <2>2. \A i, j \in S : f[i] = f[j] => i = j
        BY <1>1, <1>3
    <2> QED BY <2>1, <2>2 DEF Injection, IsInjective
<1>5. Cardinality(S) <= Cardinality(1..Len(d))
    BY <1>2, <1>4, FS_Injection
<1> QED BY <1>2, <1>5, FS_CardinalityType

\* What an answer counts of one shape.
LEMMA ShapeCounted ==
    ASSUME Feedback!FeedbackAssumption, FeedbackInv, NEW r \in Shapes, NEW time \in Nat, time <= clockNow
    PROVE  /\ Len(Feedback!Decayed(r, time)) \in Nat
           /\ Feedback!InWindow(r, clockNow) \in Nat /\ Feedback!InWindow(r, time) \in Nat
           /\ Cardinality(Late(events[r], time - WindowTime)) \in Nat
           /\ Feedback!InWindow(r, clockNow) <= Len(Feedback!Decayed(r, time))
           /\ Len(Feedback!Decayed(r, time))
                 <= Feedback!InWindow(r, time) + Cardinality(Late(events[r], time - WindowTime))
           /\ ~Young(events[r], time - WindowTime) => Len(Feedback!Decayed(r, time)) = 0
<1>1. PICK q, e, d, from : q = recent[r] /\ e = events[r] /\ d = Feedback!Decayed(r, time) /\ from = time - WindowTime
    OBVIOUS
<1>2. /\ q \in Seq(Nat) /\ e \in Seq(Nat) /\ clockNow \in Nat /\ Retained(q, e, clockNow)
      /\ WindowTime \in Nat /\ from \in Int
    BY <1>1 DEF FeedbackInv, ShapeSound, Feedback!FeedbackAssumption
<1>3. /\ d \in Seq(Nat)
      /\ \E k : EndsIn(e, d, k) /\ \A j \in 1..k : e[j] + WindowTime <= time
      /\ d # <<>> => d[1] + WindowTime > time
    BY <1>1, <1>2, DecayedEnds
<1>4. Retained(e, d, clockNow)
    <2>1. Retained(e, d, time)
        BY <1>3 DEF Retained
    <2> QED BY <1>2, <1>3, <2>1, RetainedLater
<1>5. PICK k : EndsIn(q, d, k) /\ \A j \in 1..k : q[j] + WindowTime <= clockNow
    <2>1. Retained(q, d, clockNow)
        BY <1>2, <1>3, <1>4, RetainedDecays
    <2> QED BY <2>1 DEF Retained
<1>6. /\ k \in Nat /\ Len(q) \in Nat /\ Len(d) \in Nat /\ Len(q) = Len(d) + k /\ DOMAIN q = 1..Len(q)
      /\ \A i \in 1..Len(d) : d[i] = q[i + k]
      /\ \A i \in 1..Len(d) : d[i] \in Nat
    <2>1. d \in Seq(Nat) /\ EndsIn(q, d, k)
        BY <1>3, <1>5
    <2> QED BY <1>2, <2>1 DEF EndsIn
<1>7. Feedback!InWindow(r, clockNow) \in Nat /\ Feedback!InWindow(r, clockNow) <= Len(d)
    <2>1. PICK S : S = {i \in DOMAIN q : ~Feedback!Aged(q[i], clockNow)}
        OBVIOUS
    <2>2. Feedback!InWindow(r, clockNow) = Cardinality(S)
        BY <1>1, <2>1, FeedbackCardinality DEF Feedback!InWindow
    <2>3. \A i \in S : i > k
        <3>1. ASSUME NEW i \in S, ~(i > k) PROVE FALSE
            <4>1. i \in 1..k
                BY <1>6, <2>1, <3>1
            <4> QED BY <1>5, <2>1, <4>1 DEF Feedback!Aged
        <3> QED BY <3>1
    <2>4. S \subseteq 1..Len(q)
        BY <1>6, <2>1
    <2> QED BY <1>2, <1>3, <1>5, <2>2, <2>3, <2>4, PlacesBack
<1>. DEFINE young == {i \in 1..Len(d) : d[i] + WindowTime > time}
            window == {i \in DOMAIN q : ~Feedback!Aged(q[i], time)}
<1>8. /\ Cardinality(young) \in Nat /\ Cardinality(young) <= Feedback!InWindow(r, time)
      /\ Feedback!InWindow(r, time) \in Nat /\ IsFiniteSet(young)
    <2>1. Feedback!InWindow(r, time) = Cardinality(window)
        BY <1>1, FeedbackCardinality DEF Feedback!InWindow
    <2>2. ASSUME NEW i \in young PROVE i + k \in window
        <3>1. i \in 1..Len(d) /\ d[i] = q[i + k] /\ i + k \in 1..Len(q) /\ d[i] + WindowTime > time /\ d[i] \in Nat
            BY <1>6
        <3>2. ~(d[i] + WindowTime <= time)
            BY <1>2, <3>1
        <3> QED BY <1>6, <3>1, <3>2 DEF Feedback!Aged
    <2>3. young \subseteq 1..Len(d) /\ window \subseteq 1..Len(q)
        BY <1>6
    <2>. HIDE DEF young, window
    <2>4. PICK a, b : a = young /\ b = window
        OBVIOUS
    <2>5. a \subseteq 1..Len(d) /\ b \subseteq 1..Len(q) /\ \A i \in a : i + k \in b
        BY <2>2, <2>3, <2>4
    <2>6. IsFiniteSet(a) /\ Cardinality(a) \in Nat /\ Cardinality(b) \in Nat /\ Cardinality(a) <= Cardinality(b)
        BY <1>2, <1>3, <1>5, <2>5, PlacesShift
    <2> QED BY <2>1, <2>4, <2>6
<1>9. /\ IsFiniteSet(Late(d, from)) /\ Cardinality(Late(d, from)) \in Nat
      /\ Cardinality(Late(e, from)) \in Nat
      /\ Cardinality(Late(d, from)) <= Cardinality(Late(e, from))
    <2>1. PICK m : EndsIn(e, d, m)
        BY <1>3
    <2> QED BY <1>2, <1>3, <2>1, LateCounted, LateShrinks
<1>10. ASSUME NEW i \in 1..Len(d) PROVE i \in young \cup Late(d, from)
    <2>1. CASE d[i] + WindowTime > time
        BY <2>1
    <2>2. CASE ~(d[i] + WindowTime > time)
        <3>1. d # <<>> /\ 1 \in 1..Len(d) /\ d[1] \in Nat /\ d[i] \in Nat
            BY <1>6
        <3>2. d[1] + WindowTime > time
            BY <1>3, <3>1
        <3>3. d[1] > from /\ d[i] <= from
            BY <1>1, <1>2, <2>2, <3>1, <3>2
        <3>4. i # 1
            BY <2>2, <3>2
        <3>5. 1 \in 1..(i - 1)
            BY <1>6, <3>4
        <3> QED BY <3>3, <3>5 DEF Late
    <2> QED BY <2>1, <2>2
<1>11. Len(d) <= Feedback!InWindow(r, time) + Cardinality(Late(e, from))
    <2>. HIDE DEF young
    <2>1. PICK a, b : a = young /\ b = Late(d, from)
        OBVIOUS
    <2>2. /\ IsFiniteSet(a) /\ IsFiniteSet(b) /\ Cardinality(a) \in Nat /\ Cardinality(b) \in Nat
          /\ Cardinality(a) <= Feedback!InWindow(r, time) /\ Cardinality(b) <= Cardinality(Late(e, from))
        BY <1>8, <1>9, <2>1
    <2>3. IsFiniteSet(a \cup b) /\ Cardinality(a \cup b) = Cardinality(a) + Cardinality(b) - Cardinality(a \cap b)
        BY <2>2, FS_Union
    <2>4. Cardinality(a \cap b) \in Nat
        <3>1. IsFiniteSet(a \cap b)
            BY <2>2, FS_Intersection
        <3> QED BY <3>1, FS_CardinalityType
    <2>5. Cardinality(1..Len(d)) = Len(d)
        BY <1>6, Places
    <2>6. 1..Len(d) \subseteq a \cup b
        BY <1>10, <2>1
    <2>7. Cardinality(1..Len(d)) <= Cardinality(a \cup b)
        BY <2>3, <2>6, FS_Subset
    <2> QED BY <1>6, <1>8, <1>9, <2>2, <2>3, <2>4, <2>5, <2>7
<1>12. ASSUME ~Young(e, from) PROVE Len(d) = 0
    <2>1. CASE d = <<>>
        BY <2>1
    <2>2. CASE d # <<>>
        <3>1. PICK m : EndsIn(e, d, m)
            BY <1>3
        <3>2. 1 \in 1..Len(d) /\ d[1] \in Nat
            BY <1>3, <1>6, <2>2
        <3>3. d[1] > from
            BY <1>1, <1>2, <1>3, <2>2, <3>2
        <3>4. Young(d, from)
            BY <3>2, <3>3 DEF Young
        <3> QED BY <1>2, <1>3, <1>12, <3>1, <3>4, LateShrinks
    <2> QED BY <2>1, <2>2
<1> QED BY <1>1, <1>6, <1>7, <1>8, <1>9, <1>11, <1>12

LEMMA HintsHonest ==
    ASSUME Feedback!FeedbackAssumption, FeedbackInv, NEW t \in Threads
    PROVE  Feedback!HintsAreHonest(t)
<1>. SUFFICES ASSUME Feedback!GetHints(t) PROVE Feedback!HintsAreHonest(t)
    BY DEF Feedback!HintsAreHonest
<1>1. PICK s, time : s = read[t].shape /\ time = read[t].time
    OBVIOUS
<1>2. /\ s \in Shapes /\ time \in Nat /\ time <= clockNow /\ Anonymous \in Shapes /\ clockNow \in Nat
      /\ events \in [Shapes -> Seq(Nat)] /\ WindowTime \in Nat /\ IsFiniteSet(Threads) /\ t \in Threads
    BY <1>1, FeedbackCardinality DEF Feedback!GetHints, FeedbackInv, ReadSound, Feedback!FeedbackAssumption
<1>3. PICK from, S, A : from = time - WindowTime /\ S = Len(Feedback!Decayed(s, time)) /\ A = Len(Feedback!Decayed(Anonymous, time))
    OBVIOUS
<1>4. /\ hints'.shape = s /\ hints'.time = time
      /\ s = Anonymous => hints'.count = S
      /\ s # Anonymous => hints'.count = S + A
    <2>1. PICK pruned : pruned = [r \in Shapes |-> IF r \in Feedback!Buckets(s) THEN Feedback!Decayed(r, time) ELSE events[r]]
        OBVIOUS
    <2>2. pruned[s] = Feedback!Decayed(s, time) /\ pruned[Anonymous] = Feedback!Decayed(Anonymous, time)
        BY <1>2, <2>1 DEF Feedback!Buckets
    <2>3. /\ hints'.shape = s /\ hints'.time = time
          /\ hints'.count = Feedback!OverBuckets(s, [r \in Shapes |-> Len(pruned[r])])
        BY <1>1, <2>1 DEF Feedback!GetHints
    <2> QED BY <1>2, <1>3, <2>2, <2>3 DEF Feedback!OverBuckets
<1>5. PICK now1, then1, now2, then2, late1, late2 :
         /\ now1 = Feedback!InWindow(s, clockNow) /\ then1 = Feedback!InWindow(s, time)
         /\ now2 = Feedback!InWindow(Anonymous, clockNow) /\ then2 = Feedback!InWindow(Anonymous, time)
         /\ late1 = Cardinality(Late(events[s], from)) /\ late2 = Cardinality(Late(events[Anonymous], from))
    OBVIOUS
<1>6. /\ S \in Nat /\ now1 \in Nat /\ then1 \in Nat /\ late1 \in Nat
      /\ now1 <= S /\ S <= then1 + late1 /\ (~Young(events[s], from) => S = 0)
    BY <1>2, <1>3, <1>5, ShapeCounted
<1>7. /\ A \in Nat /\ now2 \in Nat /\ then2 \in Nat /\ late2 \in Nat
      /\ now2 <= A /\ A <= then2 + late2 /\ (~Young(events[Anonymous], from) => A = 0)
    BY <1>2, <1>3, <1>5, ShapeCounted
<1>8. /\ Cardinality(Threads) \in Nat /\ Cardinality(Threads) >= 1
    <2>1. Cardinality(Threads) \in Nat /\ Cardinality(Threads) # 0
        BY <1>2, FS_CardinalityType, FS_EmptySet
    <2> QED BY <2>1
<1>9. from \in Int
    BY <1>2, <1>3
<1>10. ASSUME YoungOver(events, s, from)
       PROVE  /\ s = Anonymous => late1 <= Cardinality(Threads) - 1
              /\ s # Anonymous => late1 + late2 <= Cardinality(Threads) - 1
    <2>1. LateOver(events, s, from) + Cardinality(Pending(from)) <= Cardinality(Threads) - 1
        BY <1>2, <1>9, <1>10 DEF FeedbackInv, Outrun
    <2>2. Cardinality(Pending(from)) \in Nat
        <3>1. Pending(from) \subseteq Threads
            BY DEF Pending
        <3>2. IsFiniteSet(Pending(from))
            BY <1>2, <3>1, FS_Subset
        <3> QED BY <3>2, FS_CardinalityType
    <2>3. /\ LateOver(events, s, from) \in Nat
          /\ s = Anonymous => LateOver(events, s, from) = late1
          /\ s # Anonymous => LateOver(events, s, from) = late1 + late2
        BY <1>2, <1>5, <1>9, LateOverIs
    <2>4. LateOver(events, s, from) <= Cardinality(Threads) - 1
        BY <1>8, <2>1, <2>2, <2>3
    <2> QED BY <2>3, <2>4
<1>11. ASSUME ~YoungOver(events, s, from) PROVE S = 0 /\ A = 0
    BY <1>6, <1>7, <1>11 DEF YoungOver
<1>. DEFINE Over(end) == Feedback!OverBuckets(s, [r \in Shapes |-> Feedback!InWindow(r, end)])
<1>12. ASSUME Over(clockNow) <= hints'.count, hints'.count <= Over(time) + (Cardinality(Threads) - 1)
       PROVE  Feedback!HintsAreHonest(t)
    <2>1. /\ Feedback!OverBuckets(hints'.shape, [r \in Shapes |-> Feedback!InWindow(r, clockNow)]) = Over(clockNow)
          /\ Feedback!OverBuckets(hints'.shape, [r \in Shapes |-> Feedback!InWindow(r, hints'.time)]) = Over(time)
          /\ Feedback!Cardinality(Threads) = Cardinality(Threads)
        BY <1>4, FeedbackCardinality
    <2>2. /\ Feedback!OverBuckets(hints'.shape, [r \in Shapes |-> Feedback!InWindow(r, clockNow)]) <= hints'.count
          /\ hints'.count <= Feedback!OverBuckets(hints'.shape, [r \in Shapes |-> Feedback!InWindow(r, hints'.time)])
                              + Feedback!Cardinality(Threads) - 1
        BY <1>12, <2>1
    <2> QED BY <2>2 DEF Feedback!HintsAreHonest
<1>13. CASE s = Anonymous
    <2>1. now1 <= hints'.count /\ hints'.count <= then1 + (Cardinality(Threads) - 1)
        BY <1>4, <1>6, <1>8, <1>10, <1>11, <1>13
    <2>2. Over(clockNow) = now1 /\ Over(time) = then1
        BY <1>2, <1>5, <1>13 DEF Feedback!OverBuckets
    <2> QED BY <1>12, <2>1, <2>2
<1>14. CASE s # Anonymous
    <2>1. now1 + now2 <= hints'.count /\ hints'.count <= (then1 + then2) + (Cardinality(Threads) - 1)
        BY <1>4, <1>6, <1>7, <1>8, <1>10, <1>11, <1>14
    <2>2. Over(clockNow) = now1 + now2 /\ Over(time) = then1 + then2
        BY <1>2, <1>5, <1>14 DEF Feedback!OverBuckets
    <2> QED BY <1>12, <2>1, <2>2
<1> QED BY <1>13, <1>14

FeedbackPart == part = "feedback" => FeedbackInv

\* For any callers, shapes, window and bounds, whichever caller reads the clock when and
\* takes the lock in which order: an answer misses no retained retrieval that is still in
\* the window, and counts at most one aged retrieval per other caller beyond it, the one
\* that caller recorded late behind a younger head (retrieval_feedback.py:227).
THEOREM CountAlwaysHonest == Spec => CountHonest
<1>1. Init => FeedbackPart
    <2>1. ASSUME Init, part = "feedback" PROVE FeedbackInv
        <3>1. Feedback!Init
            BY <2>1 DEF Init
        <3> QED BY <3>1, FeedbackInit, SharingAssumption DEF Feedback!Init
    <2> QED BY <2>1 DEF FeedbackPart
<1>2. FeedbackPart /\ [Next]_vars => FeedbackPart'
    <2> SUFFICES ASSUME FeedbackPart, [Next]_vars, part' = "feedback" PROVE FeedbackInv'
        BY DEF FeedbackPart
    <2>1. CASE Next
        <3>1. FeedbackInv /\ Feedback!Next
            BY <2>1 DEF Next, FeedbackPart
        <3> QED BY <3>1, FeedbackStep, SharingAssumption
    <2>2. CASE UNCHANGED vars
        <3>1. UNCHANGED part /\ UNCHANGED feedbackVars
            BY <2>2 DEF vars
        <3>2. FeedbackInv /\ UNCHANGED Feedback!feedbackVars
            BY <3>1 DEF FeedbackPart, feedbackVars, Feedback!feedbackVars
        <3> QED BY <3>2, FeedbackStep, SharingAssumption
    <2> QED BY <2>1, <2>2
<1>3. FeedbackPart => (part = "feedback" => \A t \in Threads : Feedback!HintsAreHonest(t))
    BY HintsHonest, SharingAssumption DEF FeedbackPart
<1> QED BY <1>1, <1>2, <1>3, PTL DEF Spec, CountHonest

=============================================================================
