----------------------- MODULE InMemoryCcrStoreProofs -----------------------
(***************************************************************************)
(* Proofs about InMemoryCcrStore, for any keys, payloads, threads and      *)
(* capacity: whatever the steps of concurrent put() and get() calls        *)
(* interleave, the eviction loop can reach every entry, so the map stays   *)
(* bounded, and its queue with it; and what was put stays for its TTL.     *)
(***************************************************************************)
EXTENDS InMemoryCcrStore, FiniteSetTheorems, SequenceTheorems, TLAPS

PutSteps == {"probe", "collided", "refreshed", "absent", "evict", "append", "compact"}

\* A put() in progress carries a payload and a generation, and its eviction loop a token.
Typed ==
    /\ TypeOK
    /\ \A t \in Threads : op[t] # None =>
          /\ op[t].step # "reap" => op[t].payload \in Payloads /\ op[t].generation \in Generations
          /\ op[t].step = "remove" => op[t].popped \in Token
          /\ IsFiniteSet(op[t].live)

-----------------------------------------------------------------------------
(* How a step changes one thread's call *)

Others(t) == \A u \in Threads : u # t => op'[u] = op[u]

LEMMA SetMoves ==
    ASSUME Typed, NEW t \in Threads, NEW x \in Op \cup {None}, op' = [op EXCEPT ![t] = x]
    PROVE  op' \in [Threads -> Op \cup {None}] /\ op'[t] = x /\ Others(t)
BY DEF Typed, TypeOK, Others

LEMMA OpNotNone ==
    ASSUME StoreAssumption, Typed, NEW t \in Threads, op[t] # None
    PROVE  op[t] \in Op
BY DEF Typed, TypeOK

LEMMA GotoMoves ==
    ASSUME StoreAssumption, Typed, NEW t \in Threads, op[t] # None, NEW place \in PutSteps,
           Goto(t, place)
    PROVE  /\ op' \in [Threads -> Op \cup {None}]
           /\ op'[t] # None
           /\ op'[t].step = place
           /\ op'[t].key = op[t].key
           /\ op'[t].payload = op[t].payload
           /\ op'[t].generation = op[t].generation
           /\ op'[t].live = op[t].live
           /\ op'[t].left = op[t].left
           /\ Others(t)
<1>. DEFINE x == [op[t] EXCEPT !.step = place]
<1>1. op[t] \in Op
  BY OpNotNone
<1>2. x \in Op
  BY <1>1 DEF Op, PutSteps
<1>3. op' = [op EXCEPT ![t] = x]
  BY DEF Goto
<1>4. /\ x.step = place
      /\ x.key = op[t].key
      /\ x.payload = op[t].payload
      /\ x.generation = op[t].generation
      /\ x.live = op[t].live
      /\ x.left = op[t].left
  BY <1>1 DEF Op
<1>5. x # None
  BY <1>2 DEF StoreAssumption
<1>. HIDE DEF x
<1>6. op' \in [Threads -> Op \cup {None}] /\ op'[t] = x /\ Others(t)
  BY <1>2, <1>3, SetMoves
<1>. QED
  BY <1>4, <1>5, <1>6

\* The step leaves the live sets finite and the calls typed.
CallsTyped ==
    /\ op \in [Threads -> Op \cup {None}]
    /\ \A t \in Threads : op[t] # None =>
          /\ op[t].step # "reap" => op[t].payload \in Payloads /\ op[t].generation \in Generations
          /\ op[t].step = "remove" => op[t].popped \in Token
          /\ IsFiniteSet(op[t].live)

LEMMA GotoTyped ==
    ASSUME StoreAssumption, Typed, NEW t \in Threads, op[t] # None, op[t].step # "reap",
           NEW place \in PutSteps, Goto(t, place)
    PROVE  CallsTyped'
<1>1. place # "remove"
  BY DEF PutSteps
<1>. QED
  BY <1>1, GotoMoves DEF Typed, CallsTyped, Others

LEMMA EndTyped ==
    ASSUME StoreAssumption, Typed, NEW t \in Threads, op' = [op EXCEPT ![t] = None]
    PROVE  CallsTyped' /\ op'[t] = None /\ Others(t)
<1>1. op' \in [Threads -> Op \cup {None}] /\ op'[t] = None /\ Others(t)
  BY SetMoves
<1>. QED
  BY <1>1 DEF Typed, CallsTyped, Others

LEMMA NewTyped ==
    ASSUME StoreAssumption, Typed, NEW t \in Threads, NEW x \in Op, op' = [op EXCEPT ![t] = x],
           x.step # "reap" => x.payload \in Payloads /\ x.generation \in Generations,
           x.step = "remove" => x.popped \in Token,
           IsFiniteSet(x.live)
    PROVE  CallsTyped' /\ op'[t] = x /\ x # None /\ Others(t)
<1>1. op' \in [Threads -> Op \cup {None}] /\ op'[t] = x /\ Others(t)
  BY SetMoves
<1>. QED
  BY <1>1 DEF Typed, CallsTyped, Others, StoreAssumption

\* The entry and the token of a put() in progress.
LEMMA OwnTyped ==
    ASSUME StoreAssumption, Typed, NEW t \in Threads, op[t] # None, op[t].step # "reap"
    PROVE  /\ op[t].key \in Keys
           /\ OwnEntry(t) \in Entry
           /\ OwnEntry(t).generation = op[t].generation
           /\ OwnEntry(t).payload = op[t].payload
           /\ OwnEntry(t).inserted = now
           /\ OwnToken(t) \in Token
           /\ OwnToken(t).key = op[t].key
           /\ OwnToken(t).generation = op[t].generation
<1>1. op[t] \in Op
  BY OpNotNone
<1>2. op[t].key \in Keys /\ op[t].payload \in Payloads /\ op[t].generation \in Generations
  BY <1>1 DEF Op, Typed
<1>3. now \in Times
  BY DEF Typed, TypeOK
<1>. QED
  BY <1>2, <1>3 DEF OwnEntry, OwnToken, Entry, Token

\* The variables other than op.
StoreTyped ==
    /\ now \in Times
    /\ map \in [Keys -> Entry \cup {None}]
    /\ order \in Seq(Token)
    /\ generation \in Nat
    /\ promise \in [Keys -> Promise \cup {None}]
    /\ returned \in [Keys -> Nat \cup {None}]

LEMMA TypedParts == Typed <=> StoreTyped /\ CallsTyped
BY DEF Typed, TypeOK, StoreTyped, CallsTyped

LEMMA BindTyped ==
    ASSUME StoreAssumption, Typed, NEW t \in Threads, op[t] # None, op[t].step # "reap", Bind(t)
    PROVE  /\ map' \in [Keys -> Entry \cup {None}]
           /\ promise' \in [Keys -> Promise \cup {None}]
           /\ returned' \in [Keys -> Nat \cup {None}]
           /\ map'[op[t].key] = OwnEntry(t)
           /\ \A k \in Keys \ {op[t].key} : map'[k] = map[k]
<1>1. op[t].key \in Keys /\ OwnEntry(t) \in Entry
  BY OwnTyped
<1>2. op[t].payload \in Payloads /\ now + Ttl \in Nat
  BY DEF Typed, TypeOK, Times, StoreAssumption
<1>3. map' \in [Keys -> Entry \cup {None}]
  BY <1>1 DEF Bind, Typed, TypeOK
<1>4. [payload |-> op[t].payload, until |-> now + Ttl] \in Promise
  BY <1>2 DEF Promise
<1>5. promise' \in [Keys -> Promise \cup {None}]
  BY <1>1, <1>4 DEF Bind, Typed, TypeOK
<1>6. returned' \in [Keys -> Nat \cup {None}]
  BY <1>1 DEF Bind, Typed, TypeOK
<1>. QED
  BY <1>1, <1>3, <1>5, <1>6 DEF Bind, Typed, TypeOK

LEMMA UnbindTyped ==
    ASSUME Typed, NEW k \in Keys, Unbind(k)
    PROVE  /\ map' \in [Keys -> Entry \cup {None}]
           /\ promise' \in [Keys -> Promise \cup {None}]
           /\ returned' \in [Keys -> Nat \cup {None}]
           /\ map'[k] = None
           /\ \A j \in Keys \ {k} : map'[j] = map[j]
BY DEF Unbind, Typed, TypeOK

\* The sequences compaction may leave are sequences of the tokens it read.
LEMMA SortedTyped ==
    ASSUME NEW tokens \in SUBSET Token, IsFiniteSet(tokens), NEW q \in SortedSeqs(tokens)
    PROVE  /\ q \in Seq(Token)
           /\ Len(q) = Cardinality(tokens)
           /\ DOMAIN q = 1..Cardinality(tokens)
           /\ \A x \in tokens : \E i \in DOMAIN q : q[i] = x
           /\ \A i \in DOMAIN q : q[i] \in tokens
           /\ \A i, j \in DOMAIN q : i < j => q[i].generation < q[j].generation
<1>1. Cardinality(tokens) \in Nat
  BY FS_CardinalityType
<1>2. q \in [1..Cardinality(tokens) -> tokens]
  BY DEF SortedSeqs
<1>3. q \in Seq(tokens)
  BY <1>1, <1>2
<1>4. Len(q) = Cardinality(tokens)
  BY <1>1, <1>2, <1>3
<1>5. q \in Seq(Token)
  BY <1>3, SeqMonotonic
<1>. QED
  BY <1>2, <1>4, <1>5 DEF SortedSeqs

LEMMA ReturnTyped ==
    ASSUME StoreAssumption, Typed, NEW t \in Threads, op[t] # None, Return(t)
    PROVE  /\ CallsTyped'
           /\ op'[t] = None
           /\ Others(t)
           /\ returned' \in [Keys -> Nat \cup {None}]
<1>1. CallsTyped' /\ op'[t] = None /\ Others(t)
  BY EndTyped DEF Return
<1>2. op[t].key \in Keys
  BY OpNotNone DEF Op
<1>3. returned' \in [Keys -> Nat \cup {None}]
  BY <1>2 DEF Return, Typed, TypeOK
<1>. QED
  BY <1>1, <1>3

\* The eviction loop pops the head of the queue ...
LEMMA PopMoves ==
    ASSUME StoreAssumption, Typed, NEW t \in Threads, PopToken(t)
    PROVE  /\ CallsTyped'
           /\ op[t] # None /\ op[t].step = "evict" /\ op'[t] # None
           /\ op'[t].step = "remove" /\ op'[t].popped = Head(order)
           /\ op'[t].generation = op[t].generation /\ op'[t].live = op[t].live
           /\ Others(t)
           /\ Head(order) \in Token /\ Head(order).key \in Keys
           /\ order \in Seq(Token) /\ order # <<>> /\ order' = Tail(order) /\ order' \in Seq(Token)
<1>1. op[t] # None /\ op[t].step = "evict" /\ op[t] \in Op /\ order # <<>> /\ order' = Tail(order)
  BY OpNotNone DEF PopToken, At
<1>2. order \in Seq(Token)
  BY DEF Typed, TypeOK
<1>3. Head(order) \in Token /\ Tail(order) \in Seq(Token)
  BY <1>1, <1>2, HeadTailProperties
<1>4. Head(order).key \in Keys
  BY <1>3 DEF Token
<1>. DEFINE x == [op[t] EXCEPT !.step = "remove", !.popped = Head(order)]
<1>5. /\ x \in Op
      /\ x.step = "remove" /\ x.popped = Head(order)
      /\ x.payload = op[t].payload /\ x.generation = op[t].generation /\ x.live = op[t].live
  BY <1>1, <1>3 DEF Op
<1>6. op' = [op EXCEPT ![t] = x]
  BY DEF PopToken
<1>. HIDE DEF x
<1>7. op[t].payload \in Payloads /\ op[t].generation \in Generations /\ IsFiniteSet(op[t].live)
  BY <1>1 DEF Typed
<1>8. CallsTyped' /\ op'[t] = x /\ x # None /\ Others(t)
  BY <1>3, <1>5, <1>6, <1>7, NewTyped
<1>. QED
  BY <1>1, <1>2, <1>3, <1>4, <1>5, <1>8

\* ... and removes the entry that the token names, if it is still that entry.
LEMMA RemoveMoves ==
    ASSUME StoreAssumption, Typed, NEW t \in Threads, RemovePopped(t)
    PROVE  /\ CallsTyped'
           /\ op[t] # None /\ op[t].step = "remove" /\ op'[t] # None
           /\ op'[t].step = "evict"
           /\ op'[t].generation = op[t].generation /\ op'[t].live = op[t].live
           /\ Others(t)
           /\ op[t].popped \in Token /\ op[t].popped.key \in Keys
           /\ Unbind(op[t].popped.key) \/ UNCHANGED <<map, promise, returned>>
           /\ \A k \in Keys : map'[k] # None =>
                 /\ map'[k] = map[k] /\ returned'[k] = returned[k]
                 /\ [key |-> k, generation |-> map[k].generation] # op[t].popped
           /\ order' = order
<1>1. op[t] # None /\ op[t].step = "remove" /\ op[t] \in Op /\ order' = order
  BY OpNotNone DEF RemovePopped, At
<1>2. op[t].popped \in Token
  BY <1>1 DEF Typed
<1>3. op[t].popped.key \in Keys
  BY <1>2 DEF Token
<1>. DEFINE x == [op[t] EXCEPT !.step = "evict", !.popped = None]
<1>4. /\ x \in Op
      /\ x.step = "evict"
      /\ x.payload = op[t].payload /\ x.generation = op[t].generation /\ x.live = op[t].live
  BY <1>1 DEF Op
<1>5. op' = [op EXCEPT ![t] = x]
  BY DEF RemovePopped
<1>. HIDE DEF x
<1>6. op[t].payload \in Payloads /\ op[t].generation \in Generations /\ IsFiniteSet(op[t].live)
  BY <1>1 DEF Typed
<1>7. CallsTyped' /\ op'[t] = x /\ x # None /\ Others(t)
  BY <1>4, <1>5, <1>6, NewTyped
<1>8. \A k \in Keys : map'[k] # None =>
         /\ map'[k] = map[k] /\ returned'[k] = returned[k]
         /\ [key |-> k, generation |-> map[k].generation] # op[t].popped
  <2>1. CASE Matches(op[t].popped)
    <3>1. Unbind(op[t].popped.key)
      BY <2>1 DEF RemovePopped
    <3>2. \A k \in Keys : IF k = op[t].popped.key THEN map'[k] = None
                          ELSE map'[k] = map[k] /\ returned'[k] = returned[k]
      BY <1>3, <3>1 DEF Unbind, Typed, TypeOK
    <3>. QED
      BY <3>2
  <2>2. CASE ~Matches(op[t].popped)
    <3>1. map' = map /\ returned' = returned
      BY <2>2 DEF RemovePopped
    <3>. QED
      BY <2>2, <3>1 DEF Matches
  <2>. QED
    BY <2>1, <2>2
<1>9. Unbind(op[t].popped.key) \/ UNCHANGED <<map, promise, returned>>
  BY DEF RemovePopped
<1>. QED
  BY <1>1, <1>2, <1>3, <1>4, <1>7, <1>8, <1>9

-----------------------------------------------------------------------------
(* Type correctness *)

LEMMA TypedInit == ASSUME StoreAssumption, Init PROVE Typed
<1>1. StoreTyped
  BY EmptySeq DEF Init, StoreTyped, Times, StoreAssumption
<1>2. CallsTyped
  BY DEF Init, CallsTyped
<1>. QED
  BY <1>1, <1>2, TypedParts

LEMMA PutStepTyped ==
    ASSUME StoreAssumption, Typed, NEW t \in Threads, PutStep(t)
    PROVE  Typed'
<1>. StoreTyped /\ CallsTyped
  BY TypedParts
<1>. SUFFICES StoreTyped' /\ CallsTyped'
  BY DEF Typed, TypeOK, StoreTyped, CallsTyped
<1>1. CASE Refresh(t)
  <2>1. op[t] # None /\ op[t].step # "reap"
    BY <1>1 DEF Refresh, At
  <2>2. CallsTyped'
    BY <1>1, <2>1, GotoTyped DEF Refresh, PutSteps
  <2>3. StoreTyped'
    BY <1>1, <2>1, BindTyped DEF Refresh, StoreTyped, Times
  <2>. QED
    BY <2>2, <2>3
<1>2. CASE Collide(t) \/ Miss(t) \/ LockOrder(t)
  <2>1. op[t] # None /\ op[t].step # "reap"
    BY <1>2 DEF Collide, Miss, LockOrder, At
  <2>2. CallsTyped'
    BY <1>2, <2>1, GotoTyped DEF Collide, Miss, LockOrder, PutSteps
  <2>3. StoreTyped'
    BY <1>2 DEF Collide, Miss, LockOrder, StoreTyped, Times
  <2>. QED
    BY <2>2, <2>3
<1>3. CASE DropCollision(t)
  <2>1. op[t].key \in Keys
    BY <1>3, OpNotNone DEF DropCollision, At, Op
  <2>2. CallsTyped'
    BY <1>3, EndTyped DEF DropCollision
  <2>3. StoreTyped'
    BY <1>3, <2>1, UnbindTyped DEF DropCollision, StoreTyped, Times
  <2>. QED
    BY <2>2, <2>3
<1>4. CASE PopToken(t) \/ RemovePopped(t)
  <2>1. CASE PopToken(t)
    <3>1. CallsTyped' /\ order' \in Seq(Token)
      BY <2>1, PopMoves
    <3>. QED
      BY <2>1, <3>1 DEF PopToken, StoreTyped, Times
  <2>2. CASE RemovePopped(t)
    <3>1. CallsTyped' /\ op[t].popped.key \in Keys
      BY <2>2, RemoveMoves
    <3>. QED
      BY <2>2, <3>1, UnbindTyped DEF RemovePopped, StoreTyped, Times
  <2>. QED
    BY <1>4, <2>1, <2>2
<1>5. CASE InsertEntry(t)
  <2>1. op[t] # None /\ op[t].step # "reap"
    BY <1>5 DEF InsertEntry, At
  <2>2. CallsTyped'
    BY <1>5, <2>1, GotoTyped DEF InsertEntry, PutSteps
  <2>3. StoreTyped'
    BY <1>5, <2>1, BindTyped DEF InsertEntry, StoreTyped, Times
  <2>. QED
    BY <2>2, <2>3
<1>6. CASE PushToken(t)
  <2>1. op[t] # None /\ op[t].step # "reap"
    BY <1>6 DEF PushToken, At
  <2>2. OwnToken(t) \in Token
    BY <2>1, OwnTyped
  <2>3. order' \in Seq(Token)
    BY <1>6, <2>2 DEF PushToken, StoreTyped
  <2>4. CASE Overgrown(order')
    <3>. DEFINE x == [op[t] EXCEPT !.step = "compact", !.left = Keys]
    <3>1. op[t] \in Op
      BY <2>1, OpNotNone
    <3>2. x \in Op /\ x.step = "compact" /\ x.payload = op[t].payload
          /\ x.generation = op[t].generation /\ x.live = op[t].live
      BY <3>1 DEF Op
    <3>3. op' = [op EXCEPT ![t] = x]
      BY <1>6, <2>4 DEF PushToken
    <3>4. op[t].payload \in Payloads /\ op[t].generation \in Generations /\ IsFiniteSet(op[t].live)
      BY <2>1 DEF Typed
    <3>. HIDE DEF x
    <3>5. CallsTyped'
      BY <3>2, <3>3, <3>4, NewTyped
    <3>6. StoreTyped'
      BY <1>6, <2>3, <2>4 DEF PushToken, StoreTyped, Times
    <3>. QED
      BY <3>5, <3>6
  <2>5. CASE ~Overgrown(order')
    <3>1. Return(t)
      BY <1>6, <2>5 DEF PushToken
    <3>2. StoreTyped'
      BY <1>6, <2>1, <2>3, <3>1, ReturnTyped DEF PushToken, StoreTyped, Times
    <3>. QED
      BY <2>1, <3>1, <3>2, ReturnTyped
  <2>. QED
    BY <2>4, <2>5
<1>7. CASE \E k \in Keys : CollectToken(t, k)
  <2>1. PICK k \in Keys : CollectToken(t, k)
    BY <1>7
  <2>2. op[t] # None /\ op[t].step = "compact" /\ op[t] \in Op
    BY <2>1, OpNotNone DEF CollectToken, At
  <2>. DEFINE live == IF map[k] = None THEN op[t].live
                      ELSE op[t].live \cup {[key |-> k, generation |-> map[k].generation]}
              x == [op[t] EXCEPT !.left = op[t].left \ {k}, !.live = live]
  <2>3. live \subseteq Token /\ IsFiniteSet(live)
    <3>1. op[t].live \subseteq Token /\ IsFiniteSet(op[t].live)
      BY <2>2 DEF Op, Typed
    <3>2. CASE map[k] = None
      BY <3>1, <3>2
    <3>3. CASE map[k] # None
      <4>1. [key |-> k, generation |-> map[k].generation] \in Token
        BY <3>3 DEF StoreTyped, Entry, Token
      <4>. QED
        BY <3>1, <3>3, <4>1, FS_AddElement
    <3>. QED
      BY <3>2, <3>3
  <2>4. op' = [op EXCEPT ![t] = x]
    BY <2>1 DEF CollectToken
  <2>. HIDE DEF live
  <2>5. x \in Op /\ x.step = "compact" /\ x.payload = op[t].payload
        /\ x.generation = op[t].generation /\ x.live = live
    BY <2>2, <2>3 DEF Op
  <2>6. op[t].payload \in Payloads /\ op[t].generation \in Generations
    BY <2>2 DEF Typed
  <2>. HIDE DEF x
  <2>7. CallsTyped'
    BY <2>3, <2>4, <2>5, <2>6, NewTyped
  <2>8. StoreTyped'
    BY <2>1 DEF CollectToken, StoreTyped, Times
  <2>. QED
    BY <2>7, <2>8
<1>8. CASE CompactOrderQueue(t)
  <2>1. op[t] # None /\ op[t] \in Op
    BY <1>8, OpNotNone DEF CompactOrderQueue, At
  <2>2. op[t].live \in SUBSET Token /\ IsFiniteSet(op[t].live)
    BY <2>1 DEF Op, Typed
  <2>3. order' \in Seq(Token)
    BY <1>8, <2>2, SortedTyped DEF CompactOrderQueue
  <2>4. CallsTyped' /\ returned' \in [Keys -> Nat \cup {None}]
    BY <1>8, <2>1, ReturnTyped DEF CompactOrderQueue
  <2>5. StoreTyped'
    BY <1>8, <2>3, <2>4 DEF CompactOrderQueue, StoreTyped, Times
  <2>. QED
    BY <2>4, <2>5
<1>. QED
  BY <1>1, <1>2, <1>3, <1>4, <1>5, <1>6, <1>7, <1>8 DEF PutStep

LEMMA TypedStep == ASSUME StoreAssumption, Typed, [Next]_vars PROVE Typed'
<1>. StoreTyped /\ CallsTyped
  BY TypedParts
<1>. SUFFICES StoreTyped' /\ CallsTyped'
  BY DEF Typed, TypeOK, StoreTyped, CallsTyped
<1>1. CASE \E t \in Threads, p \in Payloads : StartPut(t, p)
  <2>1. PICK t \in Threads, p \in Payloads : StartPut(t, p)
    BY <1>1
  <2>. DEFINE x == [key |-> KeyOf[p], payload |-> p, generation |-> generation,
                    step |-> "probe", popped |-> None, left |-> {}, live |-> {}]
  <2>2. generation \in Generations
    BY <2>1 DEF StartPut, StoreTyped, Generations, StoreAssumption
  <2>3. x \in Op /\ x.payload \in Payloads /\ x.generation \in Generations /\ x.live = {} /\ x.step = "probe"
    BY <2>2 DEF Op, StoreAssumption
  <2>4. op' = [op EXCEPT ![t] = x]
    BY <2>1 DEF StartPut
  <2>. HIDE DEF x
  <2>5. CallsTyped'
    BY <2>3, <2>4, NewTyped, FS_EmptySet
  <2>6. StoreTyped'
    BY <2>1 DEF StartPut, StoreTyped, Times
  <2>. QED
    BY <2>5, <2>6
<1>2. CASE \E t \in Threads, k \in Keys : StartGet(t, k)
  <2>1. PICK t \in Threads, k \in Keys : StartGet(t, k)
    BY <1>2
  <2>. DEFINE x == [key |-> k, payload |-> None, generation |-> None,
                    step |-> "reap", popped |-> None, left |-> {}, live |-> {}]
  <2>2. x \in Op /\ x.step = "reap" /\ x.live = {}
    BY DEF Op
  <2>3. op' = [op EXCEPT ![t] = x]
    BY <2>1 DEF StartGet
  <2>. HIDE DEF x
  <2>4. CallsTyped'
    BY <2>2, <2>3, NewTyped, FS_EmptySet
  <2>5. StoreTyped'
    BY <2>1 DEF StartGet, StoreTyped, Times
  <2>. QED
    BY <2>4, <2>5
<1>3. CASE \E t \in Threads : PutStep(t)
  BY <1>3, PutStepTyped DEF Typed, TypeOK, StoreTyped, CallsTyped
<1>4. CASE \E t \in Threads : Reap(t)
  <2>1. PICK t \in Threads : Reap(t)
    BY <1>4
  <2>2. op[t].key \in Keys
    BY <2>1, OpNotNone DEF Reap, At, Op
  <2>3. CallsTyped'
    BY <2>1, EndTyped DEF Reap
  <2>4. StoreTyped'
    BY <2>1, <2>2, UnbindTyped DEF Reap, StoreTyped, Times
  <2>. QED
    BY <2>3, <2>4
<1>5. CASE Tick
  <2>1. StoreTyped'
    BY <1>5 DEF Tick, StoreTyped, Times, StoreAssumption
  <2>2. CallsTyped'
    BY <1>5 DEF Tick, CallsTyped
  <2>. QED
    BY <2>1, <2>2
<1>6. CASE UNCHANGED vars
  BY <1>6 DEF vars, StoreTyped, CallsTyped, Times
<1>. QED
  BY <1>1, <1>2, <1>3, <1>4, <1>5, <1>6 DEF Next

\* Every variable keeps its type.
THEOREM EngineTypeCorrect == Spec => []TypeOK
<1>1. Init => Typed
  BY TypedInit, StoreAssumption
<1>2. Typed /\ [Next]_vars => Typed'
  BY TypedStep, StoreAssumption
<1>3. Typed => TypeOK
  BY DEF Typed
<1>. QED
  BY <1>1, <1>2, <1>3, PTL DEF Spec

-----------------------------------------------------------------------------
(* The eviction loop reaches every entry *)

\* The order mutex is held by one thread at most.
Mutex == \A t, u \in Threads : HoldsOrder(t) /\ HoldsOrder(u) => t = u

\* The token of the entry of key k.
TokenOf(k) == [key |-> k, generation |-> map[k].generation]

Queued(x) == \E i \in DOMAIN order : order[i] = x

\* Thread t is about to queue x, or has popped it to remove its entry.
Carries(t, x) ==
    \/ (At(t, "refreshed") \/ At(t, "append")) /\ OwnToken(t) = x
    \/ At(t, "remove") /\ op[t].popped = x

Reach ==
    /\ Typed
    /\ Mutex
    /\ EvictionReaches
    /\ CompactionKeepsAll

LEMMA InFlightParts ==
    \A x : InFlight(x) <=> Queued(x) \/ \E t \in Threads : Carries(t, x)
BY DEF InFlight, Queued, Carries

LEMMA ReachParts ==
    EvictionReaches <=> \A k \in Keys : map[k] # None =>
        Queued(TokenOf(k)) \/ \E t \in Threads : Carries(t, TokenOf(k))
BY DEF EvictionReaches, Live, TokenOf, InFlight, Queued, Carries

LEMMA KeepsParts ==
    CompactionKeepsAll <=> \A t \in Threads : At(t, "compact") =>
        \A k \in Keys : map[k] # None /\ k \notin op[t].left =>
            \/ TokenOf(k) \in op[t].live
            \/ \E u \in Threads : At(u, "refreshed") /\ OwnToken(u) = TokenOf(k)
BY DEF CompactionKeepsAll, Live, TokenOf

\* A step of thread t that neither queues nor takes a token.
LEMMA ReachesKept ==
    ASSUME EvictionReaches, NEW t \in Threads, Others(t), order' = order,
           ~At(t, "refreshed"), ~At(t, "append"), ~At(t, "remove"),
           \A k \in Keys : map'[k] # None => map'[k] = map[k] \/ Carries(t, TokenOf(k))'
    PROVE  EvictionReaches'
<1>. SUFFICES ASSUME NEW k \in Keys, map'[k] # None
     PROVE  Queued(TokenOf(k))' \/ \E u \in Threads : Carries(u, TokenOf(k))'
  BY DEF EvictionReaches, Live, TokenOf, InFlight, Queued, Carries
<1>1. CASE Carries(t, TokenOf(k))'
  BY <1>1
<1>2. CASE map'[k] = map[k]
  <2>1. TokenOf(k)' = TokenOf(k)
    BY <1>2 DEF TokenOf
  <2>2. CASE Queued(TokenOf(k))
    BY <2>1, <2>2 DEF Queued
  <2>3. ASSUME NEW u \in Threads, Carries(u, TokenOf(k)) PROVE Carries(u, TokenOf(k))'
    <3>1. u # t
      BY <2>3 DEF Carries
    <3>2. op'[u] = op[u]
      BY <3>1 DEF Others
    <3>. QED
      BY <2>1, <2>3, <3>2 DEF Carries, At, OwnToken
  <2>. QED
    BY <1>2, <2>2, <2>3, ReachParts
<1>. QED
  BY <1>1, <1>2

\* A step of a thread that has not refreshed an entry and is not compacting.
LEMMA KeepsKept ==
    ASSUME CompactionKeepsAll, NEW t \in Threads, Others(t),
           ~At(t, "refreshed"), ~At(t, "compact")',
           \A u \in Threads : At(u, "compact") => \A k \in Keys : map'[k] # None =>
              map'[k] = map[k] \/ (At(t, "refreshed")' /\ OwnToken(t)' = TokenOf(k)')
    PROVE  CompactionKeepsAll'
<1>. SUFFICES ASSUME NEW u \in Threads, At(u, "compact")', NEW k \in Keys,
                     map'[k] # None, k \notin op'[u].left
     PROVE  \/ TokenOf(k)' \in op'[u].live
            \/ \E v \in Threads : At(v, "refreshed")' /\ OwnToken(v)' = TokenOf(k)'
  BY DEF CompactionKeepsAll, Live, TokenOf
<1>1. u # t /\ op'[u] = op[u] /\ At(u, "compact")
  BY DEF Others, At
<1>2. CASE At(t, "refreshed")' /\ OwnToken(t)' = TokenOf(k)'
  BY <1>2
<1>3. CASE map'[k] = map[k]
  <2>1. TokenOf(k)' = TokenOf(k)
    BY <1>3 DEF TokenOf
  <2>2. CASE TokenOf(k) \in op[u].live
    BY <1>1, <2>1, <2>2
  <2>3. ASSUME NEW v \in Threads, At(v, "refreshed"), OwnToken(v) = TokenOf(k)
        PROVE  At(v, "refreshed")' /\ OwnToken(v)' = TokenOf(k)'
    <3>1. v # t /\ op'[v] = op[v]
      BY <2>3 DEF Others
    <3>. QED
      BY <2>1, <2>3, <3>1 DEF At, OwnToken
  <2>. QED
    BY <1>1, <1>3, <2>2, <2>3, KeepsParts
<1>. QED
  BY <1>1, <1>2, <1>3

\* A step of a thread that does not take the mutex.
LEMMA MutexKept ==
    ASSUME Mutex, NEW t \in Threads, Others(t), HoldsOrder(t)' => HoldsOrder(t)
    PROVE  Mutex'
<1>1. \A u \in Threads : HoldsOrder(u)' => HoldsOrder(u)
  BY DEF HoldsOrder, At, Others
<1>. QED
  BY <1>1 DEF Mutex

\* A step of thread t outside the mutex that binds no entry.
LEMMA QuietStep ==
    ASSUME Reach, NEW t \in Threads, Others(t), order' = order,
           ~At(t, "refreshed"), ~At(t, "append"), ~At(t, "remove"), ~HoldsOrder(t)',
           \A k \in Keys : map'[k] # None => map'[k] = map[k]
    PROVE  Mutex' /\ EvictionReaches' /\ CompactionKeepsAll'
<1>1. Mutex'
  BY MutexKept DEF Reach
<1>2. EvictionReaches'
  BY ReachesKept DEF Reach
<1>3. ~At(t, "compact")'
  BY DEF HoldsOrder
<1>4. CompactionKeepsAll'
  BY <1>3, KeepsKept DEF Reach
<1>. QED
  BY <1>1, <1>2, <1>4

LEMMA ReachRefresh ==
    ASSUME StoreAssumption, Reach, NEW t \in Threads, Refresh(t)
    PROVE  Mutex' /\ EvictionReaches' /\ CompactionKeepsAll'
<1>. Typed
  BY DEF Reach
<1>1. op[t] # None /\ op[t].step = "probe" /\ Bind(t) /\ Goto(t, "refreshed") /\ order' = order
  BY DEF Refresh, At
<1>2. /\ op'[t] # None
      /\ op'[t].step = "refreshed"
      /\ op'[t].key = op[t].key
      /\ op'[t].generation = op[t].generation
      /\ Others(t)
  BY <1>1, GotoMoves DEF PutSteps
<1>3. op[t].key \in Keys /\ OwnEntry(t).generation = op[t].generation
  BY <1>1, OwnTyped
<1>4. map'[op[t].key] = OwnEntry(t) /\ \A k \in Keys \ {op[t].key} : map'[k] = map[k]
  BY <1>1, BindTyped
<1>5. At(t, "refreshed")' /\ \A k \in Keys : k = op[t].key => OwnToken(t)' = TokenOf(k)'
  BY <1>2, <1>3, <1>4 DEF At, OwnToken, TokenOf
<1>6. \A k \in Keys : map'[k] = map[k] \/ (At(t, "refreshed")' /\ OwnToken(t)' = TokenOf(k)')
  BY <1>4, <1>5
<1>7. ~At(t, "refreshed") /\ ~At(t, "append") /\ ~At(t, "remove") /\ ~At(t, "compact")' /\ ~HoldsOrder(t)'
  BY <1>1, <1>2 DEF At, HoldsOrder
<1>8. Mutex'
  BY <1>2, <1>7, MutexKept DEF Reach
<1>9. \A k \in Keys : map'[k] # None => map'[k] = map[k] \/ Carries(t, TokenOf(k))'
  BY <1>6 DEF Carries
<1>10. EvictionReaches'
  BY <1>1, <1>2, <1>7, <1>9, ReachesKept DEF Reach
<1>11. CompactionKeepsAll'
  BY <1>2, <1>6, <1>7, KeepsKept DEF Reach
<1>. QED
  BY <1>8, <1>10, <1>11

LEMMA ReachInsert ==
    ASSUME StoreAssumption, Reach, NEW t \in Threads, InsertEntry(t)
    PROVE  Mutex' /\ EvictionReaches' /\ CompactionKeepsAll'
<1>. Typed
  BY DEF Reach
<1>1. op[t] # None /\ op[t].step = "evict" /\ Bind(t) /\ Goto(t, "append") /\ order' = order
  BY DEF InsertEntry, At
<1>2. /\ op'[t] # None
      /\ op'[t].step = "append"
      /\ op'[t].key = op[t].key
      /\ op'[t].generation = op[t].generation
      /\ Others(t)
  BY <1>1, GotoMoves DEF PutSteps
<1>3. op[t].key \in Keys /\ OwnEntry(t).generation = op[t].generation
  BY <1>1, OwnTyped
<1>4. map'[op[t].key] = OwnEntry(t) /\ \A k \in Keys \ {op[t].key} : map'[k] = map[k]
  BY <1>1, BindTyped
<1>5. At(t, "append")' /\ \A k \in Keys : k = op[t].key => OwnToken(t)' = TokenOf(k)'
  BY <1>2, <1>3, <1>4 DEF At, OwnToken, TokenOf
<1>6. ~At(t, "refreshed") /\ ~At(t, "append") /\ ~At(t, "remove") /\ ~At(t, "compact")' /\ HoldsOrder(t)
  BY <1>1, <1>2 DEF At, HoldsOrder
<1>7. Mutex'
  BY <1>2, <1>6, MutexKept DEF Reach
<1>8. \A k \in Keys : map'[k] # None => map'[k] = map[k] \/ Carries(t, TokenOf(k))'
  BY <1>4, <1>5 DEF Carries
<1>9. EvictionReaches'
  BY <1>1, <1>2, <1>6, <1>8, ReachesKept DEF Reach
<1>10. \A u \in Threads : ~At(u, "compact")
  BY <1>1, <1>6 DEF Reach, Mutex, HoldsOrder, At
<1>11. CompactionKeepsAll'
  BY <1>2, <1>6, <1>10, KeepsKept DEF Reach
<1>. QED
  BY <1>7, <1>9, <1>11

\* A queued token stays queued, at the front or behind it.
LEMMA QueueTail ==
    ASSUME NEW q \in Seq(Token), q # <<>>
    PROVE  \A x : (\E i \in DOMAIN q : q[i] = x) =>
              x = Head(q) \/ \E i \in DOMAIN Tail(q) : Tail(q)[i] = x
<1>. SUFFICES ASSUME NEW i \in DOMAIN q
     PROVE  q[i] = Head(q) \/ \E j \in DOMAIN Tail(q) : Tail(q)[j] = q[i]
  OBVIOUS
<1>1. i \in 1..Len(q) /\ Len(q) \in Nat
  BY LenProperties
<1>2. /\ Tail(q) \in Seq(Token)
      /\ Len(Tail(q)) = Len(q) - 1
      /\ \A j \in 1..Len(Tail(q)) : Tail(q)[j] = q[j + 1]
  BY HeadTailProperties
<1>3. CASE i = 1
  BY <1>3
<1>4. CASE i # 1
  <2>1. i - 1 \in 1..Len(Tail(q))
    BY <1>1, <1>2, <1>4
  <2>2. i - 1 \in DOMAIN Tail(q)
    BY <1>2, <2>1, LenProperties
  <2>3. Tail(q)[i - 1] = q[i]
    BY <1>1, <1>2, <2>1
  <2>. QED
    BY <2>2, <2>3
<1>. QED
  BY <1>3, <1>4

LEMMA ReachPop ==
    ASSUME StoreAssumption, Reach, NEW t \in Threads, PopToken(t)
    PROVE  Mutex' /\ EvictionReaches' /\ CompactionKeepsAll'
<1>. Typed
  BY DEF Reach
<1>1. /\ op[t] # None /\ op[t].step = "evict" /\ op'[t] # None
      /\ op'[t].step = "remove" /\ op'[t].popped = Head(order)
      /\ Others(t)
      /\ order \in Seq(Token) /\ order # <<>> /\ order' = Tail(order)
  BY PopMoves
<1>2. map' = map
  BY DEF PopToken
<1>3. \A k : TokenOf(k)' = TokenOf(k)
  BY <1>2 DEF TokenOf
<1>4. HoldsOrder(t) /\ ~At(t, "refreshed") /\ ~At(t, "compact")'
  BY <1>1 DEF HoldsOrder, At
<1>5. Mutex'
  BY <1>1, <1>4, MutexKept DEF Reach
<1>6. EvictionReaches'
  <2>. SUFFICES ASSUME NEW k \in Keys, map[k] # None
       PROVE  Queued(TokenOf(k))' \/ \E u \in Threads : Carries(u, TokenOf(k))'
    BY <1>2 DEF EvictionReaches, Live, TokenOf, InFlight, Queued, Carries
  <2>1. CASE Queued(TokenOf(k))
    <3>1. TokenOf(k) = Head(order) \/ \E i \in DOMAIN Tail(order) : Tail(order)[i] = TokenOf(k)
      BY <1>1, <2>1, QueueTail DEF Queued
    <3>2. CASE TokenOf(k) = Head(order)
      BY <1>1, <1>3, <3>2 DEF Carries, At
    <3>3. CASE \E i \in DOMAIN Tail(order) : Tail(order)[i] = TokenOf(k)
      BY <1>1, <1>3, <3>3 DEF Queued
    <3>. QED
      BY <3>1, <3>2, <3>3
  <2>2. ASSUME NEW u \in Threads, Carries(u, TokenOf(k)) PROVE Carries(u, TokenOf(k))'
    <3>1. u # t
      BY <1>1, <2>2 DEF Carries, At
    <3>. QED
      BY <1>1, <1>3, <2>2, <3>1 DEF Carries, At, OwnToken, Others
  <2>. QED
    BY <2>1, <2>2, ReachParts DEF Reach
<1>7. CompactionKeepsAll'
  BY <1>1, <1>2, <1>4, KeepsKept DEF Reach
<1>. QED
  BY <1>5, <1>6, <1>7

LEMMA ReachRemove ==
    ASSUME StoreAssumption, Reach, NEW t \in Threads, RemovePopped(t)
    PROVE  Mutex' /\ EvictionReaches' /\ CompactionKeepsAll'
<1>. Typed
  BY DEF Reach
<1>1. /\ op[t] # None /\ op[t].step = "remove" /\ op'[t] # None
      /\ op'[t].step = "evict"
      /\ Others(t)
      /\ order' = order
      /\ \A k \in Keys : map'[k] # None => map'[k] = map[k] /\ TokenOf(k) # op[t].popped
  BY RemoveMoves DEF TokenOf
<1>2. HoldsOrder(t) /\ ~At(t, "refreshed") /\ ~At(t, "append") /\ ~At(t, "compact")'
  BY <1>1 DEF HoldsOrder, At
<1>3. Mutex'
  BY <1>1, <1>2, MutexKept DEF Reach
<1>4. EvictionReaches'
  <2>. SUFFICES ASSUME NEW k \in Keys, map'[k] # None
       PROVE  Queued(TokenOf(k))' \/ \E u \in Threads : Carries(u, TokenOf(k))'
    BY DEF EvictionReaches, Live, TokenOf, InFlight, Queued, Carries
  <2>1. map'[k] = map[k] /\ TokenOf(k) # op[t].popped /\ TokenOf(k)' = TokenOf(k)
    BY <1>1 DEF TokenOf
  <2>2. CASE Queued(TokenOf(k))
    BY <1>1, <2>1, <2>2 DEF Queued
  <2>3. ASSUME NEW u \in Threads, Carries(u, TokenOf(k)) PROVE Carries(u, TokenOf(k))'
    <3>1. u # t
      BY <1>2, <2>1, <2>3 DEF Carries
    <3>. QED
      BY <1>1, <2>1, <2>3, <3>1 DEF Carries, At, OwnToken, Others
  <2>. QED
    BY <2>1, <2>2, <2>3, ReachParts DEF Reach
<1>5. CompactionKeepsAll'
  BY <1>1, <1>2, KeepsKept DEF Reach
<1>. QED
  BY <1>3, <1>4, <1>5

\* A sequence holds what it held and the element appended to it.
LEMMA QueueAppend ==
    ASSUME NEW q \in Seq(Token), NEW y \in Token
    PROVE  /\ \A x : (\E i \in DOMAIN q : q[i] = x) =>
                 \E i \in DOMAIN Append(q, y) : Append(q, y)[i] = x
           /\ \E i \in DOMAIN Append(q, y) : Append(q, y)[i] = y
<1>1. DOMAIN q = 1..Len(q) /\ Len(q) \in Nat
  BY LenProperties
<1>2. DOMAIN Append(q, y) = 1..(Len(q) + 1)
  BY <1>1
<1>3. \A i \in 1..Len(q) : Append(q, y)[i] = q[i]
  BY <1>1
<1>4. Append(q, y)[Len(q) + 1] = y
  BY <1>1
<1>5. \A i \in 1..Len(q) : i \in 1..(Len(q) + 1)
  BY <1>1
<1>6. Len(q) + 1 \in 1..(Len(q) + 1)
  BY <1>1
<1>. QED
  BY <1>1, <1>2, <1>3, <1>4, <1>5, <1>6

\* push_back leaves the queue sorted out: the call is over, or compacting with all to read.
LEMMA PushMoves ==
    ASSUME StoreAssumption, Typed, NEW t \in Threads, PushToken(t)
    PROVE  /\ op[t] # None
           /\ OwnToken(t) \in Token
           /\ order' = Append(order, OwnToken(t))
           /\ map' = map
           /\ Others(t)
           /\ ~At(t, "refreshed")' /\ ~At(t, "append")'
           /\ At(t, "compact")' => op'[t].left = Keys /\ op'[t].live = op[t].live
           /\ HoldsOrder(t)' => HoldsOrder(t) \/ OrderFree
<1>1. op[t] # None /\ op[t].step # "reap" /\ (HoldsOrder(t) \/ OrderFree)
  BY DEF PushToken, At, HoldsOrder
<1>2. OwnToken(t) \in Token
  BY <1>1, OwnTyped
<1>3. order' = Append(order, OwnToken(t)) /\ map' = map
  BY DEF PushToken
<1>4. CASE Overgrown(order')
  <2>. DEFINE x == [op[t] EXCEPT !.step = "compact", !.left = Keys]
  <2>1. op[t] \in Op
    BY <1>1, OpNotNone
  <2>2. x \in Op /\ x.step = "compact" /\ x.left = Keys /\ x.live = op[t].live
    BY <2>1 DEF Op
  <2>3. op' = [op EXCEPT ![t] = x]
    BY <1>4 DEF PushToken
  <2>. HIDE DEF x
  <2>4. op'[t] = x /\ Others(t)
    BY <2>2, <2>3, SetMoves
  <2>. QED
    BY <1>1, <1>2, <1>3, <2>2, <2>4 DEF At
<1>5. CASE ~Overgrown(order')
  <2>1. op'[t] = None /\ Others(t)
    BY <1>1, <1>5, ReturnTyped DEF PushToken
  <2>. QED
    BY <1>1, <1>2, <1>3, <2>1 DEF At, HoldsOrder
<1>. QED
  BY <1>4, <1>5

LEMMA ReachPush ==
    ASSUME StoreAssumption, Reach, NEW t \in Threads, PushToken(t)
    PROVE  Mutex' /\ EvictionReaches' /\ CompactionKeepsAll'
<1>. Typed /\ order \in Seq(Token)
  BY DEF Reach, Typed, TypeOK
<1>1. /\ OwnToken(t) \in Token
      /\ order' = Append(order, OwnToken(t))
      /\ map' = map
      /\ Others(t)
      /\ ~At(t, "refreshed")' /\ ~At(t, "append")'
      /\ At(t, "compact")' => op'[t].left = Keys
      /\ HoldsOrder(t)' => HoldsOrder(t) \/ OrderFree
  BY PushMoves
<1>2. \A k : TokenOf(k)' = TokenOf(k)
  BY <1>1 DEF TokenOf
<1>3. Mutex'
  <2>1. \A u \in Threads : u # t => (HoldsOrder(u)' <=> HoldsOrder(u))
    BY <1>1 DEF HoldsOrder, At, Others
  <2>2. CASE HoldsOrder(t)' => HoldsOrder(t)
    BY <1>1, <2>2, MutexKept DEF Reach
  <2>3. CASE OrderFree
    BY <2>1, <2>3 DEF Mutex, OrderFree
  <2>. QED
    BY <1>1, <2>2, <2>3
<1>4. EvictionReaches'
  <2>. SUFFICES ASSUME NEW k \in Keys, map[k] # None
       PROVE  Queued(TokenOf(k))' \/ \E u \in Threads : Carries(u, TokenOf(k))'
    BY <1>1 DEF EvictionReaches, Live, TokenOf, InFlight, Queued, Carries
  <2>1. CASE Queued(TokenOf(k))
    <3>1. \E i \in DOMAIN order : order[i] = TokenOf(k)
      BY <2>1 DEF Queued
    <3>2. \E i \in DOMAIN Append(order, OwnToken(t)) : Append(order, OwnToken(t))[i] = TokenOf(k)
      BY <1>1, <3>1, QueueAppend
    <3>. QED
      BY <1>1, <1>2, <3>2 DEF Queued
  <2>3. CASE Carries(t, TokenOf(k))
    <3>1. OwnToken(t) = TokenOf(k)
      BY <2>3 DEF Carries, PushToken, At
    <3>2. \E i \in DOMAIN Append(order, OwnToken(t)) : Append(order, OwnToken(t))[i] = OwnToken(t)
      BY <1>1, QueueAppend
    <3>. QED
      BY <1>1, <1>2, <3>1, <3>2 DEF Queued
  <2>2. ASSUME NEW u \in Threads, u # t, Carries(u, TokenOf(k)) PROVE Carries(u, TokenOf(k))'
    BY <1>1, <1>2, <2>2 DEF Carries, At, OwnToken, Others
  <2>. QED
    BY <2>1, <2>2, <2>3, ReachParts DEF Reach
<1>5. CompactionKeepsAll'
  <2>. SUFFICES ASSUME NEW u \in Threads, At(u, "compact")', NEW k \in Keys,
                       map[k] # None, k \notin op'[u].left
       PROVE  \/ TokenOf(k) \in op'[u].live
              \/ \E v \in Threads : At(v, "refreshed")' /\ OwnToken(v)' = TokenOf(k)
    BY <1>1, <1>2 DEF CompactionKeepsAll, Live, TokenOf
  <2>1. u # t /\ op'[u] = op[u] /\ At(u, "compact")
    BY <1>1 DEF Others, At
  <2>2. ~At(t, "refreshed")
    BY <2>1 DEF PushToken, OrderFree, HoldsOrder, Reach, Mutex, At
  <2>3. CASE TokenOf(k) \in op[u].live
    BY <2>1, <2>3
  <2>4. ASSUME NEW v \in Threads, At(v, "refreshed"), OwnToken(v) = TokenOf(k)
        PROVE  At(v, "refreshed")' /\ OwnToken(v)' = TokenOf(k)
    BY <1>1, <2>2, <2>4 DEF Others, At, OwnToken
  <2>. QED
    BY <2>1, <2>3, <2>4, KeepsParts DEF Reach
<1>. QED
  BY <1>3, <1>4, <1>5

LEMMA ReachCollect ==
    ASSUME StoreAssumption, Reach, NEW t \in Threads, NEW j \in Keys, CollectToken(t, j)
    PROVE  Mutex' /\ EvictionReaches' /\ CompactionKeepsAll'
<1>. Typed
  BY DEF Reach
<1>1. op[t] # None /\ op[t].step = "compact" /\ op[t] \in Op /\ map' = map /\ order' = order
  BY OpNotNone DEF CollectToken, At
<1>. DEFINE live == IF map[j] = None THEN op[t].live ELSE op[t].live \cup {TokenOf(j)}
            x == [op[t] EXCEPT !.left = op[t].left \ {j}, !.live = live]
<1>2. op' = [op EXCEPT ![t] = x]
  BY DEF CollectToken, TokenOf
<1>. HIDE DEF live
<1>3. /\ x.step = "compact"
      /\ x.left = op[t].left \ {j}
      /\ x.live = live
  BY <1>1 DEF Op
<1>4. op'[t] = x /\ Others(t)
  <2>. HIDE DEF x
  <2>. QED
    BY <1>2 DEF Typed, TypeOK, Others
<1>. HIDE DEF x
<1>5. \A k : TokenOf(k)' = TokenOf(k)
  BY <1>1 DEF TokenOf
<1>6. \A u \in Threads : HoldsOrder(u)' => HoldsOrder(u)
  BY <1>1, <1>4 DEF HoldsOrder, At, Others
<1>7. Mutex'
  BY <1>6 DEF Reach, Mutex
<1>8. EvictionReaches'
  BY <1>1, <1>4, ReachesKept DEF Reach, At
<1>9. CompactionKeepsAll'
  <2>. SUFFICES ASSUME NEW u \in Threads, At(u, "compact")', NEW k \in Keys,
                       map[k] # None, k \notin op'[u].left
       PROVE  \/ TokenOf(k) \in op'[u].live
              \/ \E v \in Threads : At(v, "refreshed")' /\ OwnToken(v)' = TokenOf(k)
    BY <1>1, <1>5 DEF CompactionKeepsAll, Live, TokenOf
  <2>1. \A v \in Threads : At(v, "refreshed") =>
           At(v, "refreshed")' /\ OwnToken(v)' = OwnToken(v)
    BY <1>1, <1>4 DEF Others, At, OwnToken
  <2>2. CASE u = t /\ k = j
    BY <1>3, <1>4, <2>2 DEF live
  <2>3. CASE u = t /\ k # j
    <3>1. At(t, "compact") /\ k \notin op[t].left
      BY <1>1, <1>3, <1>4, <2>3 DEF At
    <3>2. op[t].live \subseteq op'[t].live
      BY <1>3, <1>4 DEF live
    <3>. QED
      BY <2>1, <2>3, <3>1, <3>2, KeepsParts DEF Reach
  <2>4. CASE u # t
    <3>1. op'[u] = op[u] /\ At(u, "compact")
      BY <1>4, <2>4 DEF Others, At
    <3>. QED
      BY <2>1, <3>1, KeepsParts DEF Reach
  <2>. QED
    BY <2>2, <2>3, <2>4
<1>. QED
  BY <1>7, <1>8, <1>9

LEMMA ReachCompact ==
    ASSUME StoreAssumption, Reach, NEW t \in Threads, CompactOrderQueue(t)
    PROVE  Mutex' /\ EvictionReaches' /\ CompactionKeepsAll'
<1>. Typed
  BY DEF Reach
<1>1. /\ op[t] # None
      /\ op[t].step = "compact"
      /\ op[t].left = {}
      /\ map' = map
      /\ order' \in SortedSeqs(op[t].live)
      /\ Return(t)
  BY DEF CompactOrderQueue, At
<1>2. op'[t] = None /\ Others(t)
  BY <1>1, ReturnTyped
<1>3. op[t].live \in SUBSET Token /\ IsFiniteSet(op[t].live)
  BY <1>1, OpNotNone DEF Op, Typed
<1>4. \A k : TokenOf(k)' = TokenOf(k)
  BY <1>1 DEF TokenOf
<1>5. Mutex'
  BY <1>1, <1>2, MutexKept DEF Reach, HoldsOrder, At
<1>6. \A v \in Threads : At(v, "refreshed") =>
         At(v, "refreshed")' /\ OwnToken(v)' = OwnToken(v)
  BY <1>1, <1>2 DEF Others, At, OwnToken
<1>7. EvictionReaches'
  <2>. SUFFICES ASSUME NEW k \in Keys, map[k] # None
       PROVE  Queued(TokenOf(k))' \/ \E u \in Threads : Carries(u, TokenOf(k))'
    BY <1>1 DEF EvictionReaches, Live, TokenOf, InFlight, Queued, Carries
  <2>1. At(t, "compact") /\ k \notin op[t].left
    BY <1>1 DEF At
  <2>2. CASE TokenOf(k) \in op[t].live
    <3>1. \E i \in DOMAIN order' : order'[i] = TokenOf(k)
      BY <1>1, <1>3, <2>2, SortedTyped
    <3>. QED
      BY <1>4, <3>1 DEF Queued
  <2>3. ASSUME NEW v \in Threads, At(v, "refreshed"), OwnToken(v) = TokenOf(k)
        PROVE  Carries(v, TokenOf(k))'
    BY <1>4, <1>6, <2>3 DEF Carries
  <2>. QED
    BY <2>1, <2>2, <2>3, KeepsParts DEF Reach
<1>8. CompactionKeepsAll'
  <2>. SUFFICES ASSUME NEW u \in Threads, At(u, "compact")', NEW k \in Keys,
                       map[k] # None, k \notin op'[u].left
       PROVE  \/ TokenOf(k) \in op'[u].live
              \/ \E v \in Threads : At(v, "refreshed")' /\ OwnToken(v)' = TokenOf(k)
    BY <1>1, <1>4 DEF CompactionKeepsAll, Live, TokenOf
  <2>1. op'[u] = op[u] /\ At(u, "compact")
    BY <1>2 DEF Others, At
  <2>. QED
    BY <1>6, <2>1, KeepsParts DEF Reach
<1>. QED
  BY <1>5, <1>7, <1>8

LEMMA ReachInit == ASSUME StoreAssumption, Init PROVE Reach
<1>1. Typed
  BY TypedInit
<1>2. \A t \in Threads : op[t] = None
  BY DEF Init
<1>3. Mutex /\ CompactionKeepsAll
  BY <1>2 DEF Mutex, HoldsOrder, At, CompactionKeepsAll
<1>4. EvictionReaches
  BY DEF Init, EvictionReaches, Live
<1>. QED
  BY <1>1, <1>3, <1>4 DEF Reach

\* The steps that only move a call on, end it, or remove an entry.
LEMMA ReachQuiet ==
    ASSUME StoreAssumption, Reach, NEW t \in Threads,
           Collide(t) \/ Miss(t) \/ DropCollision(t) \/ Reap(t)
    PROVE  Mutex' /\ EvictionReaches' /\ CompactionKeepsAll'
<1>. Typed
  BY DEF Reach
<1>1. CASE Collide(t) \/ Miss(t)
  <2>1. op[t] # None /\ op[t].step = "probe" /\ map' = map /\ order' = order
    BY <1>1 DEF Collide, Miss, At
  <2>2. Goto(t, "collided") \/ Goto(t, "absent")
    BY <1>1 DEF Collide, Miss
  <2>3. Others(t) /\ (op'[t].step = "collided" \/ op'[t].step = "absent")
    BY <2>1, <2>2, GotoMoves DEF PutSteps
  <2>4. ~At(t, "refreshed") /\ ~At(t, "append") /\ ~At(t, "remove") /\ ~HoldsOrder(t)'
    BY <2>1, <2>3 DEF At, HoldsOrder
  <2>. QED
    BY <2>1, <2>3, <2>4, QuietStep
<1>2. CASE DropCollision(t) \/ Reap(t)
  <2>1. /\ op[t] # None
        /\ op[t].step \in {"collided", "reap"}
        /\ order' = order
        /\ op' = [op EXCEPT ![t] = None]
        /\ Unbind(op[t].key) \/ map' = map
    BY <1>2 DEF DropCollision, Reap, At
  <2>2. op[t].key \in Keys
    BY <2>1, OpNotNone DEF Op
  <2>3. \A k \in Keys : map'[k] # None => map'[k] = map[k]
    BY <2>1, <2>2, UnbindTyped
  <2>4. Others(t) /\ op'[t] = None
    BY <2>1, EndTyped
  <2>5. ~At(t, "refreshed") /\ ~At(t, "append") /\ ~At(t, "remove") /\ ~HoldsOrder(t)'
    BY <2>1, <2>4 DEF At, HoldsOrder
  <2>. QED
    BY <2>1, <2>3, <2>4, <2>5, QuietStep
<1>. QED
  BY <1>1, <1>2

\* A thread that begins a call.
LEMMA ReachStart ==
    ASSUME StoreAssumption, Reach, NEW t \in Threads,
           (\E p \in Payloads : StartPut(t, p)) \/ (\E k \in Keys : StartGet(t, k))
    PROVE  Mutex' /\ EvictionReaches' /\ CompactionKeepsAll'
<1>. Typed
  BY DEF Reach
<1>1. op[t] = None /\ map' = map /\ order' = order
  BY DEF StartPut, StartGet
<1>2. Others(t) /\ op'[t].step \in {"probe", "reap"}
  <2>1. CASE \E p \in Payloads : StartPut(t, p)
    BY <2>1 DEF StartPut, Typed, TypeOK, Others
  <2>2. CASE \E k \in Keys : StartGet(t, k)
    BY <2>2 DEF StartGet, Typed, TypeOK, Others
  <2>. QED
    BY <2>1, <2>2
<1>3. ~At(t, "refreshed") /\ ~At(t, "append") /\ ~At(t, "remove") /\ ~HoldsOrder(t)'
  BY <1>1, <1>2 DEF At, HoldsOrder
<1>. QED
  BY <1>1, <1>2, <1>3, QuietStep

LEMMA ReachLock ==
    ASSUME StoreAssumption, Reach, NEW t \in Threads, LockOrder(t)
    PROVE  Mutex' /\ EvictionReaches' /\ CompactionKeepsAll'
<1>. Typed
  BY DEF Reach
<1>1. /\ op[t] # None
      /\ op[t].step = "absent"
      /\ map' = map
      /\ order' = order
      /\ OrderFree
      /\ Goto(t, "evict")
  BY DEF LockOrder, At
<1>2. Others(t) /\ op'[t].step = "evict"
  BY <1>1, GotoMoves DEF PutSteps
<1>3. ~At(t, "refreshed") /\ ~At(t, "append") /\ ~At(t, "remove") /\ ~At(t, "compact")'
  BY <1>1, <1>2 DEF At
<1>4. \A u \in Threads : u # t => ~HoldsOrder(u)'
  BY <1>1, <1>2 DEF OrderFree, HoldsOrder, At, Others
<1>5. Mutex'
  BY <1>4 DEF Mutex
<1>6. EvictionReaches'
  BY <1>1, <1>2, <1>3, ReachesKept DEF Reach
<1>7. CompactionKeepsAll'
  BY <1>1, <1>2, <1>3, KeepsKept DEF Reach
<1>. QED
  BY <1>5, <1>6, <1>7

LEMMA ReachStep == ASSUME StoreAssumption, Reach, [Next]_vars PROVE Reach'
<1>1. Typed'
  BY TypedStep DEF Reach
<1>. SUFFICES Mutex' /\ EvictionReaches' /\ CompactionKeepsAll'
  BY <1>1 DEF Reach
<1>2. CASE \E t \in Threads, p \in Payloads : StartPut(t, p)
  BY <1>2, ReachStart
<1>3. CASE \E t \in Threads, k \in Keys : StartGet(t, k)
  BY <1>3, ReachStart
<1>4. CASE \E t \in Threads : PutStep(t) \/ Reap(t)
  <2>1. PICK t \in Threads : PutStep(t) \/ Reap(t)
    BY <1>4
  <2>2. CASE Collide(t) \/ Miss(t) \/ DropCollision(t) \/ Reap(t)
    BY <2>2, ReachQuiet
  <2>3. CASE Refresh(t)
    BY <2>3, ReachRefresh
  <2>4. CASE LockOrder(t)
    BY <2>4, ReachLock
  <2>5. CASE PopToken(t) \/ RemovePopped(t)
    BY <2>5, ReachPop, ReachRemove
  <2>6. CASE InsertEntry(t)
    BY <2>6, ReachInsert
  <2>7. CASE PushToken(t)
    BY <2>7, ReachPush
  <2>8. CASE \E k \in Keys : CollectToken(t, k)
    BY <2>8, ReachCollect
  <2>9. CASE CompactOrderQueue(t)
    BY <2>9, ReachCompact
  <2>. QED
    BY <2>1, <2>2, <2>3, <2>4, <2>5, <2>6, <2>7, <2>8, <2>9 DEF PutStep
<1>5. CASE Tick \/ UNCHANGED vars
  <2>1. map' = map /\ order' = order /\ op' = op
    BY <1>5 DEF Tick, vars
  <2>. QED
    BY <2>1 DEF Reach, Mutex, EvictionReaches, CompactionKeepsAll, Live, InFlight, HoldsOrder,
                At, OwnToken
<1>. QED
  BY <1>2, <1>3, <1>4, <1>5 DEF Next

\* The eviction loop of put() can reach every entry of the map: its token is
\* queued, or the put() that stored it is about to queue it.
THEOREM EvictionReachesAlways == Spec => []EvictionReaches
<1>1. Init => Reach
  BY ReachInit, StoreAssumption
<1>2. Reach /\ [Next]_vars => Reach'
  BY ReachStep, StoreAssumption
<1>3. Reach => EvictionReaches
  BY DEF Reach
<1>. QED
  BY <1>1, <1>2, <1>3, PTL DEF Spec

\* compact_order_queue, which reads the map an entry at a time while refreshes
\* go on, leaves no entry without its token.
THEOREM CompactionKeepsAllAlways == Spec => []CompactionKeepsAll
<1>1. Init => Reach
  BY ReachInit, StoreAssumption
<1>2. Reach /\ [Next]_vars => Reach'
  BY ReachStep, StoreAssumption
<1>3. Reach => CompactionKeepsAll
  BY DEF Reach
<1>. QED
  BY <1>1, <1>2, <1>3, PTL DEF Spec

-----------------------------------------------------------------------------
(* The map and the queue stay bounded *)

Within == Reach /\ CapacityOverrunBound

LEMMA LiveFinite ==
    ASSUME StoreAssumption, NEW S \in SUBSET Keys
    PROVE  IsFiniteSet(S) /\ Cardinality(S) \in Nat
BY FS_Subset, FS_CardinalityType DEF StoreAssumption

LEMMA Sizes ==
    ASSUME StoreAssumption
    PROVE  /\ Capacity \in Nat \ {0}
           /\ IsFiniteSet(Threads)
           /\ Cardinality(Threads) \in Nat
           /\ Live \in SUBSET Keys
           /\ IsFiniteSet(Live) /\ Cardinality(Live) \in Nat
           /\ IsFiniteSet(Live') /\ Cardinality(Live') \in Nat
BY LiveFinite, FS_CardinalityType DEF StoreAssumption, Live

\* With no token queued, each entry has a thread about to queue its own.
LEMMA CarriersBound ==
    ASSUME StoreAssumption, Reach', order' = <<>>, \A t \in Threads : ~At(t, "remove")'
    PROVE  Cardinality(Live') <= Cardinality(Threads)
<1>1. \A k \in Live' : \E t \in Threads : op'[t].key = k
  <2>. SUFFICES ASSUME NEW k \in Live' PROVE \E t \in Threads : op'[t].key = k
    OBVIOUS
  <2>1. ~ \E i \in DOMAIN order' : TRUE
    OBVIOUS
  <2>2. PICK t \in Threads : OwnToken(t)' = [key |-> k, generation |-> map'[k].generation]
    BY <2>1 DEF Reach, EvictionReaches, InFlight
  <2>. QED
    BY <2>2 DEF OwnToken
<1>. DEFINE f == [k \in Live' |-> CHOOSE t \in Threads : op'[t].key = k]
<1>2. \A k \in Live' : f[k] \in Threads /\ op'[f[k]].key = k
  BY <1>1
<1>3. f \in [Live' -> Threads]
  BY <1>1
<1>. HIDE DEF f
<1>4. ~ \E j, k \in Live' : j # k /\ f[j] = f[k]
  BY <1>2
<1>5. ~(Cardinality(Threads) < Cardinality(Live'))
  BY <1>3, <1>4, Sizes, FS_PigeonHole
<1>. QED
  BY <1>5, Sizes

\* A step that binds no key grows no set of live entries.
LEMMA LiveShrinks ==
    ASSUME StoreAssumption, Within, Live' \subseteq Live
    PROVE  CapacityOverrunBound'
<1>1. Cardinality(Live') <= Cardinality(Live)
  BY Sizes, FS_Subset
<1>. QED
  BY <1>1, Sizes DEF Within, CapacityOverrunBound

LEMMA BoundInsert ==
    ASSUME StoreAssumption, Within, NEW t \in Threads, InsertEntry(t)
    PROVE  CapacityOverrunBound'
<1>. Typed /\ Reach
  BY DEF Within, Reach
<1>1. op[t] # None /\ op[t].step # "reap" /\ Bind(t) /\ order' = order
  BY DEF InsertEntry, At
<1>2. CASE ~Full
  <2>1. Live' \subseteq Live \cup {op[t].key}
    BY <1>1, BindTyped DEF Live
  <2>2. /\ IsFiniteSet(Live \cup {op[t].key})
        /\ Cardinality(Live \cup {op[t].key}) <= Cardinality(Live) + 1
    <3>. DEFINE more == Live \cup {op[t].key}
    <3>1. /\ IsFiniteSet(more)
          /\ Cardinality(more) = IF op[t].key \in Live THEN Cardinality(Live) ELSE Cardinality(Live) + 1
      BY Sizes, FS_AddElement
    <3>. HIDE DEF more
    <3>2. Cardinality(more) <= Cardinality(Live) + 1
      BY <3>1, Sizes
    <3>. QED
      BY <3>1, <3>2 DEF more
  <2>3. Cardinality(Live') <= Cardinality(Live \cup {op[t].key})
    BY <2>1, <2>2, FS_Subset
  <2>4. Cardinality(Live \cup {op[t].key}) \in Nat
    BY <2>2, FS_CardinalityType
  <2>5. Cardinality(Live) < Capacity
    BY <1>2, Sizes DEF Full
  <2>6. Cardinality(Live') <= Cardinality(Live) + 1
    BY <2>2, <2>3, <2>4, Sizes
  <2>7. Cardinality(Live') <= Capacity
    BY <2>5, <2>6, Sizes
  <2>. QED
    BY <2>7 DEF CapacityOverrunBound
<1>3. CASE order = <<>>
  <2>1. Reach'
    <3>1. PutStep(t)
      BY DEF PutStep
    <3>. QED
      BY <3>1, ReachStep DEF Next
  <2>2. op'[t] # None /\ op'[t].step = "append"
    BY <1>1, GotoMoves DEF InsertEntry, PutSteps
  <2>3. \A u \in Threads : ~At(u, "remove")'
    BY <2>1, <2>2 DEF Reach, Mutex, HoldsOrder, At
  <2>4. Cardinality(Live') <= Cardinality(Threads)
    BY <1>1, <1>3, <2>1, <2>3, CarriersBound
  <2>. QED
    BY <2>4 DEF CapacityOverrunBound
<1>. QED
  BY <1>2, <1>3 DEF InsertEntry

\* Every other step leaves the live keys or takes some away.
LEMMA OthersShrink ==
    ASSUME StoreAssumption, Typed, [Next]_vars, \A t \in Threads : ~InsertEntry(t)
    PROVE  Live' \subseteq Live
<1>1. CASE map' = map
  BY <1>1 DEF Live
<1>2. ASSUME NEW k \in Keys, Unbind(k) PROVE Live' \subseteq Live
  BY <1>2, UnbindTyped DEF Live
<1>3. ASSUME NEW t \in Threads, PutStep(t) \/ Reap(t) PROVE Live' \subseteq Live
  <2>1. CASE Refresh(t)
    <3>1. op[t] # None /\ op[t].step # "reap" /\ Bind(t) /\ map[op[t].key] # None
      BY <2>1 DEF Refresh, At
    <3>. QED
      BY <3>1, BindTyped DEF Live
  <2>2. CASE DropCollision(t) \/ Reap(t)
    <3>1. op[t].key \in Keys
      BY <2>2, OpNotNone DEF DropCollision, Reap, At, Op
    <3>2. Unbind(op[t].key) \/ map' = map
      BY <2>2 DEF DropCollision, Reap
    <3>. QED
      BY <1>1, <1>2, <3>1, <3>2
  <2>3. CASE RemovePopped(t)
    <3>1. op[t].popped.key \in Keys /\ (Unbind(op[t].popped.key) \/ map' = map)
      BY <2>3, RemoveMoves
    <3>. QED
      BY <1>1, <1>2, <3>1
  <2>4. CASE Collide(t) \/ Miss(t) \/ LockOrder(t) \/ PopToken(t) \/ PushToken(t)
             \/ (\E k \in Keys : CollectToken(t, k)) \/ CompactOrderQueue(t)
    BY <1>1, <2>4 DEF Collide, Miss, LockOrder, PopToken, PushToken, CollectToken, CompactOrderQueue
  <2>. QED
    BY <1>3, <2>1, <2>2, <2>3, <2>4 DEF PutStep
<1>4. CASE (\E t \in Threads, p \in Payloads : StartPut(t, p))
           \/ (\E t \in Threads, k \in Keys : StartGet(t, k)) \/ Tick \/ UNCHANGED vars
  BY <1>1, <1>4 DEF StartPut, StartGet, Tick, vars
<1>. QED
  BY <1>3, <1>4 DEF Next

LEMMA WithinStep == ASSUME StoreAssumption, Within, [Next]_vars PROVE Within'
<1>1. Reach'
  BY ReachStep DEF Within
<1>2. CapacityOverrunBound'
  <2>1. CASE \E t \in Threads : InsertEntry(t)
    BY <2>1, BoundInsert
  <2>2. CASE \A t \in Threads : ~InsertEntry(t)
    BY <2>2, OthersShrink, LiveShrinks DEF Within, Reach
  <2>. QED
    BY <2>1, <2>2
<1>. QED
  BY <1>1, <1>2 DEF Within

LEMMA WithinInit == ASSUME StoreAssumption, Init PROVE Within
<1>1. Live = {}
  BY DEF Init, Live
<1>2. Cardinality(Live) = 0
  BY <1>1, FS_EmptySet
<1>3. CapacityOverrunBound
  BY <1>2, Sizes DEF CapacityOverrunBound
<1>. QED
  BY <1>3, ReachInit DEF Within

\* The map outgrows its capacity only as far as there are threads: what the
\* eviction loop cannot reach is the refreshes in flight.
THEOREM CapacityOverrunAlwaysBound == Spec => []CapacityOverrunBound
<1>1. Init => Within
  BY WithinInit, StoreAssumption
<1>2. Within /\ [Next]_vars => Within'
  BY WithinStep, StoreAssumption
<1>3. Within => CapacityOverrunBound
  BY DEF Within
<1>. QED
  BY <1>1, <1>2, <1>3, PTL DEF Spec

-----------------------------------------------------------------------------
(* With at most two threads per slot, the queue stays bounded too *)

FewThreads == Cardinality(Threads) <= 2 * Capacity

\* What a call has collected and may still collect; only a compaction collects.
Small(t) ==
    op[t] # None =>
        /\ op[t].step # "compact" => op[t].live = {}
        /\ op[t].step = "compact" =>
              Cardinality(op[t].live) + Cardinality(Live \cap op[t].left) <= 2 * Capacity

Short == (\A t \in Threads : ~At(t, "compact")) => Len(order) <= 2 * Capacity

Bounded == Within /\ (\A t \in Threads : Small(t)) /\ Short

LEMMA LeftSizes ==
    ASSUME StoreAssumption, NEW left
    PROVE  /\ IsFiniteSet(Live \cap left) /\ Cardinality(Live \cap left) \in Nat
           /\ IsFiniteSet(Live' \cap left) /\ Cardinality(Live' \cap left) \in Nat
<1>1. Live \cap left \in SUBSET Keys /\ Live' \cap left \in SUBSET Keys
  BY DEF Live
<1>. QED
  BY <1>1, LiveFinite

LEMMA CollectedSizes ==
    ASSUME StoreAssumption, Typed, NEW t \in Threads, op[t] # None
    PROVE  IsFiniteSet(op[t].live) /\ Cardinality(op[t].live) \in Nat
BY FS_CardinalityType DEF Typed

\* A thread that does not move, while nothing is inserted unless it is elsewhere.
LEMMA SmallKept ==
    ASSUME StoreAssumption, Typed, NEW u \in Threads, Small(u), op'[u] = op[u],
           Live' \subseteq Live \/ ~At(u, "compact")
    PROVE  Small(u)'
<1>1. CASE op[u] = None \/ op[u].step # "compact"
  BY <1>1 DEF Small
<1>2. CASE op[u] # None /\ op[u].step = "compact"
  <2>1. Live' \cap op[u].left \subseteq Live \cap op[u].left
    BY <1>2 DEF At
  <2>2. Cardinality(Live' \cap op[u].left) <= Cardinality(Live \cap op[u].left)
    BY <2>1, LeftSizes, FS_Subset
  <2>. DEFINE a == Cardinality(op[u].live)
              b == Cardinality(Live \cap op[u].left)
              c == Cardinality(Live' \cap op[u].left)
  <2>3. a \in Nat /\ b \in Nat /\ c \in Nat /\ Capacity \in Nat /\ c <= b
    BY <1>2, <2>2, CollectedSizes, LeftSizes, Sizes
  <2>4. a + b <= 2 * Capacity
    BY <1>2 DEF Small
  <2>. HIDE DEF a, b, c
  <2>5. a + c <= 2 * Capacity
    BY <2>3, <2>4
  <2>. QED
    BY <1>2, <2>5 DEF Small, a, c
<1>. QED
  BY <1>1, <1>2

\* The other threads' calls, in any step.
LEMMA SmallOthers ==
    ASSUME StoreAssumption, Bounded, NEW t \in Threads, Others(t),
           Live' \subseteq Live \/ HoldsOrder(t), Small(t)'
    PROVE  \A u \in Threads : Small(u)'
<1>. SUFFICES ASSUME NEW u \in Threads, u # t PROVE Small(u)'
  OBVIOUS
<1>1. Typed /\ Mutex
  BY DEF Bounded, Within, Reach
<1>2. Live' \subseteq Live \/ ~At(u, "compact")
  BY <1>1 DEF Mutex, HoldsOrder
<1>3. op'[u] = op[u] /\ Small(u)
  BY DEF Others, Bounded
<1>. QED
  BY <1>1, <1>2, <1>3, SmallKept

\* A step that ends no compaction and does not lengthen the queue.
LEMMA ShortKept ==
    ASSUME Bounded, order' = order,
           \A u \in Threads : At(u, "compact") => At(u, "compact")'
    PROVE  Short'
BY DEF Bounded, Short

\* A step of thread t that goes on outside compaction, or ends there.
LEMMA PlainStep ==
    ASSUME StoreAssumption, Bounded, NEW t \in Threads, Others(t), order' = order,
           Live' \subseteq Live \/ HoldsOrder(t), ~At(t, "compact"), ~At(t, "compact")',
           op'[t] # None => op'[t].live = {}
    PROVE  (\A u \in Threads : Small(u)') /\ Short'
<1>1. Small(t)'
  BY DEF Small, At
<1>2. \A u \in Threads : Small(u)'
  BY <1>1, SmallOthers
<1>3. \A u \in Threads : At(u, "compact") => At(u, "compact")'
  BY DEF At, Others
<1>. QED
  BY <1>2, <1>3, ShortKept

LEMMA BoundedPlain ==
    ASSUME StoreAssumption, Bounded, [Next]_vars, NEW t \in Threads,
           Refresh(t) \/ Collide(t) \/ Miss(t) \/ DropCollision(t) \/ LockOrder(t)
               \/ InsertEntry(t) \/ Reap(t)
    PROVE  (\A u \in Threads : Small(u)') /\ Short'
<1>. Typed
  BY DEF Bounded, Within, Reach
<1>1. CASE Refresh(t) \/ Collide(t) \/ Miss(t) \/ LockOrder(t) \/ InsertEntry(t)
  <2>1. op[t] # None /\ op[t].step \in {"probe", "absent", "evict"} /\ order' = order
    BY <1>1 DEF Refresh, Collide, Miss, LockOrder, InsertEntry, At
  <2>2. PICK place \in {"refreshed", "collided", "absent", "evict", "append"} : Goto(t, place)
    BY <1>1 DEF Refresh, Collide, Miss, LockOrder, InsertEntry
  <2>3. Others(t) /\ op'[t].step = place /\ op'[t].live = op[t].live
    BY <2>1, <2>2, GotoMoves DEF PutSteps
  <2>4. op[t].live = {}
    BY <2>1 DEF Bounded, Small
  <2>5. Live' \subseteq Live \/ HoldsOrder(t)
    <3>1. CASE InsertEntry(t)
      BY <3>1 DEF InsertEntry, HoldsOrder
    <3>2. CASE ~InsertEntry(t)
      <4>1. \A u \in Threads : u # t => op'[u] = op[u]
        BY <2>3 DEF Others
      <4>2. op[t].step # "evict"
        BY <1>1, <3>2 DEF Refresh, Collide, Miss, LockOrder, At
      <4>3. \A u \in Threads : ~InsertEntry(u)
        <5>. SUFFICES ASSUME NEW u \in Threads, InsertEntry(u), u # t PROVE FALSE
          BY <3>2
        <5>1. op[u] # None /\ op[u].step = "evict" /\ Goto(u, "append")
          BY DEF InsertEntry, At
        <5>2. op'[u].step = "append"
          BY <5>1, GotoMoves DEF PutSteps
        <5>. QED
          BY <4>1, <5>1, <5>2
      <4>. QED
        BY <4>3, OthersShrink
    <3>. QED
      BY <3>1, <3>2
  <2>6. ~At(t, "compact") /\ ~At(t, "compact")'
    BY <2>1, <2>2, <2>3 DEF At
  <2>. QED
    BY <2>1, <2>3, <2>4, <2>5, <2>6, PlainStep
<1>2. CASE DropCollision(t) \/ Reap(t)
  <2>1. /\ op[t] # None
        /\ op[t].step \in {"collided", "reap"}
        /\ order' = order
        /\ op' = [op EXCEPT ![t] = None]
        /\ Unbind(op[t].key) \/ map' = map
    BY <1>2 DEF DropCollision, Reap, At
  <2>2. op[t].key \in Keys
    BY <2>1, OpNotNone DEF Op
  <2>3. Live' \subseteq Live
    BY <2>1, <2>2, UnbindTyped DEF Live
  <2>4. Others(t) /\ op'[t] = None
    BY <2>1, EndTyped
  <2>5. ~At(t, "compact") /\ ~At(t, "compact")'
    BY <2>1, <2>4 DEF At
  <2>. QED
    BY <2>1, <2>3, <2>4, <2>5, PlainStep
<1>. QED
  BY <1>1, <1>2

LEMMA BoundedStart ==
    ASSUME StoreAssumption, Bounded, NEW t \in Threads,
           (\E p \in Payloads : StartPut(t, p)) \/ (\E k \in Keys : StartGet(t, k))
    PROVE  (\A u \in Threads : Small(u)') /\ Short'
<1>. Typed
  BY DEF Bounded, Within, Reach
<1>1. op[t] = None /\ map' = map /\ order' = order
  BY DEF StartPut, StartGet
<1>2. Others(t) /\ op'[t].step \in {"probe", "reap"} /\ op'[t].live = {}
  <2>1. CASE \E p \in Payloads : StartPut(t, p)
    BY <2>1 DEF StartPut, Typed, TypeOK, Others
  <2>2. CASE \E k \in Keys : StartGet(t, k)
    BY <2>2 DEF StartGet, Typed, TypeOK, Others
  <2>. QED
    BY <2>1, <2>2
<1>3. ~At(t, "compact") /\ ~At(t, "compact")'
  BY <1>1, <1>2 DEF At
<1>. QED
  BY <1>1, <1>2, <1>3, PlainStep DEF Live

LEMMA BoundedPop ==
    ASSUME StoreAssumption, Bounded, NEW t \in Threads, PopToken(t)
    PROVE  (\A u \in Threads : Small(u)') /\ Short'
<1>. Typed
  BY DEF Bounded, Within, Reach
<1>1. /\ op[t] # None /\ op[t].step = "evict"
      /\ op'[t].step = "remove" /\ op'[t].live = op[t].live
      /\ Others(t)
      /\ order \in Seq(Token) /\ order # <<>> /\ order' = Tail(order)
  BY PopMoves
<1>2. Len(order') = Len(order) - 1 /\ Len(order) \in Nat
  BY <1>1, HeadTailProperties, LenProperties
<1>3. Live' = Live
  BY DEF PopToken, Live
<1>4. Small(t)'
  BY <1>1 DEF Bounded, Small
<1>5. \A u \in Threads : Small(u)'
  BY <1>1, <1>3, <1>4, SmallOthers
<1>6. Short'
  <2>. SUFFICES ASSUME \A u \in Threads : ~At(u, "compact")' PROVE Len(order') <= 2 * Capacity
    BY DEF Short
  <2>1. \A u \in Threads : ~At(u, "compact")
    BY <1>1 DEF At, Others
  <2>2. Len(order) <= 2 * Capacity
    BY <2>1 DEF Bounded, Short
  <2>. QED
    BY <1>2, <2>2, Sizes
<1>. QED
  BY <1>5, <1>6

LEMMA BoundedRemove ==
    ASSUME StoreAssumption, Bounded, NEW t \in Threads, RemovePopped(t)
    PROVE  (\A u \in Threads : Small(u)') /\ Short'
<1>. Typed
  BY DEF Bounded, Within, Reach
<1>1. /\ op[t] # None /\ op[t].step = "remove"
      /\ op'[t].step = "evict" /\ op'[t].live = op[t].live
      /\ Others(t)
      /\ order' = order
      /\ \A k \in Keys : map'[k] # None => map'[k] = map[k]
  BY RemoveMoves
<1>2. Live' \subseteq Live
  BY <1>1 DEF Live
<1>3. op[t].live = {}
  BY <1>1 DEF Bounded, Small
<1>4. ~At(t, "compact") /\ ~At(t, "compact")'
  BY <1>1 DEF At
<1>. QED
  BY <1>1, <1>2, <1>3, <1>4, PlainStep

LEMMA BoundedPush ==
    ASSUME StoreAssumption, FewThreads, Bounded, NEW t \in Threads, PushToken(t)
    PROVE  (\A u \in Threads : Small(u)') /\ Short'
<1>. Typed
  BY DEF Bounded, Within, Reach
<1>1. op[t] # None /\ op[t].step # "compact" /\ map' = map
  BY DEF PushToken, At
<1>2. op[t].live = {}
  BY <1>1 DEF Bounded, Small
<1>3. Live' = Live
  BY <1>1 DEF Live
<1>4. CASE Overgrown(order')
  <2>. DEFINE x == [op[t] EXCEPT !.step = "compact", !.left = Keys]
  <2>1. op[t] \in Op
    BY <1>1, OpNotNone
  <2>2. x \in Op /\ x.step = "compact" /\ x.left = Keys /\ x.live = {}
    BY <1>2, <2>1 DEF Op
  <2>3. op' = [op EXCEPT ![t] = x]
    BY <1>4 DEF PushToken
  <2>. HIDE DEF x
  <2>4. op'[t] = x /\ Others(t) /\ x # None
    BY <2>2, <2>3, SetMoves DEF StoreAssumption
  <2>5. Live' \cap Keys = Live
    BY <1>3 DEF Live
  <2>6. Cardinality(Live) <= 2 * Capacity
    BY Sizes DEF Bounded, Within, CapacityOverrunBound, FewThreads
  <2>7. 0 + Cardinality(Live' \cap Keys) <= 2 * Capacity
    <3>1. Cardinality(Live' \cap Keys) = Cardinality(Live)
      BY <2>5
    <3>2. Cardinality(Live) \in Nat
      BY Sizes
    <3>. QED
      BY <2>6, <3>1, <3>2
  <2>8. Small(t)'
    BY <2>2, <2>4, <2>7, FS_EmptySet DEF Small
  <2>9. Short'
    BY <2>2, <2>4 DEF Short, At
  <2>. QED
    BY <1>3, <2>4, <2>8, <2>9, SmallOthers
<1>5. CASE ~Overgrown(order')
  <2>1. op'[t] = None /\ Others(t)
    BY <1>1, <1>5, ReturnTyped DEF PushToken
  <2>2. Small(t)'
    BY <2>1 DEF Small
  <2>3. Len(order') \in Nat
    <3>1. order' \in Seq(Token)
      BY PutStepTyped DEF PutStep, Typed, TypeOK
    <3>. QED
      BY <3>1, LenProperties
  <2>4. Len(order') <= 2 * Capacity
    BY <1>5, <2>3, Sizes DEF Overgrown
  <2>5. Short'
    BY <2>4 DEF Short
  <2>. QED
    BY <1>3, <2>1, <2>2, <2>5, SmallOthers
<1>. QED
  BY <1>4, <1>5

LEMMA BoundedCollect ==
    ASSUME StoreAssumption, Bounded, NEW t \in Threads, NEW j \in Keys, CollectToken(t, j)
    PROVE  (\A u \in Threads : Small(u)') /\ Short'
<1>. Typed
  BY DEF Bounded, Within, Reach
<1>1. /\ op[t] # None
      /\ op[t].step = "compact"
      /\ op[t] \in Op
      /\ j \in op[t].left
      /\ map' = map
      /\ order' = order
  BY OpNotNone DEF CollectToken, At
<1>. DEFINE old == op[t].live
            live == IF map[j] = None THEN old ELSE old \cup {TokenOf(j)}
            left == op[t].left \ {j}
            x == [op[t] EXCEPT !.left = left, !.live = live]
<1>2. op' = [op EXCEPT ![t] = x]
  BY DEF CollectToken, TokenOf
<1>. HIDE DEF live, left
<1>3. x.step = "compact" /\ x.left = left /\ x.live = live
  BY <1>1 DEF Op
<1>. HIDE DEF x
<1>4. op'[t] = x /\ Others(t)
  BY <1>2 DEF Typed, TypeOK, Others
<1>5. Live' = Live
  BY <1>1 DEF Live
<1>. DEFINE a == Cardinality(old)
            b == Cardinality(Live \cap op[t].left)
            c == Cardinality(live)
            d == Cardinality(Live \cap left)
<1>6. a \in Nat /\ b \in Nat /\ d \in Nat /\ IsFiniteSet(old) /\ a + b <= 2 * Capacity
  BY <1>1, CollectedSizes, LeftSizes DEF Bounded, Small
<1>7. c + d <= 2 * Capacity
  <2>1. CASE map[j] = None
    <3>1. live = old /\ Live \cap left = Live \cap op[t].left
      BY <2>1 DEF live, left, Live
    <3>. QED
      BY <1>6, <3>1
  <2>2. CASE map[j] # None
    <3>1. live = old \cup {TokenOf(j)} /\ Live \cap left = (Live \cap op[t].left) \ {j}
      BY <2>2 DEF live, left
    <3>2. j \in Live \cap op[t].left
      BY <1>1, <2>2 DEF Live
    <3>3. d = b - 1
      <4>. DEFINE rest == Live \cap op[t].left
      <4>1. IsFiniteSet(rest) /\ j \in rest
        BY <3>2, LeftSizes
      <4>. HIDE DEF rest
      <4>2. Cardinality(rest \ {j}) = Cardinality(rest) - 1
        BY <4>1, FS_RemoveElement
      <4>. QED
        BY <3>1, <4>2 DEF rest
    <3>4. IsFiniteSet(live) /\ (c = a \/ c = a + 1)
      <4>. HIDE DEF old
      <4>. QED
        BY <1>6, <3>1, FS_AddElement
    <3>. HIDE DEF a, b, c, d
    <3>5. Capacity \in Nat
      BY Sizes
    <3>. QED
      BY <1>6, <3>3, <3>4, <3>5
  <2>. QED
    BY <2>1, <2>2
<1>8. Small(t)'
  BY <1>3, <1>4, <1>5, <1>7 DEF Small
<1>9. \A u \in Threads : At(u, "compact") => At(u, "compact")'
  <2>1. op'[t] # None
    <3>1. op'[t].step = "compact" /\ op'[t] \in Op
      <4>1. Typed'
        BY PutStepTyped DEF PutStep
      <4>2. op'[t] \in Op \cup {None}
        BY <4>1 DEF Typed, TypeOK
      <4>3. x \in Op
        <5>1. live \subseteq Token
          <6>1. old \subseteq Token
            BY <1>1 DEF Op
          <6>2. map[j] # None => TokenOf(j) \in Token
            BY DEF TokenOf, Token, Typed, TypeOK, Entry
          <6>. HIDE DEF old
          <6>. QED
            BY <6>1, <6>2 DEF live
        <5>2. left \subseteq Keys
          BY <1>1 DEF Op, left
        <5>. QED
          BY <1>1, <5>1, <5>2 DEF Op, x
      <4>. QED
        BY <1>3, <1>4, <4>3
    <3>. QED
      BY <3>1 DEF StoreAssumption
  <2>. QED
    BY <1>3, <1>4, <2>1 DEF At, Others
<1>. QED
  BY <1>1, <1>4, <1>5, <1>8, <1>9, SmallOthers, ShortKept

LEMMA BoundedCompact ==
    ASSUME StoreAssumption, Bounded, NEW t \in Threads, CompactOrderQueue(t)
    PROVE  (\A u \in Threads : Small(u)') /\ Short'
<1>. Typed
  BY DEF Bounded, Within, Reach
<1>1. /\ op[t] # None
      /\ op[t].step = "compact"
      /\ op[t].left = {}
      /\ map' = map
      /\ order' \in SortedSeqs(op[t].live)
      /\ Return(t)
  BY DEF CompactOrderQueue, At
<1>2. op'[t] = None /\ Others(t)
  BY <1>1, ReturnTyped
<1>3. op[t].live \in SUBSET Token /\ IsFiniteSet(op[t].live)
  BY <1>1, OpNotNone DEF Op, Typed
<1>4. Len(order') = Cardinality(op[t].live)
  BY <1>1, <1>3, SortedTyped
<1>5. Live \cap op[t].left = {} /\ Live' = Live
  BY <1>1 DEF Live
<1>6. Cardinality(op[t].live) + 0 <= 2 * Capacity
  BY <1>1, <1>5, FS_EmptySet DEF Bounded, Small
<1>7. Len(order') <= 2 * Capacity
  BY <1>1, <1>4, <1>6, CollectedSizes, Sizes
<1>8. Short'
  BY <1>7 DEF Short
<1>9. Small(t)'
  BY <1>2 DEF Small
<1>. QED
  BY <1>2, <1>5, <1>8, <1>9, SmallOthers

LEMMA BoundedStep == ASSUME StoreAssumption, FewThreads, Bounded, [Next]_vars PROVE Bounded'
<1>1. Within'
  BY WithinStep DEF Bounded
<1>. SUFFICES (\A u \in Threads : Small(u)') /\ Short'
  BY <1>1 DEF Bounded
<1>2. CASE (\E t \in Threads, p \in Payloads : StartPut(t, p))
           \/ (\E t \in Threads, k \in Keys : StartGet(t, k))
  BY <1>2, BoundedStart
<1>3. CASE \E t \in Threads : PutStep(t) \/ Reap(t)
  <2>1. PICK t \in Threads : PutStep(t) \/ Reap(t)
    BY <1>3
  <2>2. CASE Refresh(t) \/ Collide(t) \/ Miss(t) \/ DropCollision(t) \/ LockOrder(t)
             \/ InsertEntry(t) \/ Reap(t)
    BY <2>2, BoundedPlain
  <2>3. CASE PopToken(t) \/ RemovePopped(t)
    BY <2>3, BoundedPop, BoundedRemove
  <2>4. CASE PushToken(t)
    BY <2>4, BoundedPush
  <2>5. CASE \E k \in Keys : CollectToken(t, k)
    BY <2>5, BoundedCollect
  <2>6. CASE CompactOrderQueue(t)
    BY <2>6, BoundedCompact
  <2>. QED
    BY <2>1, <2>2, <2>3, <2>4, <2>5, <2>6 DEF PutStep
<1>4. CASE Tick \/ UNCHANGED vars
  <2>1. map' = map /\ order' = order /\ op' = op
    BY <1>4 DEF Tick, vars
  <2>. QED
    BY <2>1 DEF Bounded, Small, Short, Live, At
<1>. QED
  BY <1>2, <1>3, <1>4 DEF Next

LEMMA BoundedInit == ASSUME StoreAssumption, Init PROVE Bounded
<1>1. Within
  BY WithinInit
<1>2. \A t \in Threads : Small(t)
  BY DEF Init, Small
<1>3. Len(order) = 0
  BY DEF Init
<1>4. Short
  BY <1>3, Sizes DEF Short
<1>. QED
  BY <1>1, <1>2, <1>4 DEF Bounded

\* With at most two threads per slot of capacity, tombstones never make the
\* token queue longer than twice the capacity while no put() is under the
\* order mutex.
THEOREM QueueAlwaysBounded ==
    ASSUME FewThreads
    PROVE  Spec => []QueueBounded
<1>1. Init => Bounded
  BY BoundedInit, StoreAssumption
<1>2. Bounded /\ [Next]_vars => Bounded'
  BY BoundedStep, StoreAssumption
<1>3. Bounded => QueueBounded
  BY DEF Bounded, Short, QueueBounded, OrderFree, HoldsOrder
<1>. QED
  BY <1>1, <1>2, <1>3, PTL DEF Spec

\* The token queue stays well formed, reaches every entry and keeps bounded
\* tombstones, with at most two threads per slot of capacity.
THEOREM QueueStaysSound ==
    ASSUME FewThreads
    PROVE  Spec => []QueueSound
<1>1. TypeOK /\ EvictionReaches /\ QueueBounded => QueueSound
  BY DEF QueueSound
<1>. QED
  BY <1>1, EngineTypeCorrect, EvictionReachesAlways, QueueAlwaysBounded, PTL

-----------------------------------------------------------------------------
(* What was put stays for its TTL *)

\* A promise is kept by the entry itself: it was made when that entry was stored.
Kept ==
    \A k \in Keys : promise[k] # None =>
        /\ map[k] # None
        /\ map[k].payload = promise[k].payload
        /\ promise[k].until = map[k].inserted + Ttl

Honest == Typed /\ Kept

LEMMA KeptBind ==
    ASSUME StoreAssumption, Honest, NEW t \in Threads, op[t] # None, op[t].step # "reap", Bind(t)
    PROVE  Kept'
<1>. Typed
  BY DEF Honest
<1>1. /\ op[t].key \in Keys
      /\ OwnEntry(t) \in Entry
      /\ OwnEntry(t).payload = op[t].payload
      /\ OwnEntry(t).inserted = now
  BY OwnTyped
<1>2. /\ map'[op[t].key] = OwnEntry(t)
      /\ \A k \in Keys \ {op[t].key} : map'[k] = map[k]
  BY BindTyped
<1>3. /\ promise'[op[t].key] = [payload |-> op[t].payload, until |-> now + Ttl]
      /\ \A k \in Keys \ {op[t].key} : promise'[k] = promise[k]
  BY <1>1 DEF Bind, Typed, TypeOK
<1>4. OwnEntry(t) # None
  BY <1>1 DEF StoreAssumption
<1>5. \A k \in Keys : k = op[t].key =>
         /\ map'[k] # None
         /\ map'[k].payload = promise'[k].payload
         /\ promise'[k].until = map'[k].inserted + Ttl
  BY <1>1, <1>2, <1>3, <1>4
<1>. QED
  BY <1>2, <1>3, <1>5 DEF Honest, Kept

LEMMA KeptUnbind ==
    ASSUME Honest, NEW k \in Keys, Unbind(k) \/ UNCHANGED <<map, promise>>
    PROVE  Kept'
<1>1. CASE Unbind(k)
  <2>1. /\ promise'[k] = None
        /\ \A j \in Keys \ {k} : promise'[j] = promise[j] /\ map'[j] = map[j]
    BY <1>1 DEF Unbind, Honest, Typed, TypeOK
  <2>. QED
    BY <2>1 DEF Honest, Kept
<1>2. CASE UNCHANGED <<map, promise>>
  BY <1>2 DEF Honest, Kept
<1>. QED
  BY <1>1, <1>2

LEMMA HonestStep == ASSUME StoreAssumption, Honest, [Next]_vars PROVE Honest'
<1>. Typed
  BY DEF Honest
<1>1. Typed'
  BY TypedStep
<1>. SUFFICES Kept'
  BY <1>1 DEF Honest
<1>2. CASE UNCHANGED <<map, promise>>
  BY <1>2 DEF Honest, Kept
<1>3. CASE \E t \in Threads : PutStep(t) \/ Reap(t)
  <2>1. PICK t \in Threads : PutStep(t) \/ Reap(t)
    BY <1>3
  <2>2. CASE Refresh(t) \/ InsertEntry(t)
    <3>1. op[t] # None /\ op[t].step # "reap" /\ Bind(t)
      BY <2>2 DEF Refresh, InsertEntry, At
    <3>. QED
      BY <3>1, KeptBind
  <2>3. CASE DropCollision(t) \/ Reap(t)
    <3>1. op[t].key \in Keys
      BY <2>3, OpNotNone DEF DropCollision, Reap, At, Op
    <3>2. Unbind(op[t].key) \/ UNCHANGED <<map, promise>>
      BY <2>3 DEF DropCollision, Reap
    <3>. QED
      BY <3>1, <3>2, KeptUnbind
  <2>4. CASE RemovePopped(t)
    <3>1. op[t].popped.key \in Keys /\ (Unbind(op[t].popped.key) \/ UNCHANGED <<map, promise>>)
      BY <2>4, RemoveMoves
    <3>. QED
      BY <3>1, KeptUnbind
  <2>5. CASE Collide(t) \/ Miss(t) \/ LockOrder(t) \/ PopToken(t) \/ PushToken(t)
             \/ (\E k \in Keys : CollectToken(t, k)) \/ CompactOrderQueue(t)
    BY <1>2, <2>5 DEF Collide, Miss, LockOrder, PopToken, PushToken, CollectToken, CompactOrderQueue
  <2>. QED
    BY <2>1, <2>2, <2>3, <2>4, <2>5 DEF PutStep
<1>4. CASE (\E t \in Threads, p \in Payloads : StartPut(t, p))
           \/ (\E t \in Threads, k \in Keys : StartGet(t, k)) \/ Tick \/ UNCHANGED vars
  BY <1>2, <1>4 DEF StartPut, StartGet, Tick, vars
<1>. QED
  BY <1>3, <1>4 DEF Next

\* What a put() stored, and nothing evicted, dropped or overwrote, is there
\* and unexpired until its TTL is over: no expiry removes a refreshed entry.
THEOREM PromiseAlwaysKept == Spec => []PromiseKept
<1>1. Init => Honest
  BY TypedInit, StoreAssumption DEF Init, Honest, Kept
<1>2. Honest /\ [Next]_vars => Honest'
  BY HonestStep, StoreAssumption
<1>3. Honest => PromiseKept
  <2>. SUFFICES ASSUME Honest, NEW k \in Keys, promise[k] # None, now <= promise[k].until
       PROVE  map[k] # None /\ map[k].payload = promise[k].payload /\ ~Expired(map[k])
    BY DEF PromiseKept
  <2>1. /\ map[k] # None
        /\ map[k].payload = promise[k].payload
        /\ promise[k].until = map[k].inserted + Ttl
    BY DEF Honest, Kept
  <2>2. map[k].inserted \in Nat /\ now \in Nat /\ Ttl \in Nat
    BY <2>1, StoreAssumption DEF Honest, Typed, TypeOK, Entry, Times, StoreAssumption
  <2>3. now - map[k].inserted <= Ttl
    BY <2>1, <2>2
  <2>. QED
    BY <2>1, <2>2, <2>3 DEF Expired
<1>. QED
  BY <1>1, <1>2, <1>3, PTL DEF Spec

-----------------------------------------------------------------------------
(* Eviction is first in, first out *)

\* Thread t is in a put().
Putting(t) == op[t] # None /\ op[t].step # "reap"

\* Every generation in use was handed out.
Issued ==
    /\ \A i \in DOMAIN order : order[i].generation < generation
    /\ \A k \in Keys : map[k] # None => map[k].generation < generation
    /\ \A t \in Threads : Putting(t) => op[t].generation < generation
    /\ \A t \in Threads : op[t] # None => \A x \in op[t].live : x.generation < generation
    /\ \A t \in Threads : At(t, "remove") => op[t].popped.generation < generation

\* ... to one put().
Apart == \A t, u \in Threads : Putting(t) /\ Putting(u) /\ op[t].generation = op[u].generation => t = u

\* The token of k is queued, behind tokens handed out before the counter stood at n.
Behind(k, n) ==
    \E i \in DOMAIN order : order[i] = TokenOf(k) /\ \A j \in 1..i : order[j].generation < n

\* The eviction loop of a put() has popped x.
Popped(x) == \E t \in Threads : At(t, "remove") /\ op[t].popped = x

\* The put() that stored the entry of k is over, and its token is queued, or popped.
Settled(k) ==
    /\ \A t \in Threads : Putting(t) => op[t].generation # map[k].generation
    /\ Behind(k, returned[k]) \/ Popped(TokenOf(k))

\* The popped token was handed out before any put() that has returned did so.
Oldest ==
    \A t \in Threads : At(t, "remove") =>
        \A k \in Keys : map[k] # None /\ returned[k] # None =>
            op[t].popped.generation < returned[k]

Fifo ==
    /\ Reach
    /\ Issued
    /\ Apart
    /\ \A k \in Keys : map[k] # None /\ returned[k] # None => Settled(k)
    /\ Oldest

LEMMA FifoTypes ==
    ASSUME StoreAssumption, Typed
    PROVE  /\ generation \in Nat
           /\ order \in Seq(Token)
           /\ \A i \in DOMAIN order : order[i] \in Token /\ order[i].generation \in Nat
           /\ \A k \in Keys : map[k] # None => map[k].generation \in Nat
           /\ \A t \in Threads : Putting(t) => op[t].generation \in Nat
           /\ \A t \in Threads : op[t] # None =>
                 op[t].live \subseteq Token /\ \A x \in op[t].live : x.generation \in Nat
           /\ \A t \in Threads : At(t, "remove") => op[t].popped.generation \in Nat
           /\ returned \in [Keys -> Nat \cup {None}]
<1>1. \A i \in DOMAIN order : order[i] \in Token
  BY DEF Typed, TypeOK
<1>2. \A x \in Token : x.generation \in Nat
  BY DEF Token, Generations, StoreAssumption
<1>3. \A k \in Keys : map[k] # None => map[k].generation \in Nat
  BY DEF Typed, TypeOK, Entry, Generations, StoreAssumption
<1>4. \A t \in Threads : Putting(t) => op[t].generation \in Nat
  BY DEF Typed, Putting, Generations, StoreAssumption
<1>5. \A t \in Threads : op[t] # None => op[t].live \subseteq Token
  BY OpNotNone DEF Op
<1>6. \A t \in Threads : At(t, "remove") => op[t].popped.generation \in Nat
  BY <1>2 DEF At, Typed
<1>. QED
  BY <1>1, <1>2, <1>3, <1>4, <1>5, <1>6 DEF Typed, TypeOK

\* A step that leaves the queue alone, binds an entry only together with forgetting that its
\* put() has returned, lets no put() begin, and gives up a popped token only with its entry.
LEMMA FifoKept ==
    ASSUME StoreAssumption, Fifo, Reach', order' = order, generation' = generation,
           \A k \in Keys : map'[k] # None =>
              \/ map'[k] = map[k] /\ returned'[k] = returned[k]
              \/ returned'[k] = None /\ map'[k].generation < generation,
           \A t \in Threads : Putting(t)' => Putting(t) /\ op'[t].generation = op[t].generation,
           \A t \in Threads : op'[t] # None => \A x \in op'[t].live : x.generation < generation,
           \A t \in Threads : At(t, "remove")' => At(t, "remove") /\ op'[t].popped = op[t].popped,
           \A t \in Threads : At(t, "remove") =>
              \/ At(t, "remove")' /\ op'[t].popped = op[t].popped
              \/ \A k \in Keys : map'[k] # None => TokenOf(k) # op[t].popped
    PROVE  Fifo'
<1>1. Issued'
  BY DEF Fifo, Issued
<1>2. Apart'
  BY DEF Fifo, Apart
<1>3. ASSUME NEW k \in Keys, map'[k] # None, returned'[k] # None PROVE Settled(k)'
  <2>1. map'[k] = map[k] /\ returned'[k] = returned[k]
    BY <1>3
  <2>2. Settled(k)
    BY <1>3, <2>1 DEF Fifo
  <2>3. TokenOf(k)' = TokenOf(k)
    BY <2>1 DEF TokenOf
  <2>4. Behind(k, returned[k]) => Behind(k, returned[k])'
    BY <2>1, <2>3 DEF Behind
  <2>5. Popped(TokenOf(k)) => Popped(TokenOf(k))'
    BY <1>3, <2>3 DEF Popped
  <2>6. \A t \in Threads : Putting(t)' => op'[t].generation # map'[k].generation
    BY <2>1, <2>2 DEF Settled
  <2>. QED
    BY <2>2, <2>4, <2>5, <2>6 DEF Settled
<1>4. Oldest'
  BY DEF Fifo, Oldest
<1>. QED
  BY <1>1, <1>2, <1>3, <1>4 DEF Fifo

\* A put() that begins has a generation of its own.
LEMMA FifoStart ==
    ASSUME StoreAssumption, Fifo, Reach', NEW t \in Threads, NEW p \in Payloads, StartPut(t, p)
    PROVE  Fifo'
<1>. Typed
  BY DEF Fifo, Reach
<1>1. /\ generation' = generation + 1 /\ generation \in Nat
      /\ op[t] = None /\ UNCHANGED <<map, order, returned>>
  BY FifoTypes DEF StartPut
<1>2. Others(t) /\ op'[t].generation = generation /\ op'[t].live = {} /\ op'[t].step = "probe"
  BY DEF StartPut, Typed, TypeOK, Others
<1>9. \A u \in Threads : At(u, "remove")' <=> At(u, "remove") /\ op'[u].popped = op[u].popped
  BY <1>1, <1>2 DEF At, Others
<1>3. \A n \in Nat : n < generation => n < generation'
  BY <1>1
<1>4. Issued'
  <2>1. \A i \in DOMAIN order' : order'[i].generation < generation'
    BY <1>1, <1>3, FifoTypes DEF Fifo, Issued
  <2>2. \A k \in Keys : map'[k] # None => map'[k].generation < generation'
    BY <1>1, <1>3, FifoTypes DEF Fifo, Issued
  <2>3. ASSUME NEW u \in Threads, Putting(u)' PROVE op'[u].generation < generation'
    <3>1. CASE u = t
      BY <1>1, <1>2, <3>1
    <3>2. CASE u # t
      <4>1. op'[u] = op[u] /\ Putting(u)
        BY <1>2, <2>3, <3>2 DEF Others, Putting
      <4>2. op[u].generation \in Nat /\ op[u].generation < generation
        BY <4>1, FifoTypes DEF Fifo, Issued
      <4>. QED
        BY <1>3, <4>1, <4>2
    <3>. QED
      BY <3>1, <3>2
  <2>4. ASSUME NEW u \in Threads, op'[u] # None, NEW x \in op'[u].live PROVE x.generation < generation'
    <3>1. u # t /\ op'[u] = op[u]
      BY <1>2, <2>4 DEF Others
    <3>2. x.generation \in Nat /\ x.generation < generation
      BY <2>4, <3>1, FifoTypes DEF Fifo, Issued
    <3>. QED
      BY <1>3, <3>2
  <2>5. ASSUME NEW u \in Threads, At(u, "remove")' PROVE op'[u].popped.generation < generation'
    <3>1. At(u, "remove") /\ op'[u].popped = op[u].popped
      BY <1>9, <2>5
    <3>2. op[u].popped.generation \in Nat /\ op[u].popped.generation < generation
      BY <3>1, FifoTypes DEF Fifo, Issued
    <3>. QED
      BY <1>3, <3>1, <3>2
  <2>. QED
    BY <2>1, <2>2, <2>3, <2>4, <2>5 DEF Issued
<1>5. \A u \in Threads \ {t} : Putting(u)' => Putting(u) /\ op'[u].generation = op[u].generation
  BY <1>2 DEF Others, Putting
<1>6. \A u \in Threads \ {t} : Putting(u)' => op'[u].generation # op'[t].generation
  <2>. SUFFICES ASSUME NEW u \in Threads \ {t}, Putting(u)' PROVE op[u].generation # generation
    BY <1>2, <1>5
  <2>1. op[u].generation \in Nat /\ op[u].generation < generation
    BY <1>5, FifoTypes DEF Fifo, Issued
  <2>. QED
    BY <1>1, <2>1
<1>7. Apart'
  BY <1>5, <1>6 DEF Fifo, Apart
<1>8. ASSUME NEW k \in Keys, map'[k] # None, returned'[k] # None PROVE Settled(k)'
  <2>1. Settled(k) /\ TokenOf(k)' = TokenOf(k)
    BY <1>1, <1>8 DEF Fifo, TokenOf
  <2>2. map[k].generation \in Nat /\ map[k].generation < generation
    BY <1>1, <1>8, FifoTypes DEF Fifo, Issued
  <2>3. generation # map[k].generation
    BY <1>1, <2>2
  <2>4. \A u \in Threads : Putting(u)' => op'[u].generation # map'[k].generation
    BY <1>1, <1>2, <1>5, <2>1, <2>3 DEF Settled
  <2>5. CASE Behind(k, returned[k])
    <3>1. Behind(k, returned[k])'
      BY <1>1, <2>1, <2>5 DEF Behind
    <3>. QED
      BY <1>1, <2>4, <3>1 DEF Settled
  <2>6. CASE Popped(TokenOf(k))
    <3>1. Popped(TokenOf(k))'
      BY <1>1, <1>2, <2>1, <2>6 DEF Popped, At, Others
    <3>. QED
      BY <1>1, <2>4, <3>1 DEF Settled
  <2>. QED
    BY <2>1, <2>5, <2>6 DEF Settled
<1>10. Oldest'
  BY <1>1, <1>9 DEF Fifo, Oldest
<1>. QED
  BY <1>4, <1>7, <1>8, <1>10 DEF Fifo

\* An entry goes in, or is refreshed: its put() has not returned.
LEMMA FifoBind ==
    ASSUME StoreAssumption, Fifo, Reach', NEW t \in Threads, Refresh(t) \/ InsertEntry(t)
    PROVE  Fifo'
<1>. Typed
  BY DEF Fifo, Reach
<1>1. /\ op[t] # None /\ op[t].step # "reap" /\ Bind(t) /\ order' = order /\ generation' = generation
      /\ Goto(t, "refreshed") \/ Goto(t, "append")
  BY DEF Refresh, InsertEntry, At
<1>2. /\ op'[t] # None /\ op'[t].step \in {"refreshed", "append"}
      /\ op'[t].generation = op[t].generation /\ op'[t].live = op[t].live
      /\ Others(t)
  BY <1>1, GotoMoves DEF PutSteps
<1>3. op[t].key \in Keys /\ OwnEntry(t).generation = op[t].generation
  BY <1>1, OwnTyped
<1>4. map'[op[t].key] = OwnEntry(t) /\ \A k \in Keys \ {op[t].key} : map'[k] = map[k]
  BY <1>1, BindTyped
<1>5. returned' = [returned EXCEPT ![op[t].key] = None]
  BY <1>1 DEF Bind
<1>6. \A k \in Keys : returned'[k] = IF k = op[t].key THEN None ELSE returned[k]
  BY <1>3, <1>5, FifoTypes
<1>7. op[t].generation < generation
  BY <1>1 DEF Fifo, Issued, Putting
<1>8. \A u \in Threads : Putting(u)' => Putting(u) /\ op'[u].generation = op[u].generation
  BY <1>1, <1>2 DEF Others, Putting
<1>9. \A u \in Threads : op'[u] # None => \A x \in op'[u].live : x.generation < generation
  BY <1>1, <1>2 DEF Others, Fifo, Issued
<1>10. \A k \in Keys : map'[k] # None =>
          \/ map'[k] = map[k] /\ returned'[k] = returned[k]
          \/ returned'[k] = None /\ map'[k].generation < generation
  BY <1>3, <1>4, <1>6, <1>7
<1>11. /\ \A u \in Threads : At(u, "remove")' => At(u, "remove") /\ op'[u].popped = op[u].popped
      /\ \A u \in Threads : At(u, "remove") => At(u, "remove")' /\ op'[u].popped = op[u].popped
  <2>1. ~At(t, "remove") /\ ~At(t, "remove")'
    BY <1>2 DEF Refresh, InsertEntry, At
  <2>. QED
    BY <1>2, <2>1 DEF At, Others
<1>. QED
  BY <1>1, <1>8, <1>9, <1>10, <1>11, FifoKept

\* The steps that bind nothing and leave the queue alone.
LEMMA FifoPlain ==
    ASSUME StoreAssumption, Fifo, Reach', NEW t \in Threads,
           \/ Collide(t) \/ Miss(t) \/ LockOrder(t) \/ DropCollision(t) \/ Reap(t)
           \/ \E k \in Keys : StartGet(t, k)
    PROVE  Fifo'
<1>. Typed
  BY DEF Fifo, Reach
<1>1. order' = order /\ generation' = generation
  BY DEF Collide, Miss, LockOrder, DropCollision, Reap, StartGet
<1>2. \A k \in Keys : map'[k] # None => map'[k] = map[k] /\ returned'[k] = returned[k]
  <2>1. CASE Collide(t) \/ Miss(t) \/ LockOrder(t) \/ \E k \in Keys : StartGet(t, k)
    BY <2>1 DEF Collide, Miss, LockOrder, StartGet
  <2>2. CASE DropCollision(t) \/ Reap(t)
    <3>1. op[t].key \in Keys
      BY <2>2, OpNotNone DEF DropCollision, Reap, At, Op
    <3>2. Unbind(op[t].key) \/ UNCHANGED <<map, returned>>
      BY <2>2 DEF DropCollision, Reap
    <3>. QED
      BY <3>1, <3>2 DEF Unbind, Typed, TypeOK
  <2>. QED
    BY <2>1, <2>2
<1>3. /\ Others(t)
      /\ Putting(t)' => Putting(t) /\ op'[t].generation = op[t].generation
      /\ op'[t] # None => op'[t].live = {} \/ (op[t] # None /\ op'[t].live = op[t].live)
      /\ ~At(t, "remove") /\ ~At(t, "remove")'
  <2>1. CASE Collide(t) \/ Miss(t) \/ LockOrder(t)
    <3>1. op[t] # None /\ op[t].step # "reap"
      BY <2>1 DEF Collide, Miss, LockOrder, At
    <3>2. Goto(t, "collided") \/ Goto(t, "absent") \/ Goto(t, "evict")
      BY <2>1 DEF Collide, Miss, LockOrder
    <3>3. /\ Others(t) /\ op'[t].generation = op[t].generation /\ op'[t].live = op[t].live
          /\ op'[t].step \in {"collided", "absent", "evict"}
      BY <3>1, <3>2, GotoMoves DEF PutSteps
    <3>4. ~At(t, "remove") /\ ~At(t, "remove")'
      BY <2>1, <3>3 DEF Collide, Miss, LockOrder, At
    <3>. QED
      BY <3>1, <3>3, <3>4 DEF Putting
  <2>2. CASE DropCollision(t) \/ Reap(t)
    <3>1. op'[t] = None /\ Others(t)
      BY <2>2, EndTyped DEF DropCollision, Reap
    <3>2. ~At(t, "remove") /\ ~At(t, "remove")'
      BY <2>2, <3>1 DEF DropCollision, Reap, At
    <3>. QED
      BY <3>1, <3>2 DEF Putting
  <2>3. CASE \E k \in Keys : StartGet(t, k)
    <3>1. Others(t) /\ op'[t].step = "reap" /\ op'[t].live = {} /\ op[t] = None
      BY <2>3 DEF StartGet, Typed, TypeOK, Others
    <3>2. ~At(t, "remove") /\ ~At(t, "remove")'
      BY <3>1 DEF At
    <3>. QED
      BY <3>1, <3>2 DEF Putting
  <2>. QED
    BY <2>1, <2>2, <2>3
<1>4. \A u \in Threads : Putting(u)' => Putting(u) /\ op'[u].generation = op[u].generation
  BY <1>3 DEF Others, Putting
<1>5. \A u \in Threads : op'[u] # None => \A x \in op'[u].live : x.generation < generation
  BY <1>3 DEF Others, Fifo, Issued
<1>6. /\ \A u \in Threads : At(u, "remove")' => At(u, "remove") /\ op'[u].popped = op[u].popped
      /\ \A u \in Threads : At(u, "remove") => At(u, "remove")' /\ op'[u].popped = op[u].popped
  BY <1>3 DEF At, Others
<1>. QED
  BY <1>1, <1>2, <1>4, <1>5, <1>6, FifoKept

\* The head of the queue goes: it was handed out before any put() that has returned did so.
LEMMA FifoPop ==
    ASSUME StoreAssumption, Fifo, Reach', NEW t \in Threads, PopToken(t)
    PROVE  Fifo'
<1>. Typed
  BY DEF Fifo, Reach
<1>1. /\ op[t] # None /\ op[t].step = "evict" /\ op'[t] # None
      /\ op'[t].step = "remove" /\ op'[t].popped = Head(order)
      /\ op'[t].generation = op[t].generation /\ op'[t].live = op[t].live
      /\ Others(t)
      /\ Head(order) \in Token
      /\ order \in Seq(Token) /\ order # <<>> /\ order' = Tail(order)
  BY PopMoves
<1>2. UNCHANGED <<map, generation, returned>>
  BY DEF PopToken
<1>3. /\ Len(order) \in Nat /\ DOMAIN order = 1..Len(order)
      /\ DOMAIN order' = 1..(Len(order) - 1)
      /\ \A i \in 1..(Len(order) - 1) : order'[i] = order[i + 1]
      /\ Head(order) = order[1] /\ 1 \in DOMAIN order
  BY <1>1, HeadTailProperties, LenProperties
<1>4. At(t, "remove")' /\ \A u \in Threads : ~At(u, "remove")
  BY <1>1 DEF At, HoldsOrder, Fifo, Reach, Mutex
<1>5. \A u \in Threads : At(u, "remove")' => u = t
  BY <1>1, <1>4 DEF At, Others
<1>6. \A u \in Threads : Putting(u)' => Putting(u) /\ op'[u].generation = op[u].generation
  BY <1>1 DEF Others, Putting
<1>7. Issued'
  <2>1. \A i \in DOMAIN order' : i + 1 \in DOMAIN order
    BY <1>3
  <2>2. \A i \in DOMAIN order' : order'[i].generation < generation'
    BY <1>2, <1>3, <2>1 DEF Fifo, Issued
  <2>3. \A u \in Threads : op'[u] # None => \A y \in op'[u].live : y.generation < generation
    BY <1>1 DEF Others, Fifo, Issued
  <2>4. Head(order).generation < generation
    BY <1>3 DEF Fifo, Issued
  <2>. QED
    BY <1>1, <1>2, <1>5, <1>6, <2>2, <2>3, <2>4 DEF Fifo, Issued
<1>8. Apart'
  BY <1>6 DEF Fifo, Apart
<1>9. ASSUME NEW k \in Keys, map[k] # None, returned[k] # None
      PROVE  Settled(k)' /\ Head(order).generation < returned[k]
  <2>1. TokenOf(k)' = TokenOf(k) /\ Settled(k)
    BY <1>2, <1>9 DEF Fifo, TokenOf
  <2>2. Behind(k, returned[k])
    BY <1>4, <2>1 DEF Settled, Popped
  <2>3. PICK i \in DOMAIN order :
            order[i] = TokenOf(k) /\ \A j \in 1..i : order[j].generation < returned[k]
    BY <2>2 DEF Behind
  <2>4. i \in 1..Len(order) /\ 1 \in 1..i
    BY <1>3, <2>3
  <2>5. Head(order).generation < returned[k]
    BY <1>3, <2>3, <2>4
  <2>6. CASE i = 1
    <3>1. Popped(TokenOf(k))'
      BY <1>1, <1>3, <1>4, <2>1, <2>3, <2>6 DEF Popped
    <3>. QED
      BY <1>2, <1>6, <2>1, <2>5, <3>1 DEF Settled
  <2>7. CASE i # 1
    <3>1. i - 1 \in 1..(Len(order) - 1) /\ (i - 1) + 1 = i
      BY <1>3, <2>4, <2>7
    <3>2. order'[i - 1] = TokenOf(k)
      BY <1>3, <2>3, <3>1
    <3>3. ASSUME NEW j \in 1..(i - 1) PROVE order'[j].generation < returned[k]
      <4>1. j \in 1..(Len(order) - 1) /\ j + 1 \in 1..i
        BY <1>3, <2>4, <3>1
      <4>. QED
        BY <1>3, <2>3, <4>1
    <3>4. Behind(k, returned[k])'
      BY <1>2, <1>3, <2>1, <3>1, <3>2, <3>3 DEF Behind
    <3>. QED
      BY <1>2, <1>6, <2>1, <2>5, <3>4 DEF Settled
  <2>. QED
    BY <2>6, <2>7
<1>10. Oldest'
  BY <1>1, <1>2, <1>5, <1>9 DEF Oldest
<1>. QED
  BY <1>2, <1>7, <1>8, <1>9, <1>10 DEF Fifo

\* The entry that the popped token names goes, and the loop with it to its next turn.
LEMMA FifoRemove ==
    ASSUME StoreAssumption, Fifo, Reach', NEW t \in Threads, RemovePopped(t)
    PROVE  Fifo'
<1>. Typed
  BY DEF Fifo, Reach
<1>1. /\ op[t] # None /\ op[t].step = "remove" /\ op'[t] # None
      /\ op'[t].step = "evict"
      /\ op'[t].generation = op[t].generation /\ op'[t].live = op[t].live
      /\ Others(t)
      /\ order' = order
      /\ \A k \in Keys : map'[k] # None =>
            map'[k] = map[k] /\ returned'[k] = returned[k] /\ TokenOf(k) # op[t].popped
  BY RemoveMoves DEF TokenOf
<1>2. generation' = generation
  BY DEF RemovePopped
<1>3. \A u \in Threads : Putting(u)' => Putting(u) /\ op'[u].generation = op[u].generation
  BY <1>1 DEF Others, Putting
<1>4. \A u \in Threads : op'[u] # None => \A y \in op'[u].live : y.generation < generation
  BY <1>1 DEF Others, Fifo, Issued
<1>5. \A u \in Threads : At(u, "remove")' => At(u, "remove") /\ op'[u].popped = op[u].popped
  BY <1>1 DEF At, Others
<1>6. \A u \in Threads : At(u, "remove") =>
         \/ At(u, "remove")' /\ op'[u].popped = op[u].popped
         \/ \A k \in Keys : map'[k] # None => TokenOf(k) # op[u].popped
  BY <1>1 DEF At, Others
<1>. QED
  BY <1>1, <1>2, <1>3, <1>4, <1>5, <1>6, FifoKept

\* What the end of put() t does to the counters of the entries: that of its own entry, if it
\* is still there, becomes the present one.
LEMMA FifoReturn ==
    ASSUME StoreAssumption, Typed, NEW t \in Threads, op[t] # None, Return(t), NEW k \in Keys, map[k] # None
    PROVE  \/ returned'[k] = returned[k]
           \/ returned'[k] = generation /\ k = op[t].key /\ map[k].generation = op[t].generation
<1>1. op[t].key \in Keys
  BY OpNotNone DEF Op
<1>. QED
  BY <1>1, FifoTypes DEF Return, Stored

\* A token is queued at the back: its put() goes on to compact, or returns.
LEMMA FifoPush ==
    ASSUME StoreAssumption, Fifo, Reach', NEW t \in Threads, PushToken(t)
    PROVE  Fifo'
<1>. Typed /\ order \in Seq(Token)
  BY DEF Fifo, Reach, Typed, TypeOK
<1>. DEFINE x == OwnToken(t)
<1>1. /\ op[t] # None /\ op[t].step # "reap" /\ x \in Token /\ order' = Append(order, x)
      /\ map' = map /\ Others(t) /\ generation' = generation
  BY PushMoves DEF PushToken, At
<1>2. x.key = op[t].key /\ x.generation = op[t].generation /\ op[t].generation < generation
  BY <1>1, OwnTyped DEF Fifo, Issued, Putting
<1>3. Putting(t)' => op'[t].generation = op[t].generation /\ op'[t].live = op[t].live /\ returned' = returned
  <2>1. CASE Overgrown(order')
    <3>1. op[t] \in Op
      BY <1>1, OpNotNone
    <3>2. op'[t] = [op[t] EXCEPT !.step = "compact", !.left = Keys] /\ returned' = returned
      BY <1>1, <2>1 DEF PushToken, Typed, TypeOK
    <3>. QED
      BY <3>1, <3>2 DEF Op
  <2>2. CASE ~Overgrown(order')
    <3>1. op'[t] = None
      BY <1>1, <2>2, ReturnTyped DEF PushToken
    <3>. QED
      BY <3>1 DEF Putting
  <2>. QED
    BY <2>1, <2>2
<1>4. op'[t] = None \/ Putting(t)'
  <2>1. CASE Overgrown(order')
    <3>1. op[t] \in Op
      BY <1>1, OpNotNone
    <3>2. op'[t] = [op[t] EXCEPT !.step = "compact", !.left = Keys]
      BY <1>1, <2>1 DEF PushToken, Typed, TypeOK
    <3>. QED
      BY <3>1, <3>2 DEF Op, Putting
  <2>2. CASE ~Overgrown(order')
    BY <1>1, <2>2, ReturnTyped DEF PushToken
  <2>. QED
    BY <2>1, <2>2
<1>5. \A k \in Keys : map[k] # None =>
         \/ returned'[k] = returned[k]
         \/ returned'[k] = generation /\ TokenOf(k) = x /\ op'[t] = None
  <2>1. CASE Overgrown(order')
    BY <2>1 DEF PushToken
  <2>2. CASE ~Overgrown(order')
    <3>1. Return(t)
      BY <2>2 DEF PushToken
    <3>2. op'[t] = None
      BY <1>1, <3>1, ReturnTyped
    <3>3. \A k \in Keys : map[k] # None =>
             \/ returned'[k] = returned[k]
             \/ returned'[k] = generation /\ k = op[t].key /\ map[k].generation = op[t].generation
      BY <1>1, <3>1, FifoReturn
    <3>. QED
      BY <3>2, <3>3 DEF TokenOf, OwnToken
  <2>. QED
    BY <2>1, <2>2
<1>. HIDE DEF x
<1>6. /\ DOMAIN order = 1..Len(order) /\ Len(order) \in Nat
      /\ DOMAIN order' = 1..(Len(order) + 1)
      /\ \A i \in 1..Len(order) : order'[i] = order[i]
      /\ order'[Len(order) + 1] = x
  BY <1>1, LenProperties
<1>7. \A i \in DOMAIN order' : order'[i].generation < generation
  <2>. SUFFICES ASSUME NEW i \in 1..(Len(order) + 1) PROVE order'[i].generation < generation
    BY <1>6
  <2>1. CASE i = Len(order) + 1
    BY <1>2, <1>6, <2>1
  <2>2. CASE i # Len(order) + 1
    <3>1. i \in 1..Len(order)
      BY <1>6, <2>2
    <3>. QED
      BY <1>6, <3>1 DEF Fifo, Issued
  <2>. QED
    BY <2>1, <2>2
<1>8. \A u \in Threads : Putting(u)' => Putting(u) /\ op'[u].generation = op[u].generation
  BY <1>1, <1>3 DEF Others, Putting
<1>12. \A u \in Threads : ~At(u, "remove") /\ ~At(u, "remove")'
  <2>1. \A u \in Threads : ~At(u, "remove")
    BY DEF PushToken, OrderFree, HoldsOrder, At, Fifo, Reach, Mutex
  <2>2. ~At(t, "remove")'
    <3>1. CASE Overgrown(order')
      <4>1. op[t] \in Op
        BY <1>1, OpNotNone
      <4>2. op'[t] = [op[t] EXCEPT !.step = "compact", !.left = Keys]
        BY <1>1, <3>1 DEF PushToken, Typed, TypeOK
      <4>. QED
        BY <4>1, <4>2 DEF Op, At
    <3>2. CASE ~Overgrown(order')
      BY <1>1, <3>2, ReturnTyped DEF PushToken, At
    <3>. QED
      BY <3>1, <3>2
  <2>. QED
    BY <1>1, <2>1, <2>2 DEF At, Others
<1>9. Issued'
  <2>1. \A u \in Threads : op'[u] # None => \A y \in op'[u].live : y.generation < generation
    BY <1>1, <1>3, <1>4 DEF Others, Fifo, Issued
  <2>. QED
    BY <1>1, <1>7, <1>8, <1>12, <2>1 DEF Fifo, Issued
<1>10. Apart'
  BY <1>8 DEF Fifo, Apart
<1>11. ASSUME NEW k \in Keys, map'[k] # None, returned'[k] # None PROVE Settled(k)'
  <2>0. map[k] # None /\ map'[k] = map[k] /\ TokenOf(k)' = TokenOf(k)
    BY <1>1, <1>11 DEF TokenOf
  <2>1. CASE returned'[k] = returned[k]
    <3>1. Settled(k)
      BY <1>11, <2>0, <2>1 DEF Fifo
    <3>2. PICK i \in DOMAIN order :
              order[i] = TokenOf(k) /\ \A j \in 1..i : order[j].generation < returned[k]
      BY <1>12, <3>1 DEF Settled, Behind, Popped
    <3>3. i \in DOMAIN order' /\ \A j \in 1..i : j \in 1..Len(order)
      BY <1>6
    <3>4. Behind(k, returned[k])'
      BY <1>6, <2>0, <2>1, <3>2, <3>3 DEF Behind
    <3>. QED
      BY <1>8, <2>0, <2>1, <3>1, <3>4 DEF Settled
  <2>2. CASE returned'[k] = generation /\ TokenOf(k) = x /\ op'[t] = None
    <3>1. Len(order) + 1 \in DOMAIN order' /\ \A j \in 1..(Len(order) + 1) : order'[j].generation < generation
      BY <1>6, <1>7
    <3>2. Behind(k, returned[k])'
      BY <1>6, <2>0, <2>2, <3>1 DEF Behind
    <3>3. ASSUME NEW u \in Threads, Putting(u)' PROVE op'[u].generation # map'[k].generation
      <4>1. u # t /\ Putting(u) /\ op'[u].generation = op[u].generation
        BY <1>8, <2>2, <3>3 DEF Putting
      <4>2. op[u].generation # op[t].generation
        BY <1>1, <4>1 DEF Fifo, Apart, Putting
      <4>3. map[k].generation = op[t].generation
        BY <1>2, <2>2 DEF TokenOf
      <4>. QED
        BY <2>0, <4>1, <4>2, <4>3
    <3>. QED
      BY <3>2, <3>3 DEF Settled
  <2>. QED
    BY <1>5, <2>0, <2>1, <2>2
<1>. QED
  BY <1>9, <1>10, <1>11, <1>12 DEF Fifo, Oldest

\* Compaction reads a token of an entry.
LEMMA FifoCollect ==
    ASSUME StoreAssumption, Fifo, Reach', NEW t \in Threads, NEW j \in Keys, CollectToken(t, j)
    PROVE  Fifo'
<1>. Typed
  BY DEF Fifo, Reach
<1>1. /\ op[t] # None /\ op[t].step = "compact" /\ op[t] \in Op
      /\ UNCHANGED <<map, order, generation, returned>>
  BY OpNotNone DEF CollectToken, At
<1>. DEFINE live == IF map[j] = None THEN op[t].live ELSE op[t].live \cup {TokenOf(j)}
            x == [op[t] EXCEPT !.left = op[t].left \ {j}, !.live = live]
<1>2. op' = [op EXCEPT ![t] = x]
  BY DEF CollectToken, TokenOf
<1>3. \A y \in live : y.generation < generation
  BY <1>1 DEF Fifo, Issued, TokenOf
<1>. HIDE DEF live
<1>4. x.step = "compact" /\ x.generation = op[t].generation /\ x.live = live
  BY <1>1 DEF Op
<1>. HIDE DEF x
<1>5. op'[t] = x /\ Others(t)
  BY <1>2 DEF Typed, TypeOK, Others
<1>6. \A u \in Threads : Putting(u)' => Putting(u) /\ op'[u].generation = op[u].generation
  BY <1>1, <1>4, <1>5 DEF Others, Putting
<1>7. \A u \in Threads : op'[u] # None => \A y \in op'[u].live : y.generation < generation
  BY <1>3, <1>4, <1>5 DEF Others, Fifo, Issued
<1>8. /\ \A u \in Threads : At(u, "remove")' => At(u, "remove") /\ op'[u].popped = op[u].popped
      /\ \A u \in Threads : At(u, "remove") => At(u, "remove")' /\ op'[u].popped = op[u].popped
  BY <1>1, <1>4, <1>5 DEF At, Others
<1>. QED
  BY <1>1, <1>6, <1>7, <1>8, FifoKept

\* The queue is replaced by the tokens read, sorted: what was before an entry's token and is
\* there still was handed out before it.
LEMMA FifoCompact ==
    ASSUME StoreAssumption, Fifo, Reach', NEW t \in Threads, CompactOrderQueue(t)
    PROVE  Fifo'
<1>. Typed
  BY DEF Fifo, Reach
<1>1. /\ op[t] # None /\ op[t].step = "compact" /\ op[t].left = {}
      /\ map' = map /\ generation' = generation
      /\ order' \in SortedSeqs(op[t].live)
      /\ Return(t)
  BY DEF CompactOrderQueue, At
<1>2. op'[t] = None /\ Others(t)
  BY <1>1, ReturnTyped
<1>3. op[t].live \in SUBSET Token /\ IsFiniteSet(op[t].live)
  BY <1>1, OpNotNone DEF Op, Typed
<1>4. /\ DOMAIN order' = 1..Cardinality(op[t].live)
      /\ Cardinality(op[t].live) \in Nat
      /\ \A x \in op[t].live : \E i \in DOMAIN order' : order'[i] = x
      /\ \A i \in DOMAIN order' : order'[i] \in op[t].live
      /\ \A i, j \in DOMAIN order' : i < j => order'[i].generation < order'[j].generation
  BY <1>1, <1>3, SortedTyped, FS_CardinalityType
<1>5. \A u \in Threads : Putting(u)' => u # t /\ Putting(u) /\ op'[u].generation = op[u].generation
  BY <1>2 DEF Others, Putting
<1>9. \A u \in Threads : ~At(u, "remove") /\ ~At(u, "remove")'
  <2>1. \A u \in Threads : ~At(u, "remove")
    BY <1>1 DEF HoldsOrder, At, Fifo, Reach, Mutex
  <2>. QED
    BY <1>2, <2>1 DEF At, Others
<1>6. Issued'
  <2>1. \A i \in DOMAIN order' : order'[i].generation < generation
    BY <1>1, <1>4 DEF Fifo, Issued
  <2>2. \A u \in Threads : op'[u] # None => \A x \in op'[u].live : x.generation < generation
    BY <1>2 DEF Others, Fifo, Issued
  <2>. QED
    BY <1>1, <1>5, <1>9, <2>1, <2>2 DEF Fifo, Issued
<1>7. Apart'
  BY <1>5 DEF Fifo, Apart
<1>8. ASSUME NEW k \in Keys, map'[k] # None, returned'[k] # None PROVE Settled(k)'
  <2>0. map[k] # None /\ map'[k] = map[k] /\ TokenOf(k)' = TokenOf(k)
    BY <1>1, <1>8 DEF TokenOf
  <2>1. Putting(t) /\ At(t, "compact")
    BY <1>1 DEF Putting, At
  <2>2. /\ \A u \in Threads \ {t} : Putting(u) => op[u].generation # map[k].generation
        /\ map[k].generation < returned'[k] /\ returned'[k] \in Nat
    <3>1. CASE returned'[k] = returned[k]
      <4>1. Settled(k)
        BY <1>8, <2>0, <3>1 DEF Fifo
      <4>2. PICK i \in DOMAIN order :
                order[i] = TokenOf(k) /\ \A j \in 1..i : order[j].generation < returned[k]
        BY <1>9, <4>1 DEF Settled, Behind, Popped
      <4>3. i \in 1..i
        <5>1. i \in 1..Len(order) /\ Len(order) \in Nat
          BY FifoTypes, LenProperties
        <5>. QED
          BY <5>1
      <4>4. map[k].generation < returned[k]
        BY <4>2, <4>3 DEF TokenOf
      <4>. QED
        BY <1>8, <3>1, <4>1, <4>4, FifoTypes DEF Settled
    <3>2. CASE returned'[k] = generation /\ k = op[t].key /\ map[k].generation = op[t].generation
      <4>1. \A u \in Threads \ {t} : Putting(u) => op[u].generation # op[t].generation
        BY <2>1 DEF Fifo, Apart
      <4>. QED
        BY <2>0, <3>2, <4>1, FifoTypes DEF Fifo, Issued
    <3>. QED
      BY <1>1, <2>0, <3>1, <3>2, FifoReturn
  <2>3. TokenOf(k) \in op[t].live
    <3>1. \/ TokenOf(k) \in op[t].live
          \/ \E u \in Threads : At(u, "refreshed") /\ OwnToken(u) = TokenOf(k)
      BY <1>1, <2>0, <2>1, KeepsParts DEF Fifo, Reach
    <3>2. ASSUME NEW u \in Threads, At(u, "refreshed"), OwnToken(u) = TokenOf(k) PROVE FALSE
      <4>1. u # t /\ Putting(u) /\ op[u].generation = map[k].generation
        BY <1>1, <3>2 DEF At, Putting, OwnToken, TokenOf
      <4>. QED
        BY <2>2, <4>1
    <3>. QED
      BY <3>1, <3>2
  <2>4. PICK i \in DOMAIN order' : order'[i] = TokenOf(k)
    BY <1>4, <2>3
  <2>5. ASSUME NEW j \in 1..i PROVE order'[j].generation < returned'[k]
    <3>1. j \in DOMAIN order' /\ (j = i \/ j < i)
      BY <1>4
    <3>2. order'[i].generation = map[k].generation /\ map[k].generation \in Nat
      BY <2>0, <2>4, FifoTypes DEF TokenOf
    <3>3. order'[j].generation \in Nat
      BY <1>1, <1>4, <3>1, FifoTypes
    <3>4. order'[j].generation <= map[k].generation
      BY <1>4, <3>1, <3>2, <3>3
    <3>. QED
      BY <2>2, <3>2, <3>3, <3>4
  <2>6. Behind(k, returned[k])'
    BY <2>0, <2>4, <2>5 DEF Behind
  <2>. QED
    BY <1>5, <2>0, <2>2, <2>6 DEF Settled
<1>. QED
  BY <1>6, <1>7, <1>8, <1>9 DEF Fifo, Oldest

LEMMA FifoStep == ASSUME StoreAssumption, Fifo, [Next]_vars PROVE Fifo'
<1>1. Reach'
  BY ReachStep DEF Fifo
<1>2. CASE \E t \in Threads, p \in Payloads : StartPut(t, p)
  BY <1>1, <1>2, FifoStart
<1>3. CASE \E t \in Threads, k \in Keys : StartGet(t, k)
  BY <1>1, <1>3, FifoPlain
<1>4. CASE \E t \in Threads : PutStep(t) \/ Reap(t)
  <2>1. PICK t \in Threads : PutStep(t) \/ Reap(t)
    BY <1>4
  <2>2. CASE Collide(t) \/ Miss(t) \/ LockOrder(t) \/ DropCollision(t) \/ Reap(t)
    BY <1>1, <2>2, FifoPlain
  <2>3. CASE Refresh(t) \/ InsertEntry(t)
    BY <1>1, <2>3, FifoBind
  <2>4. CASE PopToken(t) \/ RemovePopped(t)
    BY <1>1, <2>4, FifoPop, FifoRemove
  <2>5. CASE PushToken(t)
    BY <1>1, <2>5, FifoPush
  <2>6. CASE \E k \in Keys : CollectToken(t, k)
    BY <1>1, <2>6, FifoCollect
  <2>7. CASE CompactOrderQueue(t)
    BY <1>1, <2>7, FifoCompact
  <2>. QED
    BY <2>1, <2>2, <2>3, <2>4, <2>5, <2>6, <2>7 DEF PutStep
<1>5. CASE Tick \/ UNCHANGED vars
  <2>1. UNCHANGED <<map, order, generation, op, returned>>
    BY <1>5 DEF Tick, vars
  <2>2. /\ \A u \in Threads : Putting(u)' => Putting(u) /\ op'[u].generation = op[u].generation
        /\ \A u \in Threads : op'[u] # None => \A x \in op'[u].live : x.generation < generation
        /\ \A u \in Threads : At(u, "remove")' <=> At(u, "remove")
    BY <2>1 DEF Putting, Fifo, Issued, At
  <2>. QED
    BY <1>1, <2>1, <2>2, FifoKept
<1>. QED
  BY <1>2, <1>3, <1>4, <1>5 DEF Next

LEMMA FifoInit == ASSUME StoreAssumption, Init PROVE Fifo
BY ReachInit DEF Init, Fifo, Issued, Apart, Putting, Oldest, At

\* Only the loop that has popped its token takes an entry.
LEMMA EvictsPopped ==
    ASSUME StoreAssumption, Fifo, [Next]_vars, NEW k \in Keys, Evicts(k)
    PROVE  \E t \in Threads : At(t, "remove") /\ op[t].popped.generation = map[k].generation
<1>. Typed
  BY DEF Fifo, Reach
<1>1. map[k] # None /\ map'[k] = None
  BY DEF Evicts
<1>2. PICK t \in Threads : At(t, "remove") /\ op'[t].step = "evict"
  BY DEF Evicts
<1>3. op[t].step = "remove" /\ op'[t] # op[t]
  BY <1>2 DEF At
<1>4. PICK u \in Threads : PutStep(u) \/ Reap(u)
  BY <1>1 DEF Next, StartPut, StartGet, Tick, vars
<1>5. u = t
  <2>1. CASE u # t /\ (PushToken(u) \/ CompactOrderQueue(u))
    BY <1>1, <2>1 DEF PushToken, CompactOrderQueue
  <2>2. CASE u # t /\ ~PushToken(u) /\ ~CompactOrderQueue(u)
    <3>1. op'[t] = op[t]
      BY <1>4, <2>2 DEF PutStep, Refresh, Collide, Miss, DropCollision, LockOrder, PopToken,
         RemovePopped, InsertEntry, CollectToken, Reap, Goto, Typed, TypeOK
    <3>. QED
      BY <1>3, <3>1
  <2>. QED
    BY <2>1, <2>2
<1>6. RemovePopped(t)
  BY <1>3, <1>4, <1>5 DEF PutStep, Refresh, Collide, Miss, DropCollision, LockOrder, PopToken,
     InsertEntry, PushToken, CollectToken, CompactOrderQueue, Reap, At
<1>7. Matches(op[t].popped) /\ Unbind(op[t].popped.key)
  BY <1>1, <1>6 DEF RemovePopped
<1>8. k = op[t].popped.key
  BY <1>1, <1>7 DEF Unbind, Typed, TypeOK
<1>. QED
  BY <1>2, <1>7, <1>8 DEF Matches

\* Eviction is first in, first out: when the loop of put() takes an entry, every other live
\* entry whose put() has returned began after it, whatever refreshes, expiries and compactions
\* went between (evict_until_under_capacity, compact_order_queue).
THEOREM EvictsAlwaysInOrder == Spec => EvictsInOrder
<1>1. Fifo /\ [Next]_vars
        => [\A k \in Keys : Evicts(k) =>
              \A j \in Live : returned[j] # None => map[k].generation < returned[j]]_vars
  <2>. SUFFICES ASSUME Fifo, [Next]_vars, NEW k \in Keys, Evicts(k), NEW j \in Live, returned[j] # None
       PROVE  map[k].generation < returned[j]
    OBVIOUS
  <2>1. PICK t \in Threads : At(t, "remove") /\ op[t].popped.generation = map[k].generation
    BY EvictsPopped, StoreAssumption
  <2>2. op[t].popped.generation < returned[j]
    BY <2>1 DEF Fifo, Oldest, Live
  <2>. QED
    BY <2>1, <2>2
<1>. QED
  BY <1>1, FifoInit, FifoStep, StoreAssumption, PTL DEF Spec, EvictsInOrder

=============================================================================
