------------------------ MODULE RouterRecoveryProofs ------------------------
(***************************************************************************)
(* Proofs about RouterRecovery, for any contents, markers, calls, stores   *)
(* and capacities: what a call ships resolves, and what it freshly         *)
(* compressed is on disk, whatever the four stores evict and expire.       *)
(*                                                                         *)
(* The induction follows the markers of one message through the passes:    *)
(* those no longer in `left` are already backed, and the store can only    *)
(* lose a backed hash by recording it in `lost`.                           *)
(***************************************************************************)
EXTENDS RouterRecovery, FiniteSetTheorems, TLAPS

\* The types of the variables the argument reads.
Shapes ==
    /\ now \in Times
    /\ store \in [Stores -> [Hashes -> Backing]]
    /\ slot \in [Calls -> [Contents -> Slot]]
    /\ left \in [Calls -> [Contents -> SUBSET Hashes]]
    /\ lost \in [Calls -> SUBSET Hashes]

\* The call's store answers for h, or has lost it since the call began.
Backed(t, h) == Resolves(StoreOf[t], h) \/ h \in lost[t]

\* ... holds a row for h, or has lost it since the call began.
OnDisk(t, h) == store[StoreOf[t]][h].row # None \/ h \in lost[t]

\* The markers of a message that the pass it is in has handled are backed.
Tracked(t, c) ==
    /\ slot[t][c] = "verify" => \A h \in MarkersOf[c] \ left[t][c] : Backed(t, h)
    /\ slot[t][c] = "cached" => \A h \in MarkersOf[c] : Backed(t, h)
    /\ slot[t][c] = "persist" => \A h \in MarkersOf[c] \ left[t][c] : OnDisk(t, h)
    /\ slot[t][c] = "computed" => \A h \in MarkersOf[c] : OnDisk(t, h)
    /\ slot[t][c] = "fresh" => \A h \in MarkersOf[c] : OnDisk(t, h)

\* The inductive invariant.
Inv == Shapes /\ \A t \in Calls, c \in Contents : Tracked(t, c)

-----------------------------------------------------------------------------
(* How a step moves one message and leaves the others alone *)

\* Only the message c of the call t moves.
Only(t, c) == \A u \in Calls, d \in Contents : u # t \/ d # c =>
    slot'[u][d] = slot[u][d] /\ left'[u][d] = left[u][d]

LEMMA GotoMoves ==
    ASSUME Shapes, NEW t \in Calls, NEW c \in Contents, NEW place \in Slot,
           Goto(t, c, place), UNCHANGED left
    PROVE  /\ slot' \in [Calls -> [Contents -> Slot]]
           /\ left' \in [Calls -> [Contents -> SUBSET Hashes]]
           /\ slot'[t][c] = place
           /\ Only(t, c)
BY DEF Shapes, Goto, Only

LEMMA EnterMoves ==
    ASSUME Shapes, NEW t \in Calls, NEW c \in Contents, NEW place \in Slot,
           NEW markers \in SUBSET Hashes, Enter(t, c, place, markers)
    PROVE  /\ slot' \in [Calls -> [Contents -> Slot]]
           /\ left' \in [Calls -> [Contents -> SUBSET Hashes]]
           /\ slot'[t][c] = place
           /\ left'[t][c] = markers
           /\ Only(t, c)
BY DEF Shapes, Enter, Goto, Only

LEMMA AdvanceMoves ==
    ASSUME Shapes, NEW t \in Calls, NEW c \in Contents, NEW h \in Hashes, NEW place \in Slot,
           Advance(t, c, h, place)
    PROVE  /\ slot' \in [Calls -> [Contents -> Slot]]
           /\ left' \in [Calls -> [Contents -> SUBSET Hashes]]
           /\ left'[t][c] = left[t][c] \ {h}
           /\ left[t][c] \ {h} = {} => slot'[t][c] = place
           /\ left[t][c] \ {h} # {} => slot'[t][c] = slot[t][c]
           /\ Only(t, c)
BY DEF Shapes, Advance, Only

\* What a store loses in a step is recorded for the calls in progress.
LEMMA Kept ==
    ASSUME Shapes, store' \in [Stores -> [Hashes -> Backing]], NEW t \in Calls,
           ~Idle(t), (store' = store /\ lost'[t] = lost[t]) \/ Losing,
           RecoveryAssumption, NEW h \in Hashes
    PROVE  (Backed(t, h) => Backed(t, h)') /\ (OnDisk(t, h) => OnDisk(t, h)')
<1>1. CASE store' = store /\ lost'[t] = lost[t]
  BY <1>1 DEF Backed, OnDisk, Resolves
<1>2. CASE Losing
  <2>1. /\ lost[t] \subseteq lost'[t]
        /\ Held(store[StoreOf[t]][h]) /\ ~Held(store'[StoreOf[t]][h]) => h \in lost'[t]
        /\ store[StoreOf[t]][h].row # None /\ store'[StoreOf[t]][h].row = None => h \in lost'[t]
    BY <1>2 DEF Losing
  <2> QED BY <2>1 DEF Backed, OnDisk, Resolves
<1> QED BY <1>1, <1>2

\* A message that does not move stays tracked.
LEMMA Still ==
    ASSUME Shapes, RecoveryAssumption, store' \in [Stores -> [Hashes -> Backing]],
           NEW t \in Calls, NEW c \in Contents,
           ~Idle(t) => (store' = store /\ lost'[t] = lost[t]) \/ Losing,
           slot'[t][c] = slot[t][c], left'[t][c] = left[t][c], Tracked(t, c)
    PROVE  Tracked(t, c)'
<1>1. CASE Idle(t)
  BY <1>1 DEF Idle, Tracked
<1>2. CASE ~Idle(t)
  <2>1. \A h \in Hashes : (Backed(t, h) => Backed(t, h)') /\ (OnDisk(t, h) => OnDisk(t, h)')
    BY <1>2, Kept
  <2>2. MarkersOf[c] \subseteq Hashes
    BY DEF RecoveryAssumption
  <2> QED BY <2>1, <2>2 DEF Tracked
<1> QED BY <1>1, <1>2

\* It suffices to look at the message that moves.
LEMMA Local ==
    ASSUME Inv, RecoveryAssumption, NEW t \in Calls, NEW c \in Contents,
           store' \in [Stores -> [Hashes -> Backing]],
           (store' = store /\ lost' = lost) \/ Losing,
           Only(t, c), Tracked(t, c)'
    PROVE  \A u \in Calls, d \in Contents : Tracked(u, d)'
<1> SUFFICES ASSUME NEW u \in Calls, NEW d \in Contents PROVE Tracked(u, d)'
  OBVIOUS
<1>1. CASE u = t /\ d = c
  BY <1>1
<1>2. CASE u # t \/ d # c
  BY <1>2, Still DEF Only, Inv
<1> QED BY <1>1, <1>2

-----------------------------------------------------------------------------
(* The store's write *)

LEMMA SaveWrites ==
    ASSUME Shapes, RecoveryAssumption, NEW t \in Calls, NEW h \in Hashes, NEW outcome,
           Save(StoreOf[t], h, outcome)
    PROVE  /\ store' \in [Stores -> [Hashes -> Backing]]
           /\ Losing
           /\ lost' \in [Calls -> SUBSET Hashes]
           /\ outcome = "durable" => store'[StoreOf[t]][h].row # None
<1> DEFINE s == StoreOf[t]
<1>1. s \in Stores /\ now # None /\ now \in Times
  BY DEF RecoveryAssumption, Shapes, Times
<1>2. PICK victims \in Evicted(s) :
        LET kept == [x \in Hashes |-> IF x \in victims THEN Gone ELSE store[s][x]]
        IN  store' = [store EXCEPT ![s] = [kept EXCEPT ![h] = Written(kept[h], outcome)]]
  BY DEF Save
<1> DEFINE kept == [x \in Hashes |-> IF x \in victims THEN Gone ELSE store[s][x]]
<1>3. kept \in [Hashes -> Backing]
  BY <1>1 DEF Shapes, Gone, Backing
<1>4. Written(kept[h], outcome) \in Backing
  BY <1>1, <1>3 DEF Written, Backing
<1>5. outcome = "durable" => Written(kept[h], outcome).row = now
  BY DEF Written
<1>6. store' = [store EXCEPT ![s] = [kept EXCEPT ![h] = Written(kept[h], outcome)]]
  BY <1>2
<1>7. store' \in [Stores -> [Hashes -> Backing]]
  BY <1>1, <1>3, <1>4, <1>6 DEF Shapes
<1>8. store'[s][h] = Written(kept[h], outcome)
  BY <1>1, <1>3, <1>6 DEF Shapes
<1>9. Losing
  BY DEF Save
<1>10. lost' \in [Calls -> SUBSET Hashes]
  BY <1>9 DEF Losing, Shapes
<1> QED BY <1>1, <1>5, <1>7, <1>8, <1>9, <1>10

-----------------------------------------------------------------------------
(* Each action preserves the invariant.  First the steps that move one     *)
(* message and leave the stores alone.                                     *)

\* The step leaves alone what only the stores and the clock change.
Quiet == UNCHANGED <<now, store, lost>>

\* A message that leaves the tracked places needs no backing.
LEMMA Dropped ==
    ASSUME Inv, RecoveryAssumption, NEW t \in Calls, NEW c \in Contents, Quiet,
           NEW place \in Slot \ {"verify", "cached", "persist", "computed", "fresh"},
           NEW markers \in SUBSET Hashes,
           Enter(t, c, place, markers) \/ (Goto(t, c, place) /\ UNCHANGED left)
    PROVE  Inv'
<1>1. /\ slot' \in [Calls -> [Contents -> Slot]]
      /\ left' \in [Calls -> [Contents -> SUBSET Hashes]]
      /\ slot'[t][c] = place
      /\ Only(t, c)
  BY GotoMoves, EnterMoves DEF Inv
<1>2. Shapes'
  BY <1>1 DEF Inv, Shapes, Quiet
<1>3. Tracked(t, c)'
  BY <1>1 DEF Tracked
<1>4. store' = store /\ lost' = lost /\ store' \in [Stores -> [Hashes -> Backing]]
  BY DEF Quiet, Inv, Shapes
<1> QED BY <1>1, <1>2, <1>3, <1>4, Local DEF Inv

\* A message about to verify or to persist all of its markers has handled none.
LEMMA Entered ==
    ASSUME Inv, RecoveryAssumption, NEW t \in Calls, NEW c \in Contents, Quiet,
           NEW place \in {"verify", "persist"}, Enter(t, c, place, MarkersOf[c])
    PROVE  Inv'
<1>0. MarkersOf[c] \in SUBSET Hashes /\ place \in Slot
  BY DEF RecoveryAssumption, Slot
<1>1. /\ slot' \in [Calls -> [Contents -> Slot]]
      /\ left' \in [Calls -> [Contents -> SUBSET Hashes]]
      /\ slot'[t][c] = place
      /\ left'[t][c] = MarkersOf[c]
      /\ Only(t, c)
  BY <1>0, EnterMoves DEF Inv
<1>2. Shapes'
  BY <1>1 DEF Inv, Shapes, Quiet
<1>3. Tracked(t, c)'
  BY <1>1 DEF Tracked
<1>4. store' = store /\ lost' = lost /\ store' \in [Stores -> [Hashes -> Backing]]
  BY DEF Quiet, Inv, Shapes
<1> QED BY <1>1, <1>2, <1>3, <1>4, Local DEF Inv

LEMMA DeferStep ==
    ASSUME Inv, RecoveryAssumption, NEW t \in Calls, NEW c \in Contents, Quiet, Defer(t, c)
    PROVE  Inv'
<1>1. MarkersOf[c] \in SUBSET Hashes
  BY DEF RecoveryAssumption
<1>2. CASE c \in Crushed
  <2>1. Enter(t, c, "crush", MarkersOf[c])
    BY <1>2 DEF Defer, Begin
  <2> QED BY <1>1, <2>1, Dropped DEF Slot
<1>3. CASE c \notin Crushed
  <2>1. Enter(t, c, "persist", MarkersOf[c])
    BY <1>3 DEF Defer, Begin
  <2> QED BY <2>1, Entered
<1> QED BY <1>2, <1>3

\* Handling one marker in a place that is not tracked.
LEMMA AdvanceStep ==
    ASSUME Inv, RecoveryAssumption, NEW t \in Calls, NEW c \in Contents, NEW h \in Hashes,
           NEW place \in Slot, Quiet, Advance(t, c, h, place), left[t][c] # {h},
           h \in left[t][c], slot[t][c] \in {"mirror", "crush"}
    PROVE  Inv'
<1>1. left[t][c] \ {h} # {}
  OBVIOUS
<1>2. /\ slot' \in [Calls -> [Contents -> Slot]]
      /\ left' \in [Calls -> [Contents -> SUBSET Hashes]]
      /\ slot'[t][c] = slot[t][c]
      /\ Only(t, c)
  BY <1>1, AdvanceMoves DEF Inv
<1>3. Shapes'
  BY <1>2 DEF Inv, Shapes, Quiet
<1>4. Tracked(t, c)'
  BY <1>2 DEF Tracked
<1>5. store' = store /\ lost' = lost /\ store' \in [Stores -> [Hashes -> Backing]]
  BY DEF Quiet, Inv, Shapes
<1> QED BY <1>2, <1>3, <1>4, <1>5, Local DEF Inv

-----------------------------------------------------------------------------
(* The actions *)

LEMMA LookupStep ==
    ASSUME Inv, RecoveryAssumption, NEW t \in Calls, NEW c \in Contents,
           \/ LookupSkip(t, c) \/ LookupMiss(t, c) \/ LookupHit(t, c)
           \/ MoveToSkip(t, c) \/ Invalidate(t, c)
    PROVE  Inv'
<1>0. {} \in SUBSET Hashes /\ MarkersOf[c] \in SUBSET Hashes
  BY DEF RecoveryAssumption
<1>1. CASE LookupSkip(t, c)
  <2>1. PICK place \in {"original", "get"} : Goto(t, c, place)
    BY <1>1 DEF LookupSkip
  <2>2. Quiet /\ UNCHANGED left
    BY <1>1 DEF LookupSkip, Quiet
  <2> QED BY <1>0, <2>1, <2>2, Dropped DEF Slot
<1>2. CASE LookupMiss(t, c)
  <2>1. Quiet /\ Defer(t, c)
    BY <1>2 DEF LookupMiss, Quiet
  <2> QED BY <2>1, DeferStep
<1>3. CASE LookupHit(t, c)
  <2>1. Quiet
    BY <1>3 DEF LookupHit, Quiet
  <2>2. \/ Enter(t, c, "demote", {})
        \/ Enter(t, c, "mirror", MarkersOf[c])
        \/ Enter(t, c, "verify", MarkersOf[c])
    BY <1>3 DEF LookupHit
  <2>3. CASE Enter(t, c, "demote", {})
    BY <1>0, <2>1, <2>3, Dropped DEF Slot
  <2>4. CASE Enter(t, c, "mirror", MarkersOf[c])
    BY <1>0, <2>1, <2>4, Dropped DEF Slot
  <2>5. CASE Enter(t, c, "verify", MarkersOf[c])
    BY <2>1, <2>5, Entered
  <2> QED BY <2>2, <2>3, <2>4, <2>5
<1>4. CASE MoveToSkip(t, c)
  <2>1. Goto(t, c, "original") /\ Quiet /\ UNCHANGED left
    BY <1>4 DEF MoveToSkip, Quiet
  <2> QED BY <1>0, <2>1, Dropped DEF Slot
<1>5. CASE Invalidate(t, c)
  <2>1. Quiet /\ Defer(t, c)
    BY <1>5 DEF Invalidate, Quiet
  <2> QED BY <2>1, DeferStep
<1> QED BY <1>1, <1>2, <1>3, <1>4, <1>5

LEMMA MirrorStep ==
    ASSUME Inv, RecoveryAssumption, NEW t \in Calls, NEW c \in Contents, NEW h \in Hashes,
           MirrorSkip(t, c, h) \/ Mirror(t, c, h)
    PROVE  Inv'
<1>0. MarkersOf[c] \in SUBSET Hashes
  BY DEF RecoveryAssumption
<1>1. CASE MirrorSkip(t, c, h)
  <2>1. Quiet /\ h \in left[t][c] /\ slot[t][c] = "mirror"
    BY <1>1 DEF MirrorSkip, Quiet
  <2>2. CASE left[t][c] = {h}
    <3>1. Enter(t, c, "verify", MarkersOf[c])
      BY <1>1, <2>2 DEF MirrorSkip
    <3> QED BY <2>1, <3>1, Entered
  <2>3. CASE left[t][c] # {h}
    <3>1. Advance(t, c, h, "verify")
      BY <1>1, <2>3 DEF MirrorSkip
    <3> QED BY <2>1, <2>3, <3>1, AdvanceStep DEF Slot
  <2> QED BY <2>2, <2>3
<1>2. CASE Mirror(t, c, h)
  <2>1. PICK outcome \in WriteOutcomes :
           /\ Save(StoreOf[t], h, outcome)
           /\ IF outcome = "volatile" \/ left[t][c] = {h}
              THEN Enter(t, c, "verify", MarkersOf[c])
              ELSE Advance(t, c, h, "verify")
    BY <1>2 DEF Mirror
  <2>2. /\ store' \in [Stores -> [Hashes -> Backing]]
        /\ Losing
        /\ lost' \in [Calls -> SUBSET Hashes]
    BY <2>1, SaveWrites DEF Inv
  <2>3. now' = now /\ h \in left[t][c] /\ slot[t][c] = "mirror"
    BY <1>2 DEF Mirror
  <2>4. /\ slot' \in [Calls -> [Contents -> Slot]]
        /\ left' \in [Calls -> [Contents -> SUBSET Hashes]]
        /\ Only(t, c)
        /\ \/ slot'[t][c] = "verify" /\ left'[t][c] = MarkersOf[c]
           \/ slot'[t][c] = "mirror"
    <3>1. CASE Enter(t, c, "verify", MarkersOf[c])
      BY <1>0, <3>1, EnterMoves DEF Inv, Slot
    <3>2. CASE left[t][c] # {h} /\ Advance(t, c, h, "verify")
      <4>1. left[t][c] \ {h} # {}
        BY <2>3, <3>2
      <4> QED BY <2>3, <3>2, <4>1, AdvanceMoves DEF Inv, Slot
    <3> QED BY <2>1, <3>1, <3>2
  <2>5. Shapes'
    BY <2>2, <2>3, <2>4 DEF Inv, Shapes
  <2>6. Tracked(t, c)'
    BY <2>4 DEF Tracked
  <2> QED BY <2>2, <2>4, <2>5, <2>6, Local DEF Inv
<1> QED BY <1>1, <1>2

LEMMA VerifyStep ==
    ASSUME Inv, RecoveryAssumption, NEW t \in Calls, NEW c \in Contents, NEW h \in Hashes,
           Verify(t, c, h)
    PROVE  Inv'
<1>1. Quiet /\ h \in left[t][c] /\ slot[t][c] = "verify"
  BY DEF Verify, Quiet
<1>2. CASE ~Resolves(StoreOf[t], h)
  <2>1. Enter(t, c, "stale", {})
    BY <1>2 DEF Verify
  <2> QED BY <1>1, <2>1, Dropped DEF Slot
<1>3. CASE Resolves(StoreOf[t], h)
  <2>1. Advance(t, c, h, "cached")
    BY <1>3 DEF Verify
  <2>2. /\ slot' \in [Calls -> [Contents -> Slot]]
        /\ left' \in [Calls -> [Contents -> SUBSET Hashes]]
        /\ left'[t][c] = left[t][c] \ {h}
        /\ left[t][c] \ {h} = {} => slot'[t][c] = "cached"
        /\ left[t][c] \ {h} # {} => slot'[t][c] = slot[t][c]
        /\ Only(t, c)
    BY <2>1, AdvanceMoves DEF Inv, Slot
  <2>3. Shapes'
    BY <1>1, <2>2 DEF Inv, Shapes, Quiet
  <2>4. store' = store /\ lost' = lost /\ store' \in [Stores -> [Hashes -> Backing]]
    BY <1>1 DEF Quiet, Inv, Shapes
  <2>5. \A x \in MarkersOf[c] \ (left[t][c] \ {h}) : Backed(t, x)'
    BY <1>1, <1>3, <2>4 DEF Inv, Tracked, Backed, Resolves
  <2>6. Tracked(t, c)'
    BY <1>1, <2>2, <2>5 DEF Tracked
  <2> QED BY <2>2, <2>3, <2>4, <2>6, Local DEF Inv
<1> QED BY <1>2, <1>3

LEMMA PutStep ==
    ASSUME Inv, RecoveryAssumption, NEW t \in Calls, NEW c \in Contents, NEW h \in Hashes,
           Put(t, c, h) \/ MissTyped(t, c, h)
    PROVE  Inv'
<1>1. CASE Put(t, c, h)
  <2>1. Quiet /\ h \in left[t][c] /\ slot[t][c] = "crush"
    BY <1>1 DEF Put, Quiet
  <2>2. CASE left[t][c] = {h}
    <3>1. Enter(t, c, "persist", MarkersOf[c])
      BY <1>1, <2>2 DEF Put
    <3> QED BY <2>1, <3>1, Entered
  <2>3. CASE left[t][c] # {h}
    <3>1. Advance(t, c, h, "persist")
      BY <1>1, <2>3 DEF Put
    <3> QED BY <2>1, <2>3, <3>1, AdvanceStep DEF Slot
  <2> QED BY <2>2, <2>3
<1>2. CASE MissTyped(t, c, h)
  <2>1. Quiet /\ Enter(t, c, "failed", {})
    BY <1>2 DEF MissTyped, Quiet
  <2> QED BY <2>1, Dropped DEF Slot
<1> QED BY <1>1, <1>2

LEMMA PersistStep ==
    ASSUME Inv, RecoveryAssumption, NEW t \in Calls, NEW c \in Contents, NEW h \in Hashes,
           Persist(t, c, h)
    PROVE  Inv'
<1>1. PICK outcome \in WriteOutcomes :
         /\ Save(StoreOf[t], h, outcome)
         /\ IF outcome = "durable" THEN Advance(t, c, h, "computed")
            ELSE Enter(t, c, IF c \in Crushed THEN "failed" ELSE "vetoed", {})
  BY DEF Persist
<1>2. /\ store' \in [Stores -> [Hashes -> Backing]]
      /\ Losing
      /\ lost' \in [Calls -> SUBSET Hashes]
      /\ outcome = "durable" => store'[StoreOf[t]][h].row # None
  BY <1>1, SaveWrites DEF Inv
<1>3. now' = now /\ h \in left[t][c] /\ slot[t][c] = "persist"
  BY DEF Persist
<1>4. CASE outcome = "durable"
  <2>1. /\ slot' \in [Calls -> [Contents -> Slot]]
        /\ left' \in [Calls -> [Contents -> SUBSET Hashes]]
        /\ left'[t][c] = left[t][c] \ {h}
        /\ left[t][c] \ {h} = {} => slot'[t][c] = "computed"
        /\ left[t][c] \ {h} # {} => slot'[t][c] = slot[t][c]
        /\ Only(t, c)
    BY <1>1, <1>4, AdvanceMoves DEF Inv, Slot
  <2>2. ~Idle(t)
    BY <1>3 DEF Idle
  <2>3. \A x \in Hashes : OnDisk(t, x) => OnDisk(t, x)'
    BY <1>2, <2>2, Kept DEF Inv
  <2>4. MarkersOf[c] \subseteq Hashes
    BY DEF RecoveryAssumption
  <2>5. OnDisk(t, h)'
    BY <1>2, <1>4 DEF OnDisk
  <2>6. \A x \in MarkersOf[c] \ left[t][c] : OnDisk(t, x)
    BY <1>3 DEF Inv, Tracked
  <2>7. \A x \in MarkersOf[c] \ left'[t][c] : OnDisk(t, x)'
    BY <2>1, <2>3, <2>4, <2>5, <2>6
  <2>8. Tracked(t, c)'
    BY <1>3, <2>1, <2>7 DEF Tracked
  <2>9. Shapes'
    BY <1>2, <1>3, <2>1 DEF Inv, Shapes
  <2> QED BY <1>2, <2>1, <2>8, <2>9, Local DEF Inv
<1>5. CASE outcome # "durable"
  <2>1. PICK place \in {"failed", "vetoed"} : Enter(t, c, place, {})
    BY <1>1, <1>5
  <2>2. /\ slot' \in [Calls -> [Contents -> Slot]]
        /\ left' \in [Calls -> [Contents -> SUBSET Hashes]]
        /\ slot'[t][c] \in {"failed", "vetoed"}
        /\ Only(t, c)
    BY <2>1, EnterMoves DEF Inv, Slot
  <2>3. Tracked(t, c)'
    BY <2>2 DEF Tracked
  <2>4. Shapes'
    BY <1>2, <1>3, <2>2 DEF Inv, Shapes
  <2> QED BY <1>2, <2>2, <2>3, <2>4, Local DEF Inv
<1> QED BY <1>4, <1>5

LEMMA MergeStep ==
    ASSUME Inv, RecoveryAssumption, NEW t \in Calls, NEW c \in Contents,
           Accept(t, c) \/ Reject(t, c)
    PROVE  Inv'
<1>1. CASE Reject(t, c)
  <2>1. Goto(t, c, "original") /\ Quiet /\ UNCHANGED left
    BY <1>1 DEF Reject, Quiet
  <2> QED BY <2>1, Dropped DEF Slot
<1>2. CASE Accept(t, c)
  <2>1. Goto(t, c, "fresh") /\ Quiet /\ UNCHANGED left /\ slot[t][c] = "computed"
    BY <1>2 DEF Accept, Quiet
  <2>2. /\ slot' \in [Calls -> [Contents -> Slot]]
        /\ left' \in [Calls -> [Contents -> SUBSET Hashes]]
        /\ slot'[t][c] = "fresh"
        /\ Only(t, c)
    BY <2>1, GotoMoves DEF Inv, Slot
  <2>3. store' = store /\ lost' = lost /\ store' \in [Stores -> [Hashes -> Backing]]
    BY <2>1 DEF Quiet, Inv, Shapes
  <2>4. \A h \in MarkersOf[c] : OnDisk(t, h)'
    BY <2>1, <2>3 DEF Inv, Tracked, OnDisk
  <2>5. Tracked(t, c)'
    BY <2>2, <2>4 DEF Tracked
  <2>6. Shapes'
    BY <2>1, <2>2 DEF Inv, Shapes, Quiet
  <2> QED BY <2>2, <2>3, <2>5, <2>6, Local DEF Inv
<1> QED BY <1>1, <1>2

\* Steps of a whole call: its messages end in places that need no backing.
LEMMA CallStep ==
    ASSUME Inv, RecoveryAssumption, NEW t \in Calls,
           (\E request \in Requests[t] : StartCall(t, request)) \/ FailOpen(t) \/ Return(t)
    PROVE  Inv'
<1>1. \E f \in [Contents -> {"absent", "todo", "original"}] : slot' = [slot EXCEPT ![t] = f]
  <2>1. CASE \E request \in Requests[t] : StartCall(t, request)
    BY <2>1 DEF StartCall
  <2>2. CASE FailOpen(t)
    BY <2>2 DEF FailOpen
  <2>3. CASE Return(t)
    BY <2>3 DEF Return
  <2> QED BY <2>1, <2>2, <2>3
<1>2. /\ now' = now
      /\ store' = store
      /\ left' = left \/ left' = [left EXCEPT ![t] = [c \in Contents |-> {}]]
      /\ lost' = lost \/ lost' = [lost EXCEPT ![t] = {}]
  BY DEF StartCall, FailOpen, Return
<1>3. Shapes'
  <2>1. slot' \in [Calls -> [Contents -> Slot]]
    <3>1. PICK f \in [Contents -> {"absent", "todo", "original"}] : slot' = [slot EXCEPT ![t] = f]
      BY <1>1
    <3>2. f \in [Contents -> Slot]
      BY DEF Slot
    <3> QED BY <3>1, <3>2 DEF Inv, Shapes
  <2>2. left' \in [Calls -> [Contents -> SUBSET Hashes]]
    <3>1. [c \in Contents |-> {}] \in [Contents -> SUBSET Hashes]
      OBVIOUS
    <3> QED BY <1>2, <3>1 DEF Inv, Shapes
  <2>3. lost' \in [Calls -> SUBSET Hashes]
    BY <1>2 DEF Inv, Shapes
  <2> QED BY <1>2, <2>1, <2>2, <2>3 DEF Inv, Shapes
<1>4. ASSUME NEW u \in Calls, NEW c \in Contents PROVE Tracked(u, c)'
  <2>1. CASE u = t
    <3>1. slot'[u][c] \in {"absent", "todo", "original"}
      BY <1>1, <2>1 DEF Inv, Shapes
    <3> QED BY <3>1 DEF Tracked
  <2>2. CASE u # t
    <3>1. slot'[u][c] = slot[u][c] /\ left'[u][c] = left[u][c] /\ lost'[u] = lost[u]
      BY <1>1, <1>2, <2>2 DEF Inv, Shapes
    <3>2. store' \in [Stores -> [Hashes -> Backing]]
      BY <1>3 DEF Shapes
    <3> QED BY <1>2, <3>1, <3>2, Still DEF Inv
  <2> QED BY <2>1, <2>2
<1> QED BY <1>3, <1>4 DEF Inv

\* The stores lose entries: time passes, or another actor purges.
LEMMA LosingStep ==
    ASSUME Inv, RecoveryAssumption,
           Tick \/ (\E s \in Stores, h \in Hashes : Delete(s, h))
    PROVE  Inv'
<1>1. now' \in Times
  BY DEF Tick, Delete, Inv, Shapes, Times, RecoveryAssumption
<1>2. store' \in [Stores -> [Hashes -> Backing]]
  <2>1. CASE Tick
    <3>1. PICK reaped \in SUBSET Shadowing(now') :
             store' = [s \in Stores |-> [h \in Hashes |->
                 IF <<s, h>> \in reaped THEN Gone ELSE Unexpired(store[s][h], now')]]
      BY <2>1 DEF Tick
    <3>2. \A b \in Backing : Unexpired(b, now') \in Backing
      BY DEF Unexpired, Backing
    <3>3. Gone \in Backing /\ \A s \in Stores, h \in Hashes : store[s][h] \in Backing
      BY DEF Gone, Backing, Inv, Shapes
    <3> QED BY <3>1, <3>2, <3>3
  <2>2. CASE \E s \in Stores, h \in Hashes : Delete(s, h)
    BY <2>2 DEF Delete, Inv, Shapes, Gone, Backing
  <2> QED BY <2>1, <2>2
<1>3. Losing /\ slot' = slot /\ left' = left
  BY DEF Tick, Delete
<1>4. lost' \in [Calls -> SUBSET Hashes]
  BY <1>3 DEF Losing, Inv, Shapes
<1>5. Shapes'
  BY <1>1, <1>2, <1>3, <1>4 DEF Inv, Shapes
<1>6. ASSUME NEW t \in Calls, NEW c \in Contents PROVE Tracked(t, c)'
  BY <1>2, <1>3, Still DEF Inv
<1> QED BY <1>5, <1>6 DEF Inv

LEMMA StutterStep ==
    ASSUME Inv, RecoveryAssumption, UNCHANGED vars
    PROVE  Inv'
BY DEF vars, Inv, Shapes, Tracked, Backed, OnDisk, Resolves

LEMMA InitInv ==
    ASSUME RecoveryAssumption, Init
    PROVE  Inv
<1>1. Shapes
  BY DEF Init, RecoveryAssumption, Shapes, Times, Gone, Backing, Slot
<1>2. \A t \in Calls, c \in Contents : slot[t][c] = "absent"
  BY DEF Init
<1>3. \A t \in Calls, c \in Contents : Tracked(t, c)
  BY <1>2 DEF Tracked
<1> QED BY <1>1, <1>3 DEF Inv

LEMMA StepInv ==
    ASSUME RecoveryAssumption, Inv, [Next]_vars
    PROVE  Inv'
<1>1. CASE \E t \in Calls : \E request \in Requests[t] : StartCall(t, request)
  BY <1>1, CallStep
<1>2. ASSUME NEW t \in Calls, NEW c \in Contents,
             Lookup(t, c) \/ CompressPending(t, c) \/ Accept(t, c) \/ Reject(t, c)
      PROVE  Inv'
  <2>1. CASE Lookup(t, c)
    BY <2>1, LookupStep, MirrorStep, VerifyStep DEF Lookup
  <2>2. CASE CompressPending(t, c)
    BY <2>2, PutStep, PersistStep DEF CompressPending
  <2>3. CASE Accept(t, c) \/ Reject(t, c)
    BY <2>3, MergeStep
  <2> QED BY <1>2, <2>1, <2>2, <2>3
<1>3. CASE \E t \in Calls : FailOpen(t) \/ Return(t)
  BY <1>3, CallStep
<1>4. CASE Tick \/ \E s \in Stores, h \in Hashes : Delete(s, h)
  BY <1>4, LosingStep
<1>5. CASE UNCHANGED vars
  BY <1>5, StutterStep
<1> QED BY <1>1, <1>2, <1>3, <1>4, <1>5 DEF Next

-----------------------------------------------------------------------------

\* Whatever a call ships, every marker of it resolves in the call's own store
\* unless that store lost the entry after the call had begun: the lookup's
\* verification and persist-or-veto close every interleaving of the caches.
THEOREM ShippedMarkersResolve == Spec => []ShippedResolves
<1>1. RecoveryAssumption
  BY RecoveryAssumption
<1>2. Init => Inv
  BY <1>1, InitInv
<1>3. Inv /\ [Next]_vars => Inv'
  BY <1>1, StepInv
<1>4. Inv => ShippedResolves
  BY DEF Inv, Tracked, ShippedResolves, Shipped, Backed, OnDisk, Resolves, Held
<1> QED BY <1>2, <1>3, <1>4, PTL DEF Spec

\* A freshly compressed message never ships on a volatile copy: each marker's
\* row reached the disk before, and if it is gone, it was lost during the call.
THEOREM FreshMarkersDurable == Spec => []FreshIsDurable
<1>1. RecoveryAssumption
  BY RecoveryAssumption
<1>2. Init => Inv
  BY <1>1, InitInv
<1>3. Inv /\ [Next]_vars => Inv'
  BY <1>1, StepInv
<1>4. Inv => FreshIsDurable
  BY DEF Inv, Tracked, FreshIsDurable, OnDisk
<1> QED BY <1>2, <1>3, <1>4, PTL DEF Spec

\* Both: what a call ships is backed, and durably if it compressed it.
THEOREM ShippedMarkersBacked == Spec => []MarkersBacked
<1>1. ShippedResolves /\ FreshIsDurable => MarkersBacked
  BY DEF MarkersBacked
<1> QED BY <1>1, ShippedMarkersResolve, FreshMarkersDurable, PTL

-----------------------------------------------------------------------------
(* The engine's store and the result cache are well formed                   *)

\* A set of positions has one at each rank.
LEMMA Ranks ==
    ASSUME NEW n \in Nat, NEW P \in SUBSET (1..n), NEW m, m = Cardinality(P)
    PROVE  /\ m \in Nat /\ m <= n
           /\ \A r \in 1..m : \E i \in P : Cardinality({j \in P : j < i}) = r - 1
<1> DEFINE Below(i) == {j \in P : j < i}
           rank == [i \in P |-> Cardinality(Below(i)) + 1]
<1>1. /\ IsFiniteSet(1..n) /\ Cardinality(1..n) = n
      /\ IsFiniteSet(P) /\ m \in Nat /\ m <= n
    <2>1. 1 \in Int /\ n \in Int
        OBVIOUS
    <2>2. IsFiniteSet(1..n) /\ Cardinality(1..n) = IF 1 > n THEN 0 ELSE n - 1 + 1
        BY <2>1, FS_Interval
    <2>3. Cardinality(1..n) = n
        BY <2>2
    <2> QED BY <2>2, <2>3, FS_Subset, FS_CardinalityType
<1>2. ASSUME NEW i \in P
      PROVE  IsFiniteSet(Below(i)) /\ Cardinality(Below(i)) \in Nat /\ Cardinality(Below(i)) < m
    <2> DEFINE B == Below(i)
    <2>1. B \subseteq P /\ i \notin B
        OBVIOUS
    <2> HIDE DEF B
    <2>2. IsFiniteSet(B) /\ Cardinality(B) \in Nat /\ Cardinality(B) <= m /\ Cardinality(B) # m
        BY <1>1, <2>1, FS_Subset, FS_CardinalityType
    <2> QED BY <1>1, <2>2 DEF B
<1>3. ASSUME NEW i \in P, NEW j \in P, i < j PROVE rank[i] < rank[j]
    <2> DEFINE A == Below(i)
               B == Below(j)
    <2>0. \A k \in P : k \in Nat
        OBVIOUS
    <2>1. A \subseteq B /\ i \in B /\ i \notin A
        <3>1. ASSUME NEW k \in P, k < i PROVE k < j
            BY <1>3, <2>0, <3>1
        <3>2. ~(i < i)
            BY <2>0
        <3> QED BY <1>3, <3>1, <3>2
    <2>2. IsFiniteSet(B) /\ Cardinality(A) \in Nat /\ Cardinality(B) \in Nat
        BY <1>2
    <2>3. rank[i] = Cardinality(A) + 1 /\ rank[j] = Cardinality(B) + 1
        OBVIOUS
    <2> HIDE DEF A, B, rank
    <2>4. Cardinality(A) <= Cardinality(B) /\ Cardinality(A) # Cardinality(B)
        BY <2>1, <2>2, FS_Subset
    <2> QED BY <2>2, <2>3, <2>4
<1>4. rank \in [P -> 1..m] /\ \A i \in P : rank[i] \in Int /\ rank[i] = Cardinality(Below(i)) + 1
    <2>1. ASSUME NEW i \in P PROVE rank[i] \in 1..m /\ rank[i] \in Int /\ rank[i] = Cardinality(Below(i)) + 1
        <3>1. PICK b : b = Cardinality(Below(i))
            OBVIOUS
        <3>2. b \in Nat /\ b < m /\ rank[i] = b + 1
            BY <1>2, <3>1
        <3>3. rank[i] = Cardinality(Below(i)) + 1
            OBVIOUS
        <3> HIDE DEF rank
        <3> QED BY <1>1, <3>2, <3>3
    <2>2. rank = [i \in P |-> rank[i]]
        OBVIOUS
    <2> HIDE DEF rank, Below
    <2> QED BY <2>1, <2>2
<1> HIDE DEF rank
<1>5. rank \in Injection(P, 1..m)
    <2>1. \A i, j \in P : rank[i] = rank[j] => i = j
        <3> SUFFICES ASSUME NEW i \in P, NEW j \in P, rank[i] = rank[j], i # j PROVE FALSE
            OBVIOUS
        <3>1. i < j \/ j < i
            OBVIOUS
        <3> QED BY <1>3, <1>4, <3>1
    <2> QED BY <1>4, <2>1 DEF Injection, IsInjective
<1>6. IsFiniteSet(1..m) /\ Cardinality(1..m) = m
    <2>1. 1 \in Int /\ m \in Int
        BY <1>1
    <2>2. IsFiniteSet(1..m) /\ Cardinality(1..m) = IF 1 > m THEN 0 ELSE m - 1 + 1
        BY <2>1, FS_Interval
    <2> QED BY <1>1, <2>2
<1>7. ASSUME NEW r \in 1..m PROVE \E i \in P : Cardinality({j \in P : j < i}) = r - 1
    <2>1. rank \in Surjection(P, 1..m)
        BY <1>1, <1>5, <1>6, FS_Injection
    <2>2. PICK i \in P : rank[i] = r
        BY <2>1 DEF Surjection
    <2>3. PICK b : b = Cardinality(Below(i))
        OBVIOUS
    <2>4. b \in Nat /\ r = b + 1
        BY <1>2, <1>4, <2>2, <2>3
    <2>5. b = r - 1
        BY <2>4
    <2> QED BY <2>3, <2>5
<1> QED BY <1>1, <1>7

\* Entries are left in their order: none is new, and none comes twice.
LEMMA SublistOf ==
    ASSUME NEW S, NEW q \in Seq(S), NEW P, P \subseteq DOMAIN q, NEW s, s = Sublist(q, P)
    PROVE  /\ s \in Seq(S) /\ Len(s) \in Nat /\ Len(s) <= Len(q) /\ DOMAIN s = 1..Len(s)
           /\ \E place \in [1..Len(s) -> 1..Len(q)] :
                /\ \A a, b \in 1..Len(s) : place[a] = place[b] => a = b
                /\ \A a \in 1..Len(s) : s[a] = q[place[a]]
<1>1. PICK n, m : n = Len(q) /\ m = Cardinality(P)
    OBVIOUS
<1>2. n \in Nat /\ P \in SUBSET (1..n) /\ DOMAIN q = 1..n
    BY <1>1
<1>3. /\ m \in Nat /\ m <= n
      /\ \A r \in 1..m : \E i \in P : Cardinality({j \in P : j < i}) = r - 1
    BY <1>1, <1>2, Ranks
<1> DEFINE at(r) == CHOOSE i \in P : Cardinality({j \in P : j < i}) = r - 1
           place == [r \in 1..m |-> at(r)]
<1>4. ASSUME NEW r \in 1..m PROVE at(r) \in P /\ Cardinality({j \in P : j < at(r)}) = r - 1
    BY <1>3
<1>5. s = [r \in 1..m |-> q[at(r)]]
    BY <1>1 DEF Sublist
<1> HIDE DEF at
<1>6. place \in [1..m -> 1..n] /\ \A r \in 1..m : s[r] = q[place[r]]
    BY <1>2, <1>4, <1>5
<1>7. ASSUME NEW a \in 1..m, NEW b \in 1..m, place[a] = place[b] PROVE a = b
    <2>1. at(a) = at(b)
        BY <1>7
    <2>2. a - 1 = b - 1
        BY <1>4, <2>1
    <2> QED BY <2>2
<1>8. s \in [1..m -> S]
    <2>1. \A i \in P : q[i] \in S
        BY <1>2
    <2>2. \A r \in 1..m : q[at(r)] \in S
        BY <1>4, <2>1
    <2> QED BY <1>5, <2>2
<1>9. s \in Seq(S) /\ Len(s) = m /\ DOMAIN s = 1..m
    BY <1>3, <1>8
<1> HIDE DEF place
<1> QED BY <1>1, <1>3, <1>6, <1>7, <1>9

\* A tier of the cache: within the cap, one entry per content.
Tier(tier) ==
    /\ tier \in Seq(Stamped(Contents)) /\ Len(tier) <= TierCap
    /\ \A i, j \in 1..Len(tier) : tier[i].key = tier[j].key => i = j

LEMMA SublistFits ==
    ASSUME NEW tier, Tier(tier), NEW P, P \subseteq DOMAIN tier, TierCap \in Nat
    PROVE  Tier(Sublist(tier, P))
<1>1. PICK s, S : s = Sublist(tier, P) /\ S = Stamped(Contents)
    OBVIOUS
<1>2. tier \in Seq(S) /\ Len(tier) <= TierCap /\ Len(tier) \in Nat
    BY <1>1 DEF Tier
<1>3. s \in Seq(S) /\ Len(s) \in Nat /\ Len(s) <= Len(tier)
    BY <1>1, <1>2, SublistOf
<1>4. PICK place \in [1..Len(s) -> 1..Len(tier)] :
        /\ \A a, b \in 1..Len(s) : place[a] = place[b] => a = b
        /\ \A a \in 1..Len(s) : s[a] = tier[place[a]]
    BY <1>1, <1>2, SublistOf
<1>5. ASSUME NEW a \in 1..Len(s), NEW b \in 1..Len(s), s[a].key = s[b].key PROVE a = b
    <2>1. place[a] \in 1..Len(tier) /\ place[b] \in 1..Len(tier)
        BY <1>4
    <2>2. tier[place[a]].key = tier[place[b]].key
        BY <1>4, <1>5
    <2>3. place[a] = place[b]
        BY <2>1, <2>2 DEF Tier
    <2> QED BY <1>4, <2>3
<1>6. Len(s) <= TierCap
    BY <1>2, <1>3
<1> QED BY <1>1, <1>3, <1>5, <1>6 DEF Tier

LEMMA WithoutFits ==
    ASSUME NEW tier, Tier(tier), NEW c, TierCap \in Nat
    PROVE  Tier(Without(tier, c))
<1>1. PICK P : P = {i \in DOMAIN tier : tier[i].key # c}
    OBVIOUS
<1>2. Without(tier, c) = Sublist(tier, P) /\ P \subseteq DOMAIN tier
    BY <1>1 DEF Without
<1> QED BY <1>2, SublistFits

LEMMA SweptFits ==
    ASSUME NEW tier, Tier(tier), TierCap \in Nat
    PROVE  Tier(Swept(tier))
<1>1. PICK P : P = {i \in DOMAIN tier : Fresh(tier[i])}
    OBVIOUS
<1>2. Swept(tier) = Sublist(tier, P) /\ P \subseteq DOMAIN tier
    BY <1>1 DEF Swept
<1> QED BY <1>2, SublistFits

LEMMA TierPutFits ==
    ASSUME NEW tier, Tier(tier), NEW c \in Contents, now \in Times, TierCap \in Nat \ {0}
    PROVE  Tier(TierPut(tier, c))
<1>1. PICK n, S : n = Len(tier) /\ S = Stamped(Contents)
    OBVIOUS
<1>2. /\ tier \in Seq(S) /\ n \in Nat /\ n <= TierCap /\ DOMAIN tier = 1..n
      /\ \A i, j \in 1..n : tier[i].key = tier[j].key => i = j
    BY <1>1 DEF Tier
<1>3. CASE Has(tier, c)
    <2>1. PICK i : i = Stamp(tier, c)
        OBVIOUS
    <2>2. i \in 1..n /\ tier[i].key = c
        BY <1>2, <1>3, <2>1 DEF Has, Stamp
    <2>3. PICK e : e = [tier[i] EXCEPT !.at = now]
        OBVIOUS
    <2>4. tier[i] \in S
        BY <1>1, <1>2, <2>2
    <2>5. e \in S /\ e.key = c
        BY <1>1, <2>2, <2>3, <2>4 DEF Stamped
    <2>6. PICK s : s = [tier EXCEPT ![i] = e]
        OBVIOUS
    <2>7. TierPut(tier, c) = s
        BY <1>3, <2>1, <2>3, <2>6 DEF TierPut
    <2>8. s \in [1..n -> S] /\ \A j \in 1..n : s[j].key = tier[j].key
        BY <1>1, <1>2, <2>2, <2>5, <2>6
    <2>9. s \in Seq(S) /\ Len(s) = n
        BY <1>2, <2>8
    <2> QED BY <1>1, <1>2, <2>7, <2>8, <2>9 DEF Tier
<1>4. CASE ~Has(tier, c)
    <2>1. PICK e, longer : e = [key |-> c, at |-> now] /\ longer = Append(tier, e)
        OBVIOUS
    <2>2. e \in S /\ e.key = c
        BY <1>1, <2>1 DEF Stamped
    <2>3. TierPut(tier, c) = IF Len(longer) > TierCap THEN Tail(longer) ELSE longer
        BY <1>4, <2>1 DEF TierPut
    <2>4. /\ longer \in Seq(S) /\ Len(longer) = Len(tier) + 1 /\ longer[Len(tier) + 1] = e
          /\ \A i \in 1..Len(tier) : longer[i] = tier[i]
        BY <1>2, <2>1, <2>2
    <2>5. /\ longer \in Seq(S) /\ Len(longer) = n + 1 /\ longer[n + 1] = e
          /\ \A i \in 1..n : longer[i] = tier[i]
        BY <1>1, <2>4
    <2>6. \A i \in 1..n : tier[i].key # c
        BY <1>2, <1>4 DEF Has
    <2>7. ASSUME NEW i \in 1..(n + 1), NEW j \in 1..(n + 1), longer[i].key = longer[j].key PROVE i = j
        <3>1. (i \in 1..n \/ i = n + 1) /\ (j \in 1..n \/ j = n + 1)
            BY <1>2
        <3> QED BY <1>2, <2>2, <2>5, <2>6, <2>7, <3>1
    <2>8. CASE Len(longer) > TierCap
        <3>1. PICK s : s = Tail(longer)
            OBVIOUS
        <3>2. longer # <<>>
            BY <1>2, <2>5
        <3>3. s \in Seq(S) /\ Len(s) = Len(longer) - 1 /\ \A i \in 1..Len(s) : s[i] = longer[i + 1]
            BY <2>5, <3>1, <3>2
        <3>4. Len(s) = n
            BY <1>2, <2>5, <3>3
        <3>5. ASSUME NEW i \in 1..n, NEW j \in 1..n, s[i].key = s[j].key PROVE i = j
            <4>1. i + 1 \in 1..(n + 1) /\ j + 1 \in 1..(n + 1)
                BY <1>2
            <4>2. s[i] = longer[i + 1] /\ s[j] = longer[j + 1]
                BY <3>3, <3>4
            <4>3. i + 1 = j + 1
                BY <2>7, <3>5, <4>1, <4>2
            <4> QED BY <1>2, <4>3
        <3>6. TierPut(tier, c) = s
            BY <2>3, <2>8, <3>1
        <3> QED BY <1>1, <1>2, <3>3, <3>4, <3>5, <3>6 DEF Tier
    <2>9. CASE ~(Len(longer) > TierCap)
        <3>1. TierPut(tier, c) = longer /\ n + 1 <= TierCap
            BY <1>2, <2>3, <2>5, <2>9
        <3> QED BY <1>1, <2>5, <2>7, <3>1 DEF Tier
    <2> QED BY <2>8, <2>9
<1> QED BY <1>3, <1>4

\* What a call finds in the engine's store and in the cache.
Caches ==
    /\ engine \in Seq(Stamped(Hashes))
    /\ Tier(results) /\ Tier(skip)
    /\ insertions \in Nat
    /\ tight \in [Calls -> BOOLEAN]

LEMMA InsertFits ==
    ASSUME RecoveryAssumption, Caches, NEW newResults, NEW newSkip, Tier(newResults), Tier(newSkip),
           Insert(newResults, newSkip)
    PROVE  Tier(results)' /\ Tier(skip)' /\ insertions' \in Nat
<1>1. insertions \in Nat /\ TierCap \in Nat
    BY DEF RecoveryAssumption, Caches
<1>2. Tier(Swept(newResults)) /\ Tier(Swept(newSkip))
    BY <1>1, SweptFits
<1>3. /\ results' \in {newResults, Swept(newResults)} /\ skip' \in {newSkip, Swept(newSkip)}
      /\ insertions' \in {0, insertions + 1}
    BY DEF Insert
<1>4. Tier(results') /\ Tier(skip')
    BY <1>2, <1>3
<1> QED BY <1>1, <1>3, <1>4 DEF Tier

LEMMA EnginePutFits ==
    ASSUME RecoveryAssumption, Caches, now \in Times, NEW h \in Hashes
    PROVE  EnginePut(h) \in Seq(Stamped(Hashes))
<1>1. PICK e, S : e = [key |-> h, at |-> now] /\ S = Stamped(Hashes)
    OBVIOUS
<1>2. e \in S /\ engine \in Seq(S) /\ EngineCap \in Nat \ {0}
    BY <1>1 DEF Stamped, Caches, RecoveryAssumption
<1>3. PICK P, s : P = {i \in DOMAIN engine : engine[i].key # h} /\ s = Sublist(engine, P)
    OBVIOUS
<1>4. s = Without(engine, h) /\ P \subseteq DOMAIN engine
    BY <1>3 DEF Without
<1>5. s \in Seq(S)
    <2>1. PICK q, R : q = engine /\ R = P
        OBVIOUS
    <2>2. q \in Seq(S) /\ R \subseteq DOMAIN q /\ s = Sublist(q, R)
        BY <1>2, <1>3, <1>4, <2>1
    <2> QED BY <2>2, SublistOf
<1>6. Append(s, e) \in Seq(S) /\ Append(engine, e) \in Seq(S)
    BY <1>2, <1>5
<1>7. ASSUME ~(Len(engine) < EngineCap) PROVE Append(Tail(engine), e) \in Seq(S)
    <2>1. Len(engine) \in Nat /\ Len(engine) # 0
        BY <1>2, <1>7
    <2>2. engine # <<>>
        BY <2>1
    <2>3. Tail(engine) \in Seq(S)
        BY <1>2, <2>2
    <2> QED BY <1>2, <2>3
<1>8. \/ EnginePut(h) = Append(s, e)
      \/ EnginePut(h) = Append(engine, e)
      \/ ~(Len(engine) < EngineCap) /\ EnginePut(h) = Append(Tail(engine), e)
    BY <1>1, <1>4 DEF EnginePut
<1> QED BY <1>1, <1>6, <1>7, <1>8

LEMMA CachesInit ==
    ASSUME RecoveryAssumption, Init
    PROVE  Caches
<1>1. engine \in Seq(Stamped(Hashes)) /\ results = <<>> /\ skip = <<>> /\ insertions = 0
    BY DEF Init
<1>2. TierCap \in Nat /\ <<>> \in Seq(Stamped(Contents)) /\ Len(<<>>) = 0 /\ 1..0 = {}
    BY DEF RecoveryAssumption
<1>3. Tier(results) /\ Tier(skip)
    BY <1>1, <1>2 DEF Tier
<1>4. tight \in [Calls -> BOOLEAN]
    BY DEF Init
<1> QED BY <1>1, <1>3, <1>4 DEF Caches

LEMMA CachesKept ==
    ASSUME Caches, UNCHANGED <<engine, results, skip, insertions, tight>>
    PROVE  Caches'
BY DEF Caches, Tier

\* A step of one message.
LEMMA CachesMessage ==
    ASSUME RecoveryAssumption, Caches, now \in Times, NEW t \in Calls, NEW c \in Contents,
           Lookup(t, c) \/ CompressPending(t, c) \/ Accept(t, c) \/ Reject(t, c)
    PROVE  Caches'
<1>1. TierCap \in Nat \ {0} /\ Tier(results) /\ Tier(skip)
    BY DEF RecoveryAssumption, Caches
<1>2. Tier(Without(results, c)) /\ Tier(Without(skip, c)) /\ Tier(TierPut(results, c)) /\ Tier(TierPut(skip, c))
    BY <1>1, WithoutFits, TierPutFits
<1>3. ASSUME results' \in {results, Without(results, c)}, skip' \in {skip, Without(skip, c)},
             UNCHANGED <<engine, insertions, tight>>
      PROVE  Caches'
    <2>1. Tier(results') /\ Tier(skip')
        BY <1>1, <1>2, <1>3
    <2> QED BY <1>3, <2>1 DEF Caches, Tier
<1>4. ASSUME NEW newResults, NEW newSkip, Tier(newResults), Tier(newSkip), Insert(newResults, newSkip),
             UNCHANGED <<engine, tight>>
      PROVE  Caches'
    <2>1. Tier(results)' /\ Tier(skip)' /\ insertions' \in Nat
        BY <1>4, InsertFits
    <2> QED BY <1>4, <2>1 DEF Caches
<1>5. CASE LookupSkip(t, c) \/ LookupMiss(t, c) \/ LookupHit(t, c) \/ Invalidate(t, c)
    BY <1>3, <1>5 DEF LookupSkip, LookupMiss, LookupHit, Invalidate
<1>6. CASE MoveToSkip(t, c)
    <2>1. Insert(Without(results, c), TierPut(skip, c)) /\ UNCHANGED <<engine, tight>>
        BY <1>6 DEF MoveToSkip
    <2> QED BY <1>2, <1>4, <2>1
<1>7. CASE \E h \in Hashes : MirrorSkip(t, c, h) \/ Mirror(t, c, h) \/ Verify(t, c, h)
    BY <1>7, CachesKept DEF MirrorSkip, Mirror, Verify
<1>8. CASE \E h \in Hashes : MissTyped(t, c, h) \/ Persist(t, c, h)
    BY <1>8, CachesKept DEF MissTyped, Persist
<1>9. ASSUME NEW h \in Hashes, Put(t, c, h) PROVE Caches'
    <2>1. engine' = EnginePut(h) /\ UNCHANGED <<results, skip, insertions, tight>>
        BY <1>9 DEF Put
    <2>2. engine' \in Seq(Stamped(Hashes))
        BY <2>1, EnginePutFits
    <2> QED BY <2>1, <2>2 DEF Caches, Tier
<1>10. CASE Accept(t, c)
    <2>1. Insert(TierPut(results, c), skip) /\ UNCHANGED <<engine, tight>>
        BY <1>10 DEF Accept
    <2> QED BY <1>1, <1>2, <1>4, <2>1
<1>11. CASE Reject(t, c)
    <2>1. Insert(results, TierPut(skip, c)) /\ UNCHANGED <<engine, tight>>
        BY <1>11 DEF Reject
    <2> QED BY <1>1, <1>2, <1>4, <2>1
<1> QED BY <1>5, <1>6, <1>7, <1>8, <1>9, <1>10, <1>11 DEF Lookup, CompressPending

LEMMA CachesStep ==
    ASSUME RecoveryAssumption, Caches, now \in Times, [Next]_vars
    PROVE  Caches'
<1>1. ASSUME NEW t \in Calls, NEW request \in Requests[t], StartCall(t, request) PROVE Caches'
    <2>1. request \in Request
        BY DEF RecoveryAssumption
    <2>2. request.tight \in BOOLEAN
        BY <2>1, Zenon DEF Request
    <2>3. /\ tight' = [tight EXCEPT ![t] = request.tight]
          /\ UNCHANGED <<engine, results, skip, insertions>>
        BY <1>1 DEF StartCall
    <2>4. tight' \in [Calls -> BOOLEAN]
        BY <2>2, <2>3, Zenon DEF Caches
    <2> QED BY <2>3, <2>4 DEF Caches, Tier
<1>2. ASSUME NEW t \in Calls, Return(t) PROVE Caches'
    <2>1. tight' = [tight EXCEPT ![t] = FALSE] /\ UNCHANGED <<engine, results, skip, insertions>>
        BY <1>2 DEF Return
    <2>2. tight' \in [Calls -> BOOLEAN]
        BY <2>1, Zenon DEF Caches
    <2> QED BY <2>1, <2>2 DEF Caches, Tier
<1>3. CASE \E t \in Calls : FailOpen(t)
    BY <1>3, CachesKept DEF FailOpen
<1>4. CASE Tick \/ \E s \in Stores, h \in Hashes : Delete(s, h)
    BY <1>4, CachesKept DEF Tick, Delete
<1>5. CASE UNCHANGED vars
    BY <1>5, CachesKept DEF vars
<1> QED BY <1>1, <1>2, <1>3, <1>4, <1>5, CachesMessage DEF Next

\* For any contents, caps and sweep intervals: whatever calls interleave lookups,
\* relocations between the tiers, sweeps and insertions, each tier stays within its
\* cap and holds one entry per content (router_cache.py:204), and every variable has
\* its type.
THEOREM CacheAlwaysWellFormed == Spec => []WellFormed
<1>1. RecoveryAssumption
  BY RecoveryAssumption
<1>2. Init => Inv /\ Caches
  BY <1>1, InitInv, CachesInit
<1>3. Inv /\ Caches /\ [Next]_vars => Inv' /\ Caches'
  BY <1>1, StepInv, CachesStep DEF Inv, Shapes
<1>4. Inv /\ Caches => WellFormed
  <2> SUFFICES ASSUME Inv, Caches PROVE WellFormed
    OBVIOUS
  <2>1. results \in Seq(Stamped(Contents)) /\ skip \in Seq(Stamped(Contents))
    BY DEF Caches, Tier
  <2>2. TypeOK
    BY <2>1 DEF Inv, Shapes, Caches, TypeOK
  <2>3. ASSUME NEW tier, Tier(tier)
        PROVE  /\ Len(tier) <= TierCap
               /\ \A i, j \in DOMAIN tier : tier[i].key = tier[j].key => i = j
    BY <2>3 DEF Tier
  <2>4. CacheBounded
    BY <2>3 DEF Caches, CacheBounded
  <2> QED BY <2>2, <2>4 DEF WellFormed
<1> QED BY <1>2, <1>3, <1>4, PTL DEF Spec

=============================================================================
