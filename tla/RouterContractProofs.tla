------------------------ MODULE RouterContractProofs ------------------------
(***************************************************************************)
(* RouterRecovery implements RecoveryContract, for any contents, calls,    *)
(* stores and capacities.  A step that moves a message between places that *)
(* are all open to the caller is a stutter of the contract; the steps that *)
(* end a message are its decisions, which the invariant of                 *)
(* RouterRecoveryProofs and the threshold of the lookup make lawful.       *)
(***************************************************************************)
EXTENDS RouterRecoveryProofs

\* A result a call is about to serve from the cache clears the call's threshold.
Cleared ==
    /\ tight \in [Calls -> BOOLEAN]
    /\ \A t \in Calls, c \in Contents :
          slot[t][c] \in {"mirror", "verify", "cached"} => ~Rejects(t, c)

\* The caller sees no difference.
Unseen == Decided' = Decided /\ tight' = tight

\* One message of one call is decided.
Decides(t, c, what) ==
    /\ OutcomeOf(slot[t][c]) = "open"
    /\ Decided' = [Decided EXCEPT ![t][c] = what]
    /\ tight' = tight
    /\ Quiet

-----------------------------------------------------------------------------
(* What a step looks like to the caller *)

LEMMA DecidedMoves ==
    ASSUME Shapes, slot' \in [Calls -> [Contents -> Slot]],
           NEW t \in Calls, NEW c \in Contents, Only(t, c)
    PROVE  Decided' = [Decided EXCEPT ![t][c] = OutcomeOf(slot'[t][c])]
<1>1. \A u \in Calls, d \in Contents :
         Decided'[u][d] = OutcomeOf(slot'[u][d]) /\ Decided[u][d] = OutcomeOf(slot[u][d])
  BY DEF Decided
<1>2. \A u \in Calls, d \in Contents : u # t \/ d # c => slot'[u][d] = slot[u][d]
  BY DEF Only
<1> DEFINE now_ == [Decided EXCEPT ![t][c] = OutcomeOf(slot'[t][c])]
<1>3. \A u \in Calls, d \in Contents : Decided'[u][d] = now_[u][d]
  BY <1>1, <1>2 DEF Decided
<1> QED BY <1>3 DEF Decided

\* A message that goes from one open place to another.
LEMMA OpenMove ==
    ASSUME Shapes, slot' \in [Calls -> [Contents -> Slot]],
           NEW t \in Calls, NEW c \in Contents, Only(t, c),
           OutcomeOf(slot'[t][c]) = OutcomeOf(slot[t][c])
    PROVE  Decided' = Decided
<1>1. \A u \in Calls, d \in Contents : OutcomeOf(slot'[u][d]) = OutcomeOf(slot[u][d])
  BY DEF Only
<1> QED BY <1>1 DEF Decided

LEMMA SameStores ==
    ASSUME store' = store
    PROVE  HeldIn' = HeldIn /\ DurableIn' = DurableIn
BY DEF HeldIn, DurableIn

LEMMA Stutters ==
    ASSUME Quiet, Unseen
    PROVE  UNCHANGED Contract!contractVars
<1>1. HeldIn' = HeldIn /\ DurableIn' = DurableIn
  BY SameStores DEF Quiet
<1> QED BY <1>1 DEF Contract!contractVars, Quiet, Unseen

LEMMA Settles ==
    ASSUME NEW t \in Calls, NEW c \in Contents, NEW what, Decides(t, c, what)
    PROVE  Contract!Settle(t, c, what)
<1>1. HeldIn' = HeldIn /\ DurableIn' = DurableIn
  BY SameStores DEF Decides, Quiet
<1>2. Decided[t][c] = "open"
  BY DEF Decides, Decided
<1> QED BY <1>1, <1>2 DEF Contract!Settle, Decides, Quiet

LEMMA IdleIsFree ==
    ASSUME NEW t \in Calls
    PROVE  Contract!Free(t) <=> Idle(t)
BY DEF Contract!Free, Idle, Decided, OutcomeOf

\* Whatever the stores do, they do by themselves.
LEMMA Changes ==
    ASSUME Shapes, RecoveryAssumption, store' \in [Stores -> [Hashes -> Backing]],
           Losing, Unseen
    PROVE  Contract!Change
<1>1. HeldIn' \in [Stores -> SUBSET Hashes] /\ DurableIn' \in [Stores -> SUBSET Hashes]
  BY DEF HeldIn, DurableIn
<1>2. \A s \in Stores : DurableIn'[s] \subseteq HeldIn'[s]
  BY DEF HeldIn, DurableIn, Held
<1>3. ASSUME NEW t \in Calls
      PROVE  lost'[t] = IF Contract!Free(t) THEN {} ELSE lost[t]
                 \cup (HeldIn[StoreOf[t]] \ HeldIn'[StoreOf[t]])
                 \cup (DurableIn[StoreOf[t]] \ DurableIn'[StoreOf[t]])
  <2>1. StoreOf[t] \in Stores
    BY DEF RecoveryAssumption
  <2>2. HeldIn[StoreOf[t]] = {h \in Hashes : Held(store[StoreOf[t]][h])}
    BY <2>1 DEF HeldIn
  <2>3. HeldIn'[StoreOf[t]] = {h \in Hashes : Held(store'[StoreOf[t]][h])}
    BY <2>1 DEF HeldIn
  <2>4. DurableIn[StoreOf[t]] = {h \in Hashes : store[StoreOf[t]][h].row # None}
    BY <2>1 DEF DurableIn
  <2>5. DurableIn'[StoreOf[t]] = {h \in Hashes : store'[StoreOf[t]][h].row # None}
    BY <2>1 DEF DurableIn
  <2> DEFINE gone == {h \in Hashes :
        \/ Held(store[StoreOf[t]][h]) /\ ~Held(store'[StoreOf[t]][h])
        \/ store[StoreOf[t]][h].row # None /\ store'[StoreOf[t]][h].row = None}
  <2>6. lost'[t] = IF Idle(t) THEN {} ELSE lost[t] \cup gone
    BY DEF Losing
  <2>7. gone = (HeldIn[StoreOf[t]] \ HeldIn'[StoreOf[t]])
               \cup (DurableIn[StoreOf[t]] \ DurableIn'[StoreOf[t]])
    BY <2>2, <2>3, <2>4, <2>5
  <2> HIDE DEF gone
  <2> QED BY <2>6, <2>7, IdleIsFree
<1>4. lost' = [t \in Calls |-> IF Contract!Free(t) THEN {} ELSE lost[t]
           \cup (HeldIn[StoreOf[t]] \ HeldIn'[StoreOf[t]])
           \cup (DurableIn[StoreOf[t]] \ DurableIn'[StoreOf[t]])]
  BY <1>3 DEF Losing
<1> QED BY <1>1, <1>2, <1>4 DEF Contract!Change, Unseen

-----------------------------------------------------------------------------
(* The steps of one message *)

\* It is put in a place, or stays where it is with a marker less.
Places(t, c, place) ==
    \/ Goto(t, c, place) /\ UNCHANGED left
    \/ \E markers \in SUBSET Hashes : Enter(t, c, place, markers)
    \/ \E h \in Hashes : Advance(t, c, h, place)

LEMMA Placed ==
    ASSUME Shapes, NEW t \in Calls, NEW c \in Contents, NEW place \in Slot, Places(t, c, place)
    PROVE  /\ slot' \in [Calls -> [Contents -> Slot]]
           /\ slot'[t][c] \in {place, slot[t][c]}
           /\ Only(t, c)
<1>1. CASE Goto(t, c, place) /\ UNCHANGED left
  BY <1>1, GotoMoves
<1>2. CASE \E markers \in SUBSET Hashes : Enter(t, c, place, markers)
  BY <1>2, EnterMoves
<1>3. CASE \E h \in Hashes : Advance(t, c, h, place)
  <2>1. PICK h \in Hashes : Advance(t, c, h, place)
    BY <1>3
  <2>2. /\ slot' \in [Calls -> [Contents -> Slot]]
        /\ left[t][c] \ {h} = {} => slot'[t][c] = place
        /\ left[t][c] \ {h} # {} => slot'[t][c] = slot[t][c]
        /\ Only(t, c)
    BY <2>1, AdvanceMoves
  <2> QED BY <2>2
<1> QED BY <1>1, <1>2, <1>3 DEF Places

\* It goes on being open, and the stores are left alone.
LEMMA GoesOn ==
    ASSUME Inv, NEW t \in Calls, NEW c \in Contents, NEW place \in Slot,
           Quiet, tight' = tight, Places(t, c, place),
           OutcomeOf(slot[t][c]) = "open", OutcomeOf(place) = "open"
    PROVE  UNCHANGED Contract!contractVars
<1>1. /\ slot' \in [Calls -> [Contents -> Slot]]
      /\ slot'[t][c] \in {place, slot[t][c]}
      /\ Only(t, c)
  BY Placed DEF Inv
<1>2. Decided' = Decided
  BY <1>1, OpenMove DEF Inv
<1> QED BY <1>2, Stutters DEF Unseen

\* It is decided.
LEMMA IsDecided ==
    ASSUME Inv, NEW t \in Calls, NEW c \in Contents, NEW place \in {"original", "cached", "fresh"},
           Quiet, tight' = tight, OutcomeOf(slot[t][c]) = "open",
           slot' \in [Calls -> [Contents -> Slot]], slot'[t][c] = place, Only(t, c)
    PROVE  Contract!Settle(t, c, place)
<1>1. Decided' = [Decided EXCEPT ![t][c] = OutcomeOf(slot'[t][c])]
  BY DecidedMoves DEF Inv
<1>2. OutcomeOf(slot'[t][c]) = place
  BY DEF OutcomeOf
<1> QED BY <1>1, <1>2, Settles DEF Decides

LEMMA DeferOpen ==
    ASSUME Inv, RecoveryAssumption, NEW t \in Calls, NEW c \in Contents,
           Quiet, tight' = tight, Defer(t, c), OutcomeOf(slot[t][c]) = "open"
    PROVE  UNCHANGED Contract!contractVars
<1>1. Begin(c) \in Slot /\ OutcomeOf(Begin(c)) = "open"
  BY DEF Begin, Slot, OutcomeOf
<1>2. MarkersOf[c] \in SUBSET Hashes /\ Enter(t, c, Begin(c), MarkersOf[c])
  BY DEF RecoveryAssumption, Defer
<1> QED BY <1>1, <1>2, GoesOn DEF Places

\* The promise of a decision.
Keeps(t, c) == Contract!Keep(t, c) \/ Contract!ShipCached(t, c) \/ Contract!ShipFresh(t, c)

LEMMA LookupKeeps ==
    ASSUME Inv, RecoveryAssumption, NEW t \in Calls, NEW c \in Contents,
           \/ LookupSkip(t, c) \/ LookupMiss(t, c) \/ LookupHit(t, c)
           \/ MoveToSkip(t, c) \/ Invalidate(t, c)
    PROVE  Keeps(t, c) \/ UNCHANGED Contract!contractVars
<1>0. {} \in SUBSET Hashes /\ MarkersOf[c] \in SUBSET Hashes
  BY DEF RecoveryAssumption
<1>1. CASE LookupSkip(t, c)
  <2>1. Quiet /\ UNCHANGED left /\ tight' = tight /\ OutcomeOf(slot[t][c]) = "open"
    BY <1>1 DEF LookupSkip, Quiet, OutcomeOf
  <2>2. CASE Goto(t, c, "original")
    <3>1. slot' \in [Calls -> [Contents -> Slot]] /\ slot'[t][c] = "original" /\ Only(t, c)
      BY <2>1, <2>2, GotoMoves DEF Inv, Slot
    <3> QED BY <2>1, <3>1, IsDecided DEF Keeps, Contract!Keep
  <2>3. CASE Goto(t, c, "get")
    <3>1. "get" \in Slot /\ OutcomeOf("get") = "open"
      BY DEF Slot, OutcomeOf
    <3> QED BY <2>1, <2>3, <3>1, GoesOn DEF Places
  <2> QED BY <1>1, <2>2, <2>3 DEF LookupSkip
<1>2. CASE LookupMiss(t, c)
  <2>1. Quiet /\ tight' = tight /\ OutcomeOf(slot[t][c]) = "open" /\ Defer(t, c)
    BY <1>2 DEF LookupMiss, Quiet, OutcomeOf
  <2> QED BY <2>1, DeferOpen
<1>3. CASE LookupHit(t, c)
  <2>1. Quiet /\ tight' = tight /\ OutcomeOf(slot[t][c]) = "open"
    BY <1>3 DEF LookupHit, Quiet, OutcomeOf
  <2>2. PICK place \in {"demote", "mirror", "verify"} :
           \E markers \in SUBSET Hashes : Enter(t, c, place, markers)
    BY <1>0, <1>3 DEF LookupHit
  <2>3. place \in Slot /\ OutcomeOf(place) = "open"
    BY DEF Slot, OutcomeOf
  <2> QED BY <2>1, <2>2, <2>3, GoesOn DEF Places
<1>4. CASE MoveToSkip(t, c)
  <2>1. /\ Quiet /\ UNCHANGED left /\ tight' = tight
        /\ OutcomeOf(slot[t][c]) = "open" /\ Goto(t, c, "original")
    BY <1>4 DEF MoveToSkip, Quiet, OutcomeOf
  <2>2. slot' \in [Calls -> [Contents -> Slot]] /\ slot'[t][c] = "original" /\ Only(t, c)
    BY <2>1, GotoMoves DEF Inv, Slot
  <2> QED BY <2>1, <2>2, IsDecided DEF Keeps, Contract!Keep
<1>5. CASE Invalidate(t, c)
  <2>1. Quiet /\ tight' = tight /\ OutcomeOf(slot[t][c]) = "open" /\ Defer(t, c)
    BY <1>5 DEF Invalidate, Quiet, OutcomeOf
  <2> QED BY <2>1, DeferOpen
<1> QED BY <1>1, <1>2, <1>3, <1>4, <1>5

LEMMA MirrorKeeps ==
    ASSUME Inv, RecoveryAssumption, NEW t \in Calls, NEW c \in Contents, NEW h \in Hashes,
           MirrorSkip(t, c, h) \/ Mirror(t, c, h)
    PROVE  Contract!Change \/ UNCHANGED Contract!contractVars
<1>0. /\ MarkersOf[c] \in SUBSET Hashes
      /\ "verify" \in Slot /\ OutcomeOf("verify") = "open" /\ OutcomeOf("mirror") = "open"
  BY DEF RecoveryAssumption, Slot, OutcomeOf
<1>1. CASE MirrorSkip(t, c, h)
  <2>1. Quiet /\ tight' = tight /\ OutcomeOf(slot[t][c]) = "open"
    BY <1>0, <1>1 DEF MirrorSkip, Quiet
  <2>2. Enter(t, c, "verify", MarkersOf[c]) \/ Advance(t, c, h, "verify")
    BY <1>1 DEF MirrorSkip
  <2> QED BY <1>0, <2>1, <2>2, GoesOn DEF Places
<1>2. CASE Mirror(t, c, h)
  <2>1. PICK written \in WriteOutcomes : Save(StoreOf[t], h, written)
    BY <1>2 DEF Mirror
  <2>2. store' \in [Stores -> [Hashes -> Backing]] /\ Losing
    BY <2>1, SaveWrites DEF Inv
  <2>3. Enter(t, c, "verify", MarkersOf[c]) \/ Advance(t, c, h, "verify")
    BY <1>2 DEF Mirror
  <2>4. /\ slot' \in [Calls -> [Contents -> Slot]]
        /\ slot'[t][c] \in {"verify", slot[t][c]}
        /\ Only(t, c)
    <3>1. Places(t, c, "verify") /\ "verify" \in Slot
      BY <1>0, <2>3 DEF Places
    <3> QED BY <3>1, Placed DEF Inv
  <2>5. slot[t][c] = "mirror" /\ tight' = tight
    BY <1>2 DEF Mirror
  <2>6. Decided' = Decided
    BY <1>0, <2>4, <2>5, OpenMove DEF Inv
  <2> QED BY <2>2, <2>5, <2>6, Changes DEF Inv, Unseen
<1> QED BY <1>1, <1>2

LEMMA VerifyKeeps ==
    ASSUME Inv, Cleared, RecoveryAssumption, NEW t \in Calls, NEW c \in Contents,
           NEW h \in Hashes, Verify(t, c, h)
    PROVE  Keeps(t, c) \/ UNCHANGED Contract!contractVars
<1>0. /\ {} \in SUBSET Hashes /\ MarkersOf[c] \in SUBSET Hashes /\ StoreOf[t] \in Stores
      /\ {"stale", "cached"} \subseteq Slot
      /\ OutcomeOf("stale") = "open" /\ OutcomeOf("verify") = "open"
  BY DEF RecoveryAssumption, Slot, OutcomeOf
<1>1. /\ Quiet /\ tight' = tight /\ slot[t][c] = "verify" /\ h \in left[t][c]
      /\ OutcomeOf(slot[t][c]) = "open"
  BY <1>0 DEF Verify, Quiet
<1>2. CASE ~Resolves(StoreOf[t], h)
  <2>1. Enter(t, c, "stale", {})
    BY <1>2 DEF Verify
  <2> QED BY <1>0, <1>1, <2>1, GoesOn DEF Places
<1>3. CASE Resolves(StoreOf[t], h)
  <2>1. Advance(t, c, h, "cached")
    BY <1>3 DEF Verify
  <2>2. /\ slot' \in [Calls -> [Contents -> Slot]]
        /\ left[t][c] \ {h} = {} => slot'[t][c] = "cached"
        /\ left[t][c] \ {h} # {} => slot'[t][c] = slot[t][c]
        /\ Only(t, c)
    BY <1>0, <2>1, AdvanceMoves DEF Inv
  <2>3. CASE left[t][c] \ {h} # {}
    <3>1. Decided' = Decided
      BY <2>2, <2>3, OpenMove DEF Inv
    <3> QED BY <1>1, <3>1, Stutters DEF Unseen
  <2>4. CASE left[t][c] \ {h} = {}
    <3>1. \A x \in MarkersOf[c] \ left[t][c] : Backed(t, x)
      BY <1>1 DEF Inv, Tracked
    <3>2. \A x \in MarkersOf[c] : Backed(t, x)
      BY <1>3, <2>4, <3>1 DEF Backed
    <3>3. MarkersOf[c] \subseteq HeldIn[StoreOf[t]] \cup lost[t]
      BY <1>0, <3>2 DEF Backed, Resolves, HeldIn
    <3>4. ~Rejects(t, c)
      BY <1>1 DEF Cleared
    <3>5. Contract!Acceptable(t, c)
      BY <3>4 DEF Contract!Acceptable, Rejects
    <3>6. Contract!Settle(t, c, "cached")
      BY <1>1, <2>2, <2>4, IsDecided
    <3> QED BY <3>3, <3>5, <3>6 DEF Keeps, Contract!ShipCached
  <2> QED BY <2>3, <2>4
<1> QED BY <1>2, <1>3

LEMMA PendingKeeps ==
    ASSUME Inv, RecoveryAssumption, NEW t \in Calls, NEW c \in Contents, NEW h \in Hashes,
           Put(t, c, h) \/ MissTyped(t, c, h) \/ Persist(t, c, h)
    PROVE  Contract!Change \/ UNCHANGED Contract!contractVars
<1>0. /\ {} \in SUBSET Hashes /\ MarkersOf[c] \in SUBSET Hashes
      /\ {"persist", "crush", "failed", "computed", "vetoed"} \subseteq Slot
      /\ \A place \in {"persist", "crush", "failed", "computed", "vetoed"} :
            OutcomeOf(place) = "open"
  BY DEF RecoveryAssumption, Slot, OutcomeOf
<1>1. CASE Put(t, c, h)
  <2>1. Quiet /\ tight' = tight /\ OutcomeOf(slot[t][c]) = "open"
    BY <1>0, <1>1 DEF Put, Quiet
  <2>2. Enter(t, c, "persist", MarkersOf[c]) \/ Advance(t, c, h, "persist")
    BY <1>1 DEF Put
  <2> QED BY <1>0, <2>1, <2>2, GoesOn DEF Places
<1>2. CASE MissTyped(t, c, h)
  <2>1. Quiet /\ tight' = tight /\ OutcomeOf(slot[t][c]) = "open" /\ Enter(t, c, "failed", {})
    BY <1>0, <1>2 DEF MissTyped, Quiet
  <2> QED BY <1>0, <2>1, GoesOn DEF Places
<1>3. CASE Persist(t, c, h)
  <2>1. PICK written \in WriteOutcomes :
           /\ Save(StoreOf[t], h, written)
           /\ IF written = "durable" THEN Advance(t, c, h, "computed")
              ELSE Enter(t, c, IF c \in Crushed THEN "failed" ELSE "vetoed", {})
    BY <1>3 DEF Persist
  <2>2. store' \in [Stores -> [Hashes -> Backing]] /\ Losing
    BY <2>1, SaveWrites DEF Inv
  <2>3. PICK place \in {"computed", "failed", "vetoed"} :
           Advance(t, c, h, place) \/ Enter(t, c, place, {})
    BY <2>1
  <2>4. /\ slot' \in [Calls -> [Contents -> Slot]]
        /\ slot'[t][c] \in {place, slot[t][c]}
        /\ Only(t, c)
    <3>1. Places(t, c, place) /\ place \in Slot
      BY <1>0, <2>3 DEF Places
    <3> QED BY <3>1, Placed DEF Inv
  <2>5. slot[t][c] = "persist" /\ tight' = tight
    BY <1>3 DEF Persist
  <2>6. Decided' = Decided
    BY <1>0, <2>4, <2>5, OpenMove DEF Inv
  <2> QED BY <2>2, <2>5, <2>6, Changes DEF Inv, Unseen
<1> QED BY <1>1, <1>2, <1>3

LEMMA MergeKeeps ==
    ASSUME Inv, RecoveryAssumption, NEW t \in Calls, NEW c \in Contents,
           Accept(t, c) \/ Reject(t, c)
    PROVE  Keeps(t, c)
<1>0. {"original", "fresh"} \subseteq Slot /\ StoreOf[t] \in Stores /\ MarkersOf[c] \in SUBSET Hashes
  BY DEF Slot, RecoveryAssumption
<1>1. CASE Accept(t, c)
  <2>1. /\ Quiet /\ UNCHANGED left /\ tight' = tight /\ slot[t][c] = "computed"
        /\ Goto(t, c, "fresh") /\ ~Rejects(t, c)
    BY <1>1 DEF Accept, Quiet
  <2>2. slot' \in [Calls -> [Contents -> Slot]] /\ slot'[t][c] = "fresh" /\ Only(t, c)
    BY <1>0, <2>1, GotoMoves DEF Inv
  <2>3. \A h \in MarkersOf[c] : OnDisk(t, h)
    BY <2>1 DEF Inv, Tracked
  <2>4. MarkersOf[c] \subseteq DurableIn[StoreOf[t]] \cup lost[t]
    BY <1>0, <2>3 DEF OnDisk, DurableIn
  <2>5. OutcomeOf(slot[t][c]) = "open"
    BY <2>1 DEF OutcomeOf
  <2>6. Contract!Settle(t, c, "fresh")
    BY <2>1, <2>2, <2>5, IsDecided
  <2>7. Contract!Acceptable(t, c)
    BY <2>1 DEF Contract!Acceptable, Rejects
  <2> QED BY <2>4, <2>6, <2>7 DEF Keeps, Contract!ShipFresh
<1>2. CASE Reject(t, c)
  <2>1. /\ Quiet /\ UNCHANGED left /\ tight' = tight
        /\ OutcomeOf(slot[t][c]) = "open" /\ Goto(t, c, "original")
    BY <1>2 DEF Reject, Quiet, OutcomeOf
  <2>2. slot' \in [Calls -> [Contents -> Slot]] /\ slot'[t][c] = "original" /\ Only(t, c)
    BY <1>0, <2>1, GotoMoves DEF Inv
  <2> QED BY <2>1, <2>2, IsDecided DEF Keeps, Contract!Keep
<1> QED BY <1>1, <1>2

-----------------------------------------------------------------------------
(* The steps of a call *)

\* The outcomes of one call change at once.
LEMMA CallMoves ==
    ASSUME Shapes, NEW t \in Calls, NEW f \in [Contents -> Slot], slot' = [slot EXCEPT ![t] = f]
    PROVE  Decided' = [Decided EXCEPT ![t] = [c \in Contents |-> OutcomeOf(f[c])]]
<1>1. \A u \in Calls : slot'[u] = IF u = t THEN f ELSE slot[u]
  BY DEF Shapes
<1> DEFINE g == [c \in Contents |-> OutcomeOf(f[c])]
<1>2. \A u \in Calls : Decided'[u] = IF u = t THEN g ELSE Decided[u]
  BY <1>1 DEF Decided
<1>3. /\ Decided = [u \in Calls |-> Decided[u]]
      /\ Decided' = [u \in Calls |-> Decided'[u]]
  BY DEF Decided
<1> HIDE DEF g
<1>4. Decided' = [Decided EXCEPT ![t] = g]
  BY <1>2, <1>3
<1> QED BY <1>4 DEF g

LEMMA StartKeeps ==
    ASSUME Inv, NEW t \in Calls, NEW request \in Requests[t], StartCall(t, request)
    PROVE  Contract!Start(t, request)
<1> DEFINE f == [c \in Contents |-> IF c \in request.messages THEN "todo" ELSE "absent"]
<1>1. f \in [Contents -> Slot]
  BY DEF Slot
<1>2. Decided' = [Decided EXCEPT ![t] = [c \in Contents |-> OutcomeOf(f[c])]]
  BY <1>1, CallMoves DEF Inv, StartCall
<1>3. [c \in Contents |-> OutcomeOf(f[c])]
      = [c \in Contents |-> IF c \in request.messages THEN "open" ELSE "absent"]
  BY DEF OutcomeOf
<1>4. Contract!Free(t)
  BY IdleIsFree DEF StartCall
<1>5. HeldIn' = HeldIn /\ DurableIn' = DurableIn
  BY SameStores DEF StartCall
<1>6. Decided' = [Decided EXCEPT ![t] =
         [c \in Contents |-> IF c \in request.messages THEN "open" ELSE "absent"]]
  BY <1>2, <1>3
<1> HIDE DEF f
<1> QED BY <1>4, <1>5, <1>6 DEF Contract!Start, StartCall

LEMMA FailKeeps ==
    ASSUME Inv, NEW t \in Calls, FailOpen(t)
    PROVE  Contract!Fail(t)
<1> DEFINE f == [c \in Contents |-> IF slot[t][c] = "absent" THEN "absent" ELSE "original"]
<1>1. f \in [Contents -> Slot]
  BY DEF Slot
<1>2. Decided' = [Decided EXCEPT ![t] = [c \in Contents |-> OutcomeOf(f[c])]]
  BY <1>1, CallMoves DEF Inv, FailOpen
<1>3. \A c \in Contents : Decided[t][c] = OutcomeOf(slot[t][c])
  BY DEF Decided
<1>4. \A c \in Contents : OutcomeOf(slot[t][c]) = "absent" <=> slot[t][c] = "absent"
  BY DEF OutcomeOf
<1>5. [c \in Contents |-> OutcomeOf(f[c])]
      = [c \in Contents |-> IF Decided[t][c] = "absent" THEN "absent" ELSE "original"]
  BY <1>3, <1>4 DEF OutcomeOf
<1>6. \E c \in Contents : Decided[t][c] = "open"
  BY <1>3 DEF FailOpen, Failed, OutcomeOf
<1>7. HeldIn' = HeldIn /\ DurableIn' = DurableIn
  BY SameStores DEF FailOpen
<1>8. Decided' = [Decided EXCEPT ![t] =
         [c \in Contents |-> IF Decided[t][c] = "absent" THEN "absent" ELSE "original"]]
  BY <1>2, <1>5
<1> HIDE DEF f
<1> QED BY <1>6, <1>7, <1>8 DEF Contract!Fail, FailOpen

LEMMA ReturnKeeps ==
    ASSUME Inv, NEW t \in Calls, Return(t)
    PROVE  Contract!Return(t)
<1> DEFINE f == [c \in Contents |-> "absent"]
<1>1. f \in [Contents -> Slot]
  BY DEF Slot
<1>2. Decided' = [Decided EXCEPT ![t] = [c \in Contents |-> OutcomeOf(f[c])]]
  BY <1>1, CallMoves DEF Inv, Return
<1>3. [c \in Contents |-> OutcomeOf(f[c])] = [c \in Contents |-> "absent"]
  BY DEF OutcomeOf
<1>4. ~Contract!Free(t)
  BY IdleIsFree DEF Return
<1>5. \A c \in Contents : Decided[t][c] # "open"
  BY DEF Return, Decided, OutcomeOf
<1>6. HeldIn' = HeldIn /\ DurableIn' = DurableIn
  BY SameStores DEF Return
<1>7. Decided' = [Decided EXCEPT ![t] = [c \in Contents |-> "absent"]]
  BY <1>2, <1>3
<1> HIDE DEF f
<1> QED BY <1>4, <1>5, <1>6, <1>7 DEF Contract!Return, Return

\* Time and purges change the stores alone.
LEMMA LosingKeeps ==
    ASSUME Inv, RecoveryAssumption, Inv',
           Tick \/ (\E s \in Stores, h \in Hashes : Delete(s, h))
    PROVE  Contract!Change
<1>1. Losing /\ slot' = slot /\ tight' = tight
  BY DEF Tick, Delete
<1>2. Decided' = Decided
  BY <1>1 DEF Decided
<1>3. store' \in [Stores -> [Hashes -> Backing]]
  BY DEF Inv, Shapes
<1> QED BY <1>1, <1>2, <1>3, Changes DEF Inv, Unseen

LEMMA StepKeeps ==
    ASSUME Inv, Inv', Cleared, RecoveryAssumption, [Next]_vars
    PROVE  [Contract!Next]_(Contract!contractVars)
<1>1. CASE \E t \in Calls : \E request \in Requests[t] : StartCall(t, request)
  BY <1>1, StartKeeps DEF Contract!Next
<1>2. ASSUME NEW t \in Calls, NEW c \in Contents,
             Lookup(t, c) \/ CompressPending(t, c) \/ Accept(t, c) \/ Reject(t, c)
      PROVE  Keeps(t, c) \/ Contract!Change \/ UNCHANGED Contract!contractVars
  <2>1. CASE Lookup(t, c)
    BY <2>1, LookupKeeps, MirrorKeeps, VerifyKeeps DEF Lookup
  <2>2. CASE CompressPending(t, c)
    BY <2>2, PendingKeeps DEF CompressPending
  <2>3. CASE Accept(t, c) \/ Reject(t, c)
    BY <2>3, MergeKeeps
  <2> QED BY <1>2, <2>1, <2>2, <2>3
<1>3. CASE \E t \in Calls, c \in Contents :
              Lookup(t, c) \/ CompressPending(t, c) \/ Accept(t, c) \/ Reject(t, c)
  BY <1>2, <1>3 DEF Keeps, Contract!Next
<1>4. CASE \E t \in Calls : FailOpen(t) \/ Return(t)
  BY <1>4, FailKeeps, ReturnKeeps DEF Contract!Next
<1>5. CASE Tick \/ \E s \in Stores, h \in Hashes : Delete(s, h)
  BY <1>5, LosingKeeps DEF Contract!Next
<1>6. CASE UNCHANGED vars
  <2>1. Quiet /\ Unseen
    BY <1>6 DEF vars, Quiet, Unseen, Decided
  <2> QED BY <2>1, Stutters
<1> QED BY <1>1, <1>3, <1>4, <1>5, <1>6 DEF Next

-----------------------------------------------------------------------------
(* The threshold *)

LEMMA ClearedPlaced ==
    ASSUME Inv, Cleared, NEW t \in Calls, NEW c \in Contents, NEW place \in Slot,
           tight' = tight, Places(t, c, place),
           place \in {"mirror", "verify", "cached"} => ~Rejects(t, c)
    PROVE  Cleared'
<1>1. slot'[t][c] \in {place, slot[t][c]} /\ Only(t, c)
  BY Placed DEF Inv
<1>2. \A u \in Calls, d \in Contents : Rejects(u, d)' <=> Rejects(u, d)
  BY DEF Rejects
<1>3. ASSUME NEW u \in Calls, NEW d \in Contents,
             slot'[u][d] \in {"mirror", "verify", "cached"}
      PROVE  ~Rejects(u, d)
  <2>1. CASE u = t /\ d = c
    BY <1>1, <1>3, <2>1 DEF Cleared
  <2>2. CASE u # t \/ d # c
    BY <1>1, <1>3, <2>2 DEF Cleared, Only
  <2> QED BY <2>1, <2>2
<1> QED BY <1>2, <1>3 DEF Cleared

LEMMA LookupCleared ==
    ASSUME Inv, Cleared, RecoveryAssumption, NEW t \in Calls, NEW c \in Contents, Lookup(t, c)
    PROVE  Cleared'
<1>0. /\ {} \in SUBSET Hashes /\ MarkersOf[c] \in SUBSET Hashes
      /\ {"original", "get", "crush", "persist", "demote", "mirror", "verify", "stale", "cached"}
         \subseteq Slot
  BY DEF RecoveryAssumption, Slot
<1>1. CASE LookupSkip(t, c)
  <2>1. PICK place \in {"original", "get"} : Places(t, c, place)
    BY <1>1 DEF LookupSkip, Places
  <2>2. tight' = tight
    BY <1>1 DEF LookupSkip
  <2> QED BY <1>0, <2>1, <2>2, ClearedPlaced
<1>2. CASE LookupMiss(t, c) \/ Invalidate(t, c)
  <2>1. Places(t, c, Begin(c)) /\ tight' = tight
    BY <1>0, <1>2 DEF LookupMiss, Invalidate, Defer, Places
  <2>2. Begin(c) \in {"crush", "persist"}
    BY DEF Begin
  <2> QED BY <1>0, <2>1, <2>2, ClearedPlaced
<1>3. CASE LookupHit(t, c)
  <2>1. PICK place \in {"demote", "mirror", "verify"} :
           Places(t, c, place) /\ (place # "demote" => ~Rejects(t, c))
    BY <1>0, <1>3 DEF LookupHit, Places
  <2>2. tight' = tight
    BY <1>3 DEF LookupHit
  <2> QED BY <1>0, <2>1, <2>2, ClearedPlaced
<1>4. CASE MoveToSkip(t, c)
  <2>1. Places(t, c, "original") /\ tight' = tight
    BY <1>4 DEF MoveToSkip, Places
  <2> QED BY <1>0, <2>1, ClearedPlaced
<1>5. CASE \E h \in Hashes : MirrorSkip(t, c, h) \/ Mirror(t, c, h)
  <2>1. Places(t, c, "verify")
    BY <1>0, <1>5 DEF MirrorSkip, Mirror, Places
  <2>2. tight' = tight /\ ~Rejects(t, c)
    BY <1>5 DEF MirrorSkip, Mirror, Cleared
  <2> QED BY <1>0, <2>1, <2>2, ClearedPlaced
<1>6. CASE \E h \in Hashes : Verify(t, c, h)
  <2>1. PICK place \in {"stale", "cached"} : Places(t, c, place)
    BY <1>0, <1>6 DEF Verify, Places
  <2>2. tight' = tight /\ ~Rejects(t, c)
    BY <1>6 DEF Verify, Cleared
  <2> QED BY <1>0, <2>1, <2>2, ClearedPlaced
<1> QED BY <1>1, <1>2, <1>3, <1>4, <1>5, <1>6 DEF Lookup

LEMMA PendingCleared ==
    ASSUME Inv, Cleared, RecoveryAssumption, NEW t \in Calls, NEW c \in Contents,
           CompressPending(t, c) \/ Accept(t, c) \/ Reject(t, c)
    PROVE  Cleared'
<1>1. {} \in SUBSET Hashes /\ MarkersOf[c] \in SUBSET Hashes
  BY DEF RecoveryAssumption
<1>2. PICK place \in {"persist", "failed", "computed", "vetoed", "fresh", "original"} :
         Places(t, c, place)
  <2>1. CASE CompressPending(t, c)
    BY <1>1, <2>1 DEF CompressPending, Put, MissTyped, Persist, Places
  <2>2. CASE Accept(t, c) \/ Reject(t, c)
    BY <2>2 DEF Accept, Reject, Places
  <2> QED BY <2>1, <2>2
<1>3. tight' = tight
  BY DEF CompressPending, Put, MissTyped, Persist, Accept, Reject
<1>4. place \in Slot
  BY DEF Slot
<1> QED BY <1>2, <1>3, <1>4, ClearedPlaced

\* Calls start and end without messages in these places.
LEMMA CallCleared ==
    ASSUME Inv, Cleared, RecoveryAssumption, NEW t \in Calls,
           (\E request \in Requests[t] : StartCall(t, request)) \/ FailOpen(t) \/ Return(t)
    PROVE  Cleared'
<1>1. \E f \in [Contents -> {"absent", "todo", "original"}] : slot' = [slot EXCEPT ![t] = f]
  BY DEF StartCall, FailOpen, Return
<1>2. \E b \in BOOLEAN : tight' = [tight EXCEPT ![t] = b] \/ tight' = tight
  <2>1. CASE \E request \in Requests[t] : StartCall(t, request)
    <3>1. PICK request \in Requests[t] : StartCall(t, request)
      BY <2>1
    <3>2. request.tight \in BOOLEAN
      BY DEF RecoveryAssumption, Request
    <3>3. tight' = [tight EXCEPT ![t] = request.tight]
      BY <3>1 DEF StartCall
    <3> QED BY <3>2, <3>3
  <2>2. CASE FailOpen(t)
    BY <2>2 DEF FailOpen
  <2>3. CASE Return(t)
    BY <2>3 DEF Return
  <2> QED BY <2>1, <2>2, <2>3
<1>3. tight' \in [Calls -> BOOLEAN]
  BY <1>2 DEF Cleared
<1>4. ASSUME NEW u \in Calls, NEW c \in Contents,
             slot'[u][c] \in {"mirror", "verify", "cached"}
      PROVE  ~Rejects(u, c)'
  <2>1. u # t
    BY <1>1, <1>4 DEF Inv, Shapes
  <2>2. slot'[u][c] = slot[u][c] /\ tight'[u] = tight[u]
    BY <1>1, <1>2, <2>1 DEF Inv, Shapes, Cleared
  <2> QED BY <1>4, <2>2 DEF Cleared, Rejects
<1> QED BY <1>3, <1>4 DEF Cleared

LEMMA StepCleared ==
    ASSUME Inv, Cleared, RecoveryAssumption, [Next]_vars
    PROVE  Cleared'
<1>1. CASE \E t \in Calls : \E request \in Requests[t] : StartCall(t, request)
  BY <1>1, CallCleared
<1>2. CASE \E t \in Calls, c \in Contents :
              Lookup(t, c) \/ CompressPending(t, c) \/ Accept(t, c) \/ Reject(t, c)
  BY <1>2, LookupCleared, PendingCleared
<1>3. CASE \E t \in Calls : FailOpen(t) \/ Return(t)
  BY <1>3, CallCleared
<1>4. CASE (Tick \/ \E s \in Stores, h \in Hashes : Delete(s, h)) \/ UNCHANGED vars
  <2>1. slot' = slot /\ tight' = tight
    BY <1>4 DEF Tick, Delete, vars
  <2> QED BY <2>1 DEF Cleared, Rejects
<1> QED BY <1>1, <1>2, <1>3, <1>4 DEF Next

-----------------------------------------------------------------------------

\* The passes, their caches, mirrors and parallel workers implement what
\* compress() promises: each message is decided once, ships compressed only when
\* the call's threshold accepts it and its markers are backed in the call's own
\* store, and a failure takes back all that was decided.
THEOREM PassesKeepContract == Spec => KeepsContract
<1>1. RecoveryAssumption
  BY RecoveryAssumption
<1>2. Init => Inv /\ Cleared
  <2>1. Init => Inv
    BY <1>1, InitInv
  <2>2. Init => Cleared
    BY DEF Init, Cleared
  <2> QED BY <2>1, <2>2
<1>3. Inv /\ Cleared /\ [Next]_vars => (Inv /\ Cleared)'
  BY <1>1, StepInv, StepCleared
<1>4. Init => Contract!Init
  BY DEF Init, Contract!Init, HeldIn, DurableIn, Decided, OutcomeOf, Held, Gone
<1>5. Inv /\ Inv' /\ Cleared /\ [Next]_vars => [Contract!Next]_(Contract!contractVars)
  BY <1>1, StepKeeps
<1> QED BY <1>2, <1>3, <1>4, <1>5, PTL DEF Spec, KeepsContract, Contract!Spec

=============================================================================
