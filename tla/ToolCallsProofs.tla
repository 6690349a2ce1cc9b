-------------------------- MODULE ToolCallsProofs --------------------------
(***************************************************************************)
(* Proofs about the tool calls of Claude Code (ClientCalls), for any       *)
(* number of servers, workers and faults and any hashes, calls and         *)
(* settings: however the lock sections of concurrent MCP tools interleave, *)
(* what a purge verified gone is not brought back by a worker of its own   *)
(* server, and no cascade erases, on its own decision, a marker that a     *)
(* stored original holds; what the hooks leave of a tool call's output     *)
(* reaches the model once and is counted once; a match under a budget      *)
(* leaves the caller's alarm as it was; for any lines and compressors, the *)
(* sections of a mixed content cover it and what the engine ships keeps    *)
(* what it says; and for any original and filters, its summary and its     *)
(* filtered views agree and hide nothing without a sign.                   *)
(***************************************************************************)
EXTENDS ClientCalls, FiniteSets, FiniteSetTheorems, SequenceTheorems, WellFoundedInduction, TLAPS

CascadeSteps == {"check", "collect", "erase", "verify"}

\* The call in progress: its agenda holds what its step works on, and what a furl_read
\* caches is a file's content.
Fits(c) ==
    /\ c.step \in CascadeSteps \cup {"nested"} => c.agenda # <<>>
    /\ c.step \in {"alive", "forget", "keep"} => c.hash \in Files

\* The type invariant with what the calls in progress hold.
Typed == Tools!TypeOK /\ \A w \in Workers : tool[w] # None => Fits(tool[w])

\* Between the read and the write of retrieve() nothing verifies the entry gone.
ReadNotErased ==
    \A w \in Workers : Tools!At(w, "bump") => tool[w].hash \notin erased[home[w]]

\* The marker that w's cascade is about to erase: an entry that holds it was stored since
\* the check, or is in the cascade.
Counted(w) ==
    Tools!At(w, "collect") \/ Tools!At(w, "erase") =>
        \/ Head(tool[w].agenda) = tool[w].hash
        \/ \A p \in file : Head(tool[w].agenda) \in Tools!Refs(p) =>
               p \in since[w] \cup tool[w].visited \cup {Head(tool[w].agenda)}

ToolsInv ==
    /\ Typed
    /\ Tools!ErasedStaysGone
    /\ ReadNotErased
    /\ Tools!NestedResolves
    /\ \A w \in Workers : Counted(w)

-----------------------------------------------------------------------------
(* The operators the calls are built from *)

\* The instance counts as this module does.
LEMMA ToolsFinite == \A S : Tools!IsFiniteSet(S) <=> IsFiniteSet(S)
BY DEF IsFiniteSet, Tools!IsFiniteSet

LEMMA ToolsCardinality == \A S : Tools!Cardinality(S) = Cardinality(S)
BY DEF Cardinality, Tools!Cardinality

\* Any finite set that is not empty has a sequence of its elements.
LEMMA SetToSeqOfFinite ==
    ASSUME NEW S, IsFiniteSet(S), S # {}
    PROVE  Tools!SetToSeq(S) \in Seq(S) /\ Tools!SetToSeq(S) # <<>>
<1>1. PICK f \in [1..Cardinality(S) -> S] : Tools!IsInjective(f)
  BY FS_CardinalityType DEF ExistsBijection, Bijection, Injection, IsInjective, Tools!IsInjective
<1>2. Tools!SetToSeq(S) \in [1..Cardinality(S) -> S]
  BY <1>1, ToolsCardinality DEF Tools!SetToSeq
<1>3. Cardinality(S) \in Nat /\ Cardinality(S) # 0
  BY FS_CardinalityType, FS_EmptySet
<1>. QED
  BY <1>2, <1>3

\* The markers in an entry are hashes of entries.
LEMMA RefsTyped ==
    ASSUME Tools!ToolsAssumption, NEW h \in Hashes
    PROVE  Nested[h] \in Seq(Hashes) /\ Tools!Refs(h) \subseteq Hashes /\ Tools!Refs(h) \subseteq Tools!Markers
           /\ Tools!Markers \subseteq Hashes
<1>1. \A g \in Hashes : Nested[g] \in Seq(Hashes)
  BY DEF Tools!ToolsAssumption
<1>2. \A g \in Hashes : Tools!Refs(g) \subseteq Hashes
  BY <1>1 DEF Tools!Refs, Tools!ToSet
<1>. QED
  BY <1>1, <1>2 DEF Tools!Markers

\* A concatenation begins with its first part.
LEMMA HeadOfConcat ==
    ASSUME NEW S, NEW a \in Seq(S), NEW b \in Seq(S), Len(a) > 0
    PROVE  a \o b \in Seq(S) /\ a \o b # <<>> /\ Head(a \o b) = a[1]
<1>1. a \o b \in Seq(S) /\ Len(a \o b) = Len(a) + Len(b) /\ Len(b) \in Nat /\ Len(a) \in Nat
  OBVIOUS
<1>2. a \o b # <<>>
  BY <1>1
<1>3. (a \o b)[1] = a[1]
  BY <1>1
<1>. QED
  BY <1>1, <1>2, <1>3

\* A step of a cascade down to hash h erases h next.
LEMMA DescendTyped ==
    ASSUME Tools!ToolsAssumption, NEW w, NEW c \in Tools!Call, NEW h \in Hashes
    PROVE  /\ Tools!Descend(w, c, h) \in Tools!Call
           /\ Tools!Descend(w, c, h).step = "erase"
           /\ Tools!Descend(w, c, h).hash = c.hash
           /\ Tools!Descend(w, c, h).visited = c.visited \cup {h}
           /\ Tools!Descend(w, c, h).agenda # <<>>
           /\ Head(Tools!Descend(w, c, h).agenda) = h
<1>. DEFINE refs == IF h \in Tools!Live(home[w]) THEN Nested[h] ELSE <<>>
            agenda == (<<h>> \o refs) \o c.agenda
<1>1. refs \in Seq(Hashes)
  BY RefsTyped
<1>2. c.agenda \in Seq(Hashes) /\ c.visited \subseteq Hashes
  BY DEF Tools!Call
<1>3. <<h>> \o refs \in Seq(Hashes) /\ Len(<<h>> \o refs) > 0 /\ (<<h>> \o refs)[1] = h
  BY <1>1
<1>4. agenda \in Seq(Hashes) /\ agenda # <<>> /\ Head(agenda) = h
  BY <1>2, <1>3, HeadOfConcat
<1>5. Tools!Descend(w, c, h) = [c EXCEPT !.step = "erase", !.visited = c.visited \cup {h}, !.agenda = agenda]
  BY DEF Tools!Descend
<1>. HIDE DEF agenda
<1>6. Tools!Descend(w, c, h) = [step |-> "erase", hash |-> c.hash, agenda |-> agenda,
                          visited |-> c.visited \cup {h}, deleted |-> c.deleted]
  BY <1>5 DEF Tools!Call
<1>7. c.hash \in Hashes /\ c.deleted \subseteq Hashes
  BY DEF Tools!Call
<1>. QED
  BY <1>2, <1>4, <1>6, <1>7 DEF Tools!Call

\* After an erase or a check the cascade goes on to its next marker or to the read-back.
LEMMA AdvanceTyped ==
    ASSUME Tools!ToolsAssumption, NEW c \in Tools!Call
    PROVE  /\ Tools!Advance(c) \in Tools!Call
           /\ Tools!Advance(c).step \in {"verify", "check"}
           /\ Tools!Advance(c).agenda # <<>>
<1>1. c.hash \in Hashes /\ c.deleted \subseteq Hashes
  BY DEF Tools!Call
<1>2. IsFiniteSet({c.hash} \cup c.deleted) /\ {c.hash} \cup c.deleted \subseteq Hashes
  BY <1>1, FS_Subset, ToolsFinite DEF Tools!ToolsAssumption
<1>3. Tools!SetToSeq({c.hash} \cup c.deleted) \in Seq(Hashes) /\ Tools!SetToSeq({c.hash} \cup c.deleted) # <<>>
  BY <1>2, SetToSeqOfFinite
<1>4. CASE c.agenda = <<>>
  BY <1>3, <1>4 DEF Tools!Advance, Tools!Call
<1>5. CASE c.agenda # <<>>
  BY <1>5 DEF Tools!Advance, Tools!Call
<1>. QED
  BY <1>4, <1>5

-----------------------------------------------------------------------------
(* How a step changes the call of the worker that takes it *)

\* Only the call of w changes, to one that holds what its step works on.
OwnMove(w) ==
    /\ tool' \in [Workers -> Tools!Call \cup {None}]
    /\ \A u \in Workers : u # w => tool'[u] = tool[u]
    /\ tool'[w] # None => Fits(tool'[w])

LEMMA MoveOf ==
    ASSUME Typed, NEW w \in Workers, NEW x \in Tools!Call \cup {None}, x # None => Fits(x),
           tool' = [tool EXCEPT ![w] = x]
    PROVE  OwnMove(w) /\ tool'[w] = x
BY DEF Typed, Tools!TypeOK, OwnMove

LEMMA CallTyped ==
    ASSUME Typed, NEW w \in Workers, tool[w] # None
    PROVE  tool[w] \in Tools!Call /\ Fits(tool[w])
BY DEF Typed, Tools!TypeOK

\* A call ends.
LEMMA ReturnMoves ==
    ASSUME Typed, NEW w \in Workers, Tools!Return(w)
    PROVE  OwnMove(w) /\ tool'[w] = None
BY MoveOf DEF Tools!Return

\* A call begins.
LEMMA StartTyped ==
    ASSUME NEW stage \in {"bump", "check", "collect", "erase", "verify", "nested", "top",
                         "alive", "forget", "keep"},
           NEW h \in Hashes, NEW agenda \in Seq(Hashes)
    PROVE  /\ Tools!Start(stage, h, agenda) \in Tools!Call
           /\ Tools!Start(stage, h, agenda).step = stage
           /\ Tools!Start(stage, h, agenda).hash = h
           /\ Tools!Start(stage, h, agenda).agenda = agenda
BY DEF Tools!Start, Tools!Call

\* The tail of an agenda is an agenda.
LEMMA Shorter ==
    ASSUME NEW c \in Tools!Call, c.agenda # <<>>
    PROVE  /\ Head(c.agenda) \in Hashes
           /\ Tail(c.agenda) \in Seq(Hashes)
           /\ Len(c.agenda) # 1 => Tail(c.agenda) # <<>>
           /\ [c EXCEPT !.agenda = Tail(c.agenda)] \in Tools!Call
<1>1. c.agenda \in Seq(Hashes)
  BY DEF Tools!Call
<1>2. Tail(c.agenda) \in Seq(Hashes) /\ Head(c.agenda) \in Hashes
  BY <1>1
<1>3. Len(c.agenda) # 1 => Tail(c.agenda) # <<>>
  <2>1. Len(c.agenda) \in Nat /\ Len(c.agenda) # 0
    BY <1>1
  <2>2. Len(Tail(c.agenda)) = Len(c.agenda) - 1
    BY <1>1
  <2>3. Len(c.agenda) # 1 => Len(Tail(c.agenda)) # 0
    BY <2>1, <2>2
  <2>. QED
    BY <2>3
<1>4. [c EXCEPT !.agenda = Tail(c.agenda)] \in Tools!Call
  BY <1>2 DEF Tools!Call
<1>. QED
  BY <1>2, <1>3, <1>4

LEMMA RetrieveReadMoves ==
    ASSUME Tools!ToolsAssumption, Typed, NEW w \in Workers, NEW h \in Hashes, Tools!RetrieveRead(w, h)
    PROVE  OwnMove(w) /\ tool'[w].step = "bump" /\ tool'[w].hash = h
<1>. DEFINE x == Tools!Start("bump", h, <<>>)
<1>1. x \in Tools!Call /\ x.step = "bump" /\ x.hash = h
  <2>1. <<>> \in Seq(Hashes)
    OBVIOUS
  <2>. QED
    BY <2>1 DEF Tools!Start, Tools!Call
<1>2. tool' = [tool EXCEPT ![w] = x]
  BY DEF Tools!RetrieveRead
<1>. HIDE DEF x
<1>. QED
  BY <1>1, <1>2, MoveOf DEF Fits, CascadeSteps

LEMMA StartPurgeMoves ==
    ASSUME Tools!ToolsAssumption, Typed, NEW w \in Workers, NEW h \in Hashes, Tools!StartPurge(w, h)
    PROVE  /\ OwnMove(w)
           /\ tool'[w].step = "erase"
           /\ tool'[w].hash = h
           /\ Head(tool'[w].agenda) = h
<1>. DEFINE c == Tools!Start("collect", h, <<>>)
            x == Tools!Descend(w, c, h)
<1>1. c \in Tools!Call /\ c.hash = h
  <2>1. <<>> \in Seq(Hashes)
    OBVIOUS
  <2>. QED
    BY <2>1 DEF Tools!Start, Tools!Call
<1>2. x \in Tools!Call /\ x.step = "erase" /\ x.hash = h /\ x.agenda # <<>> /\ Head(x.agenda) = h
  <2>. HIDE DEF c
  <2>. QED
    BY <1>1, DescendTyped
<1>3. tool' = [tool EXCEPT ![w] = x]
  BY DEF Tools!StartPurge
<1>. HIDE DEF x
<1>. QED
  BY <1>2, <1>3, MoveOf DEF Fits, CascadeSteps

LEMMA PurgeEraseMoves ==
    ASSUME Tools!ToolsAssumption, Typed, NEW w \in Workers, NEW reached, Tools!PurgeErase(w, reached)
    PROVE  /\ OwnMove(w)
           /\ tool'[w].step \in {"verify", "check"}
           /\ Head(tool[w].agenda) \in Hashes
<1>1. tool[w] \in Tools!Call /\ tool[w].agenda # <<>> /\ Head(tool[w].agenda) \in Hashes
  BY CallTyped, Shorter DEF Tools!PurgeErase, Tools!At, Fits, CascadeSteps
<1>. DEFINE h == Head(tool[w].agenda)
            left == h \in overlay[home[w]] \/ (reached /\ h \in file)
            rest == [tool[w] EXCEPT !.agenda = Tail(@), !.deleted = IF left THEN @ \cup {h} ELSE @]
            x == Tools!Advance(rest)
<1>2. rest \in Tools!Call
  <2>1. Tail(tool[w].agenda) \in Seq(Hashes)
    BY <1>1, Shorter
  <2>2. (IF left THEN tool[w].deleted \cup {h} ELSE tool[w].deleted) \in SUBSET Hashes
    BY <1>1 DEF Tools!Call
  <2>. HIDE DEF h, left
  <2>. QED
    BY <1>1, <2>1, <2>2 DEF Tools!Call
<1>3. tool' = [tool EXCEPT ![w] = x]
  BY DEF Tools!PurgeErase
<1>. HIDE DEF rest
<1>4. x \in Tools!Call /\ x.step \in {"verify", "check"} /\ x.agenda # <<>>
  BY <1>2, AdvanceTyped
<1>. HIDE DEF x
<1>. QED
  BY <1>1, <1>3, <1>4, MoveOf DEF Fits, CascadeSteps

\* A check that goes on to erase a marker has counted who holds it.
LEMMA PurgeCheckMoves ==
    ASSUME Tools!ToolsAssumption, Typed, NEW w \in Workers, Tools!PurgeCheck(w)
    PROVE  /\ OwnMove(w)
           /\ \/ tool'[w].step \in {"verify", "check"}
              \/ /\ tool'[w].step = "collect"
                 /\ tool'[w].visited = tool[w].visited
                 /\ Head(tool'[w].agenda) = Head(tool[w].agenda)
                 /\ ~Tools!CoReferenced(w, Head(tool[w].agenda))
<1>1. tool[w] \in Tools!Call /\ tool[w].agenda # <<>> /\ Head(tool[w].agenda) \in Hashes
  BY CallTyped, Shorter DEF Tools!PurgeCheck, Tools!At, Fits, CascadeSteps
<1>. DEFINE h == Head(tool[w].agenda)
            rest == [tool[w] EXCEPT !.agenda = Tail(@)]
            kept == h \in tool[w].visited \/ Tools!CoReferenced(w, h)
<1>2. rest \in Tools!Call /\ rest.visited = tool[w].visited
  BY <1>1, Shorter DEF Tools!Call
<1>3. CASE kept
  <2>. DEFINE x == Tools!Advance(rest)
  <2>1. tool' = [tool EXCEPT ![w] = x]
    BY <1>3 DEF Tools!PurgeCheck
  <2>2. x \in Tools!Call /\ x.step \in {"verify", "check"} /\ x.agenda # <<>>
    <3>. HIDE DEF rest
    <3>. QED
      BY <1>2, AdvanceTyped
  <2>. HIDE DEF x
  <2>. QED
    BY <2>1, <2>2, MoveOf DEF Fits, CascadeSteps
<1>4. CASE ~kept
  <2>. DEFINE agenda == <<h>> \o rest.agenda
              x == [rest EXCEPT !.step = "collect", !.agenda = agenda]
  <2>1. tool' = [tool EXCEPT ![w] = x]
    BY <1>4 DEF Tools!PurgeCheck
  <2>2. rest.agenda \in Seq(Hashes)
    BY <1>2 DEF Tools!Call
  <2>3. agenda \in Seq(Hashes) /\ agenda # <<>> /\ Head(agenda) = h
    BY <1>1, <2>2, HeadOfConcat
  <2>. HIDE DEF agenda, rest
  <2>4. x \in Tools!Call /\ x.step = "collect" /\ x.agenda = agenda /\ x.visited = rest.visited
    BY <1>2, <2>3 DEF Tools!Call
  <2>. HIDE DEF x
  <2>. QED
    BY <1>2, <1>4, <2>1, <2>3, <2>4, MoveOf DEF Fits, CascadeSteps
<1>. QED
  BY <1>3, <1>4

LEMMA PurgeCollectMoves ==
    ASSUME Tools!ToolsAssumption, Typed, NEW w \in Workers, Tools!PurgeCollect(w)
    PROVE  /\ OwnMove(w)
           /\ tool'[w].step = "erase"
           /\ tool'[w].hash = tool[w].hash
           /\ tool'[w].visited = tool[w].visited \cup {Head(tool[w].agenda)}
           /\ Head(tool'[w].agenda) = Head(tool[w].agenda)
<1>1. tool[w] \in Tools!Call /\ tool[w].agenda # <<>> /\ Head(tool[w].agenda) \in Hashes
  BY CallTyped, Shorter DEF Tools!PurgeCollect, Tools!At, Fits, CascadeSteps
<1>. DEFINE h == Head(tool[w].agenda)
            rest == [tool[w] EXCEPT !.agenda = Tail(@)]
            x == Tools!Descend(w, rest, h)
<1>2. rest \in Tools!Call /\ rest.visited = tool[w].visited /\ rest.hash = tool[w].hash
  BY <1>1, Shorter DEF Tools!Call
<1>3. tool' = [tool EXCEPT ![w] = x]
  BY DEF Tools!PurgeCollect
<1>4. /\ x \in Tools!Call /\ x.step = "erase" /\ x.hash = rest.hash
      /\ x.visited = rest.visited \cup {h} /\ x.agenda # <<>> /\ Head(x.agenda) = h
  <2>. HIDE DEF rest
  <2>. QED
    BY <1>1, <1>2, DescendTyped
<1>. HIDE DEF x, rest
<1>. QED
  BY <1>2, <1>3, <1>4, MoveOf DEF Fits, CascadeSteps
\* The call of w is not between the read and the write of retrieve(), nor about to erase.
Idles(w) == tool'[w] # None => tool'[w].step \notin {"bump", "collect", "erase"}

LEMMA VerifyMoves ==
    ASSUME Tools!ToolsAssumption, Typed, NEW w \in Workers, Tools!Verify(w)
    PROVE  OwnMove(w) /\ Idles(w) /\ Head(tool[w].agenda) \in Hashes
<1>1. tool[w] \in Tools!Call /\ tool[w].agenda # <<>> /\ Head(tool[w].agenda) \in Hashes
  BY CallTyped, Shorter DEF Tools!Verify, Tools!At, Fits, CascadeSteps
<1>2. tool[w].step = "verify"
  BY DEF Tools!Verify, Tools!At
<1>3. CASE Len(tool[w].agenda) = 1
  BY <1>1, <1>3, ReturnMoves DEF Tools!Verify, Idles
<1>4. CASE Len(tool[w].agenda) # 1
  <2>. DEFINE x == [tool[w] EXCEPT !.agenda = Tail(tool[w].agenda)]
  <2>1. x \in Tools!Call /\ x.agenda # <<>> /\ x.step = "verify"
    BY <1>1, <1>2, <1>4, Shorter DEF Tools!Call
  <2>2. tool' = [tool EXCEPT ![w] = x]
    BY <1>4 DEF Tools!Verify
  <2>. HIDE DEF x
  <2>. QED
    BY <1>1, <2>1, <2>2, MoveOf DEF Fits, CascadeSteps, Idles
<1>. QED
  BY <1>3, <1>4

LEMMA StartCompressMoves ==
    ASSUME Tools!ToolsAssumption, Typed, NEW w \in Workers, NEW h \in Hashes, Tools!StartCompress(w, h)
    PROVE  OwnMove(w) /\ Idles(w)
<1>. DEFINE stage == IF Nested[h] = <<>> THEN "top" ELSE "nested"
            x == Tools!Start(stage, h, Nested[h])
<1>1. Nested[h] \in Seq(Hashes)
  BY RefsTyped
<1>2. x \in Tools!Call /\ x.step = stage /\ x.agenda = Nested[h]
  BY <1>1 DEF Tools!Start, Tools!Call
<1>3. tool' = [tool EXCEPT ![w] = x]
  BY DEF Tools!StartCompress
<1>. HIDE DEF x
<1>. QED
  BY <1>2, <1>3, MoveOf DEF Fits, CascadeSteps, Idles

LEMMA StoreNestedMoves ==
    ASSUME Tools!ToolsAssumption, Typed, NEW w \in Workers, NEW lands \in BOOLEAN, Tools!StoreNested(w, lands)
    PROVE  OwnMove(w) /\ Idles(w) /\ Head(tool[w].agenda) \in Hashes
<1>1. tool[w] \in Tools!Call /\ tool[w].agenda # <<>> /\ Head(tool[w].agenda) \in Hashes
  BY CallTyped, Shorter DEF Tools!StoreNested, Tools!At, Fits, CascadeSteps
<1>2. tool[w].step = "nested"
  BY DEF Tools!StoreNested, Tools!At
<1>3. CASE ~lands
  BY <1>1, <1>3, ReturnMoves DEF Tools!StoreNested, Idles
<1>4. CASE lands
  <2>. DEFINE stage == IF Len(tool[w].agenda) = 1 THEN "top" ELSE "nested"
              x == [tool[w] EXCEPT !.agenda = Tail(tool[w].agenda), !.step = stage]
  <2>1. /\ x \in Tools!Call /\ x.agenda = Tail(tool[w].agenda) /\ x.step = stage
    BY <1>1, Shorter DEF Tools!Call
  <2>2. stage = "nested" => Tail(tool[w].agenda) # <<>>
    BY <1>1, Shorter
  <2>3. tool' = [tool EXCEPT ![w] = x]
    BY <1>2, <1>4 DEF Tools!StoreNested
  <2>. HIDE DEF x
  <2>. QED
    BY <1>1, <2>1, <2>2, <2>3, MoveOf DEF Fits, CascadeSteps, Idles
<1>. QED
  BY <1>3, <1>4

LEMMA StartReadMoves ==
    ASSUME Tools!ToolsAssumption, Typed, NEW w \in Workers, NEW h \in Files, NEW fresh, Tools!StartRead(w, h, fresh)
    PROVE  OwnMove(w) /\ Idles(w)
<1>. DEFINE stage == IF ~fresh /\ cache[home[w]] = h THEN "alive" ELSE "keep"
            x == Tools!Start(stage, h, <<>>)
<1>1. h \in Hashes /\ <<>> \in Seq(Hashes)
  BY DEF Tools!ToolsAssumption
<1>2. x \in Tools!Call /\ x.step = stage /\ x.hash = h
  BY <1>1 DEF Tools!Start, Tools!Call
<1>3. tool' = [tool EXCEPT ![w] = x]
  BY DEF Tools!StartRead
<1>. HIDE DEF x
<1>. QED
  BY <1>2, <1>3, MoveOf DEF Fits, CascadeSteps, Idles

\* A furl_read call moves on with the hash it has.
LEMMA GotoMoves ==
    ASSUME Typed, NEW w \in Workers, tool[w] # None, tool[w].hash \in Files,
           NEW stage \in {"forget", "keep"}, Tools!Goto(w, stage)
    PROVE  OwnMove(w) /\ Idles(w)
<1>. DEFINE x == [tool[w] EXCEPT !.step = stage]
<1>1. tool[w] \in Tools!Call
  BY CallTyped
<1>2. x \in Tools!Call /\ x.step = stage /\ x.hash = tool[w].hash
  BY <1>1 DEF Tools!Call
<1>3. tool' = [tool EXCEPT ![w] = x]
  BY DEF Tools!Goto
<1>. HIDE DEF x
<1>. QED
  BY <1>2, <1>3, MoveOf DEF Fits, CascadeSteps, Idles

LEMMA ReadCachedMoves ==
    ASSUME Typed, NEW w \in Workers, Tools!ReadCached(w)
    PROVE  OwnMove(w) /\ Idles(w)
<1>1. tool[w] # None /\ tool[w].hash \in Files
  BY CallTyped DEF Tools!ReadCached, Tools!At, Fits
<1>. QED
  BY <1>1, ReturnMoves, GotoMoves DEF Tools!ReadCached, Idles

LEMMA ReadForgetMoves ==
    ASSUME Typed, NEW w \in Workers, Tools!ReadForget(w)
    PROVE  OwnMove(w) /\ Idles(w)
<1>1. tool[w] # None /\ tool[w].hash \in Files
  BY CallTyped DEF Tools!ReadForget, Tools!At, Fits
<1>. QED
  BY <1>1, ReturnMoves, GotoMoves DEF Tools!ReadForget, Idles

\* What retrieve(), furl_compress and furl_read write is a hash, and what furl_read caches
\* is a file's content.
LEMMA WriterTyped ==
    ASSUME Tools!ToolsAssumption, Typed, NEW w \in Workers, tool[w] # None
    PROVE  tool[w].hash \in Hashes /\ (Tools!At(w, "keep") => tool[w].hash \in Files)
BY CallTyped DEF Tools!Call, Fits, Tools!At

-----------------------------------------------------------------------------
(* Types *)

\* The data of the type invariant.
DataTyped ==
    /\ home \in [Workers -> Servers]
    /\ file \subseteq Hashes
    /\ overlay \in [Servers -> SUBSET Hashes]
    /\ cache \in [Servers -> Files \cup {None}]
    /\ mishaps \in 0..MaxMishaps
    /\ since \in [Workers -> SUBSET Hashes]
    /\ excused \subseteq Hashes
    /\ erased \in [Servers -> SUBSET Hashes]

LEMMA SameCallsTyped ==
    ASSUME Typed, tool' = tool, DataTyped'
    PROVE  Typed'
<1>1. \A u \in Workers : tool'[u] # None => Fits(tool'[u])
  BY DEF Typed
<1>2. tool' \in [Workers -> Tools!Call \cup {None}]
  BY DEF Typed, Tools!TypeOK
<1>. QED
  BY <1>1, <1>2 DEF Typed, Tools!TypeOK, DataTyped

\* A step of worker w keeps the types when it keeps the data's.
LEMMA MoveKeepsTypes ==
    ASSUME Typed, NEW w \in Workers, OwnMove(w), DataTyped'
    PROVE  Typed'
<1>1. tool' \in [Workers -> Tools!Call \cup {None}]
  BY DEF OwnMove
<1>2. ASSUME NEW u \in Workers, tool'[u] # None
      PROVE  Fits(tool'[u])
  BY <1>2 DEF OwnMove, Typed
<1>. QED
  BY <1>1, <1>2 DEF Typed, Tools!TypeOK, DataTyped

LEMMA FaultTyped ==
    ASSUME Tools!ToolsAssumption, mishaps \in 0..MaxMishaps, Tools!Fault
    PROVE  mishaps' \in 0..MaxMishaps
BY DEF Tools!ToolsAssumption, Tools!Fault

LEMMA WriteTyped ==
    ASSUME Tools!ToolsAssumption, Typed, NEW s \in Servers, NEW h \in Hashes, NEW lands, Tools!Write(s, h, lands)
    PROVE  /\ file' \subseteq Hashes
           /\ overlay' \in [Servers -> SUBSET Hashes]
           /\ mishaps' \in 0..MaxMishaps
<1>1. CASE lands
  BY <1>1 DEF Tools!Write, Typed, Tools!TypeOK
<1>2. CASE ~lands
  BY <1>2, FaultTyped DEF Tools!Write, Typed, Tools!TypeOK
<1>. QED
  BY <1>1, <1>2

LEMMA NoteTyped ==
    ASSUME Tools!ToolsAssumption, Typed, NEW h \in Hashes, NEW lands, Tools!NoteWritten(h, lands)
    PROVE  since' \in [Workers -> SUBSET Hashes] /\ excused' \subseteq Hashes
<1>1. since' \in [Workers -> SUBSET Hashes]
  BY DEF Tools!NoteWritten, Typed, Tools!TypeOK
<1>2. excused' \subseteq Hashes
  BY RefsTyped DEF Tools!NoteWritten, Typed, Tools!TypeOK
<1>. QED
  BY <1>1, <1>2

LEMMA StoredTyped ==
    ASSUME Tools!ToolsAssumption, Typed, NEW h \in Hashes, NEW lands, Tools!NoteStored(h, lands)
    PROVE  /\ since' \in [Workers -> SUBSET Hashes] /\ excused' \subseteq Hashes
           /\ erased' \in [Servers -> SUBSET Hashes]
BY NoteTyped DEF Tools!NoteStored, Typed, Tools!TypeOK
-----------------------------------------------------------------------------
(* The steps *)

\* An entry is live in a server when it is in the file or in that server's fallback.
LEMMA LiveNow ==
    /\ \A s : Tools!Live(s) = file \cup overlay[s]
    /\ \A s : Tools!Live(s)' = file' \cup overlay'[s]
BY DEF Tools!Live

\* A step that stores and erases nothing.
LEMMA QuietKeeps ==
    ASSUME ToolsInv, NEW w \in Workers, OwnMove(w), home' = home, DataTyped',
           UNCHANGED <<file, overlay, since, excused, erased>>,
           Tools!At(w, "bump")' => tool'[w].hash \notin erased[home[w]],
           Counted(w)'
    PROVE  ToolsInv'
<1>1. Typed'
  BY MoveKeepsTypes DEF ToolsInv
<1>2. Tools!ErasedStaysGone'
  BY LiveNow DEF ToolsInv, Tools!ErasedStaysGone
<1>3. ReadNotErased'
  BY DEF ToolsInv, ReadNotErased, OwnMove, Tools!At
<1>4. Tools!NestedResolves'
  BY DEF ToolsInv, Tools!NestedResolves, Tools!Refs
<1>5. ASSUME NEW u \in Workers, u # w
      PROVE  Counted(u)'
  <2>1. Counted(u) /\ tool'[u] = tool[u]
    BY <1>5 DEF ToolsInv, OwnMove
  <2>. QED
    BY <2>1 DEF Counted, Tools!At, Tools!Refs
<1>. QED
  BY <1>1, <1>2, <1>3, <1>4, <1>5 DEF ToolsInv

\* A step that idles has nothing to count.
LEMMA IdlesCounts ==
    ASSUME NEW w, Idles(w)
    PROVE  Counted(w)' /\ ~Tools!At(w, "bump")' /\ ~Tools!At(w, "collect")' /\ ~Tools!At(w, "erase")'
BY DEF Idles, Counted, Tools!At

\* A write: what has been verified gone does not include what it stores, and the walks
\* that have counted note it.
LEMMA WriteKeeps ==
    ASSUME Tools!ToolsAssumption, ToolsInv, NEW w \in Workers, OwnMove(w), Idles(w), home' = home,
           DataTyped', NEW h \in Hashes, NEW lands, Tools!Write(home[w], h, lands), Tools!NoteWritten(h, lands),
           \A s \in Servers : erased'[s] \subseteq erased[s] /\ h \notin erased'[s]
    PROVE  ToolsInv'
<1>. Typed /\ home[w] \in Servers /\ overlay \in [Servers -> SUBSET Hashes]
  BY DEF ToolsInv, Typed, Tools!TypeOK
<1>1. Typed'
  BY MoveKeepsTypes
<1>2. Tools!ErasedStaysGone'
  <2>. SUFFICES ASSUME NEW s \in Servers
       PROVE  erased'[s] \cap (file' \cup overlay'[s]) = {}
    BY LiveNow DEF Tools!ErasedStaysGone
  <2>1. file' \cup overlay'[s] \subseteq file \cup overlay[s] \cup {h}
    BY DEF Tools!Write
  <2>2. erased[s] \cap (file \cup overlay[s]) = {}
    BY LiveNow DEF ToolsInv, Tools!ErasedStaysGone
  <2>. QED
    BY <2>1, <2>2
<1>3. ReadNotErased'
  <2>. SUFFICES ASSUME NEW u \in Workers, Tools!At(u, "bump")'
       PROVE  tool'[u].hash \notin erased'[home[u]]
    BY DEF ReadNotErased
  <2>1. u # w /\ tool'[u] = tool[u] /\ Tools!At(u, "bump")
    BY IdlesCounts DEF OwnMove, Tools!At
  <2>2. home[u] \in Servers
    BY DEF Typed, Tools!TypeOK
  <2>. QED
    BY <2>1, <2>2 DEF ToolsInv, ReadNotErased
<1>4. Tools!NestedResolves'
  <2>. SUFFICES ASSUME NEW p \in file', NEW r \in Tools!Refs(p)
       PROVE  r \in file' \cup excused'
    BY DEF Tools!NestedResolves, Tools!Refs
  <2>1. CASE ~lands
    BY <2>1 DEF Tools!Write, Tools!NoteWritten, ToolsInv, Tools!NestedResolves
  <2>2. CASE lands
    <3>1. file' = file \cup {h} /\ excused' = (excused \ {h}) \cup (Tools!Refs(h) \ file)
      BY <2>2 DEF Tools!Write, Tools!NoteWritten
    <3>2. p \in file => r \in file \cup excused
      BY DEF ToolsInv, Tools!NestedResolves
    <3>. QED
      BY <3>1, <3>2
  <2>. QED
    BY <2>1, <2>2
<1>5. ASSUME NEW u \in Workers
      PROVE  Counted(u)'
  <2>1. CASE Tools!At(u, "collect")' \/ Tools!At(u, "erase")'
    <3>1. u # w /\ tool'[u] = tool[u] /\ (Tools!At(u, "collect") \/ Tools!At(u, "erase"))
      BY <2>1, IdlesCounts DEF OwnMove, Tools!At
    <3>2. since'[u] = since[u] \cup {h} /\ file' \subseteq file \cup {h}
      BY <3>1 DEF Tools!NoteWritten, Tools!Write
    <3>3. \A p : Tools!Refs(p)' = Tools!Refs(p)
      BY DEF Tools!Refs
    <3>4. Counted(u)
      BY DEF ToolsInv
    <3>. QED
      BY <3>1, <3>2, <3>3, <3>4 DEF Counted
  <2>2. CASE ~(Tools!At(u, "collect")' \/ Tools!At(u, "erase")')
    BY <2>2 DEF Counted
  <2>. QED
    BY <2>1, <2>2
<1>. QED
  BY <1>1, <1>2, <1>3, <1>4, <1>5 DEF ToolsInv

\* A step that takes hashes out of the stores: the histories it leaves alone, and the
\* markers it may break are excused.
LEMMA EraseKeeps ==
    ASSUME Tools!ToolsAssumption, ToolsInv, home' = home, Typed', Tools!ErasedStaysGone', ReadNotErased',
           file' \subseteq file,
           \A p \in file' : \A r \in Tools!Refs(p) : r \in (file \ file') \cup excused => r \in excused',
           \A u \in Workers : tool'[u] # None /\ tool'[u].step \in {"collect", "erase"} =>
               tool'[u] = tool[u] /\ since'[u] = since[u]
    PROVE  ToolsInv'
<1>1. Tools!NestedResolves'
  <2>. SUFFICES ASSUME NEW p \in file', NEW r \in Tools!Refs(p)
       PROVE  r \in file' \cup excused'
    BY DEF Tools!NestedResolves, Tools!Refs
  <2>1. r \in file \cup excused
    BY DEF ToolsInv, Tools!NestedResolves
  <2>. QED
    BY <2>1
<1>2. ASSUME NEW u \in Workers
      PROVE  Counted(u)'
  <2>1. CASE Tools!At(u, "collect")' \/ Tools!At(u, "erase")'
    <3>1. tool'[u] = tool[u] /\ since'[u] = since[u] /\ (Tools!At(u, "collect") \/ Tools!At(u, "erase"))
      BY <2>1 DEF Tools!At
    <3>2. \A p : Tools!Refs(p)' = Tools!Refs(p)
      BY DEF Tools!Refs
    <3>3. Counted(u)
      BY DEF ToolsInv
    <3>. QED
      BY <3>1, <3>2, <3>3 DEF Counted
  <2>2. CASE ~(Tools!At(u, "collect")' \/ Tools!At(u, "erase")')
    BY <2>2 DEF Counted
  <2>. QED
    BY <2>1, <2>2
<1>. QED
  BY <1>1, <1>2 DEF ToolsInv
LEMMA InvTyped ==
    ASSUME ToolsInv
    PROVE  Typed /\ DataTyped /\ \A w \in Workers : home[w] \in Servers
BY DEF ToolsInv, Typed, Tools!TypeOK, DataTyped

LEMMA RetrieveReadKeeps ==
    ASSUME Tools!ToolsAssumption, ToolsInv, home' = home, NEW w \in Workers, NEW h \in Hashes,
           Tools!RetrieveRead(w, h)
    PROVE  ToolsInv'
<1>1. Typed /\ DataTyped /\ home[w] \in Servers
  BY InvTyped
<1>2. OwnMove(w) /\ tool'[w].step = "bump" /\ tool'[w].hash = h
  BY <1>1, RetrieveReadMoves
<1>3. UNCHANGED <<file, overlay, cache, mishaps, since, excused, erased>>
  BY DEF Tools!RetrieveRead
<1>4. h \notin erased[home[w]]
  BY <1>1, LiveNow DEF Tools!RetrieveRead, ToolsInv, Tools!ErasedStaysGone
<1>5. Counted(w)'
  BY <1>2 DEF Counted, Tools!At
<1>6. DataTyped'
  BY <1>1, <1>3 DEF DataTyped
<1>. QED
  BY <1>2, <1>3, <1>4, <1>5, <1>6, QuietKeeps

LEMMA StartPurgeKeeps ==
    ASSUME Tools!ToolsAssumption, ToolsInv, home' = home, NEW w \in Workers, NEW h \in Hashes,
           Tools!StartPurge(w, h)
    PROVE  ToolsInv'
<1>1. Typed /\ DataTyped
  BY InvTyped
<1>2. OwnMove(w) /\ tool'[w].step = "erase" /\ Head(tool'[w].agenda) = tool'[w].hash
  BY <1>1, StartPurgeMoves
<1>3. UNCHANGED <<file, overlay, cache, mishaps, since, excused, erased>>
  BY DEF Tools!StartPurge
<1>4. Counted(w)' /\ ~Tools!At(w, "bump")'
  BY <1>2 DEF Counted, Tools!At
<1>5. DataTyped'
  BY <1>1, <1>3 DEF DataTyped
<1>. QED
  BY <1>2, <1>3, <1>4, <1>5, QuietKeeps

LEMMA PurgeCheckKeeps ==
    ASSUME Tools!ToolsAssumption, ToolsInv, home' = home, NEW w \in Workers, Tools!PurgeCheck(w)
    PROVE  ToolsInv'
<1>1. Typed /\ DataTyped
  BY InvTyped
<1>. DEFINE h == Head(tool[w].agenda)
<1>2. OwnMove(w)
  BY <1>1, PurgeCheckMoves
<1>3. UNCHANGED <<file, overlay, cache, mishaps, since, excused, erased>>
  BY DEF Tools!PurgeCheck
<1>4. Counted(w)' /\ ~Tools!At(w, "bump")'
  <2>1. CASE tool'[w].step \in {"verify", "check"}
    BY <2>1 DEF Counted, Tools!At
  <2>2. CASE /\ tool'[w].step = "collect"
             /\ tool'[w].visited = tool[w].visited
             /\ Head(tool'[w].agenda) = h
             /\ ~Tools!CoReferenced(w, h)
    <3>1. \A p \in file : h \in Tools!Refs(p) => p \in tool[w].visited \cup {h}
      BY <2>2, LiveNow DEF Tools!CoReferenced
    <3>2. \A p : Tools!Refs(p)' = Tools!Refs(p)
      BY DEF Tools!Refs
    <3>. HIDE DEF h
    <3>. QED
      BY <1>3, <2>2, <3>1, <3>2 DEF Counted, Tools!At
  <2>. QED
    BY <1>1, <2>1, <2>2, PurgeCheckMoves
<1>5. DataTyped'
  BY <1>1, <1>3 DEF DataTyped
<1>. QED
  BY <1>2, <1>3, <1>4, <1>5, QuietKeeps

LEMMA PurgeCollectKeeps ==
    ASSUME Tools!ToolsAssumption, ToolsInv, home' = home, NEW w \in Workers, Tools!PurgeCollect(w)
    PROVE  ToolsInv'
<1>1. Typed /\ DataTyped
  BY InvTyped
<1>. DEFINE h == Head(tool[w].agenda)
<1>2. /\ OwnMove(w) /\ tool'[w].step = "erase" /\ tool'[w].hash = tool[w].hash
      /\ tool'[w].visited = tool[w].visited \cup {h} /\ Head(tool'[w].agenda) = h
  BY <1>1, PurgeCollectMoves
<1>3. UNCHANGED <<file, overlay, cache, mishaps, since, excused, erased>>
  BY DEF Tools!PurgeCollect
<1>4. Counted(w)' /\ ~Tools!At(w, "bump")'
  <2>1. \A p : Tools!Refs(p)' = Tools!Refs(p)
    BY DEF Tools!Refs
  <2>2. \/ h = tool[w].hash
        \/ \A p \in file : h \in Tools!Refs(p) => p \in since[w] \cup tool[w].visited \cup {h}
    BY DEF Tools!PurgeCollect, ToolsInv, Counted
  <2>. HIDE DEF h
  <2>. QED
    BY <1>2, <1>3, <2>1, <2>2 DEF Counted, Tools!At
<1>5. DataTyped'
  BY <1>1, <1>3 DEF DataTyped
<1>. QED
  BY <1>2, <1>3, <1>4, <1>5, QuietKeeps

\* The steps that only move their call: the start of furl_compress and furl_read, and
\* furl_read's look at its cache.
LEMMA IdleStepKeeps ==
    ASSUME ToolsInv, home' = home, NEW w \in Workers, OwnMove(w), Idles(w),
           cache' \in [Servers -> Files \cup {None}],
           UNCHANGED <<file, overlay, mishaps, since, excused, erased>>
    PROVE  ToolsInv'
<1>1. DataTyped'
  BY InvTyped DEF DataTyped
<1>. QED
  BY <1>1, IdlesCounts, QuietKeeps

LEMMA ReadForgetKeeps ==
    ASSUME ToolsInv, home' = home, NEW w \in Workers, Tools!ReadForget(w)
    PROVE  ToolsInv'
<1>1. cache' \in [Servers -> Files \cup {None}]
  BY InvTyped DEF Tools!ReadForget, DataTyped
<1>. QED
  BY <1>1, InvTyped, ReadForgetMoves, IdleStepKeeps DEF Tools!ReadForget

LEMMA StartsKeep ==
    ASSUME Tools!ToolsAssumption, ToolsInv, home' = home, NEW w \in Workers,
           \/ \E h \in Tops : Tools!StartCompress(w, h)
           \/ \E h \in Files, fresh \in BOOLEAN : Tools!StartRead(w, h, fresh)
           \/ Tools!ReadCached(w)
    PROVE  ToolsInv'
<1>1. Typed /\ DataTyped
  BY InvTyped
<1>2. OwnMove(w) /\ Idles(w)
  BY <1>1, StartCompressMoves, StartReadMoves, ReadCachedMoves DEF Tools!ToolsAssumption
<1>3. UNCHANGED <<file, overlay, cache, mishaps, since, excused, erased>>
  BY DEF Tools!StartCompress, Tools!StartRead, Tools!ReadCached
<1>. QED
  BY <1>1, <1>2, <1>3, IdleStepKeeps DEF DataTyped

LEMMA RetrieveBumpKeeps ==
    ASSUME Tools!ToolsAssumption, ToolsInv, home' = home, NEW w \in Workers, NEW lands \in BOOLEAN,
           Tools!RetrieveBump(w, lands)
    PROVE  ToolsInv'
<1>. DEFINE h == tool[w].hash
<1>1. Typed /\ DataTyped /\ home[w] \in Servers
  BY InvTyped
<1>2. OwnMove(w) /\ Idles(w)
  BY <1>1, ReturnMoves DEF Tools!RetrieveBump, Idles
<1>3. h \in Hashes
  BY <1>1, WriterTyped DEF Tools!RetrieveBump, Tools!At
<1>4. h \notin erased[home[w]]
  BY DEF Tools!RetrieveBump, ToolsInv, ReadNotErased
<1>5. \A s \in Servers : erased'[s] = IF s = home[w] THEN erased[s] ELSE erased[s] \ {h}
  BY DEF Tools!RetrieveBump
<1>6. \A s \in Servers : erased'[s] \subseteq erased[s] /\ h \notin erased'[s]
  BY <1>4, <1>5
<1>7. DataTyped'
  <2>1. erased' \in [Servers -> SUBSET Hashes]
    BY <1>1 DEF Tools!RetrieveBump, DataTyped
  <2>. QED
    BY <1>1, <1>3, <2>1, WriteTyped, NoteTyped DEF Tools!RetrieveBump, DataTyped
<1>. QED
  BY <1>2, <1>3, <1>6, <1>7, WriteKeeps DEF Tools!RetrieveBump

\* A store of hash h by worker w.
LEMMA StoreKeeps ==
    ASSUME Tools!ToolsAssumption, ToolsInv, home' = home, NEW w \in Workers, OwnMove(w), Idles(w),
           NEW h \in Hashes, NEW lands, Tools!Write(home[w], h, lands), Tools!NoteStored(h, lands),
           cache' \in [Servers -> Files \cup {None}]
    PROVE  ToolsInv'
<1>1. Typed /\ DataTyped /\ home[w] \in Servers
  BY InvTyped
<1>2. \A s \in Servers : erased'[s] \subseteq erased[s] /\ h \notin erased'[s]
  BY DEF Tools!NoteStored
<1>3. DataTyped'
  BY <1>1, WriteTyped, StoredTyped DEF DataTyped
<1>. QED
  BY <1>2, <1>3, WriteKeeps DEF Tools!NoteStored

LEMMA StoresKeep ==
    ASSUME Tools!ToolsAssumption, ToolsInv, home' = home, NEW w \in Workers, NEW lands \in BOOLEAN,
           Tools!StoreNested(w, lands) \/ Tools!StoreTop(w, lands) \/ Tools!ReadStore(w, lands)
    PROVE  ToolsInv'
<1>1. Typed /\ DataTyped /\ home[w] \in Servers
  BY InvTyped
<1>2. CASE Tools!StoreNested(w, lands)
  <2>1. cache' \in [Servers -> Files \cup {None}]
    BY <1>1, <1>2 DEF Tools!StoreNested, DataTyped
  <2>. QED
    BY <1>1, <1>2, <2>1, StoreNestedMoves, StoreKeeps DEF Tools!StoreNested
<1>3. CASE Tools!StoreTop(w, lands)
  <2>1. OwnMove(w) /\ Idles(w)
    BY <1>1, <1>3, ReturnMoves DEF Tools!StoreTop, Idles
  <2>2. tool[w].hash \in Hashes
    BY <1>1, <1>3, WriterTyped DEF Tools!StoreTop, Tools!At
  <2>3. cache' \in [Servers -> Files \cup {None}]
    BY <1>1, <1>3 DEF Tools!StoreTop, DataTyped
  <2>. QED
    BY <1>3, <2>1, <2>2, <2>3, StoreKeeps DEF Tools!StoreTop
<1>4. CASE Tools!ReadStore(w, lands)
  <2>1. OwnMove(w) /\ Idles(w)
    BY <1>1, <1>4, ReturnMoves DEF Tools!ReadStore, Idles
  <2>2. tool[w].hash \in Hashes /\ tool[w].hash \in Files
    BY <1>1, <1>4, WriterTyped DEF Tools!ReadStore, Tools!At
  <2>3. cache' \in [Servers -> Files \cup {None}]
    BY <1>1, <1>4, <2>2 DEF Tools!ReadStore, DataTyped
  <2>. QED
    BY <1>4, <2>1, <2>2, <2>3, StoreKeeps DEF Tools!ReadStore
<1>. QED
  BY <1>2, <1>3, <1>4
\* While retrieve() is between its read and its write, nobody of its server verifies.
LEMMA LockedOut ==
    ASSUME NEW w \in Workers, Tools!LockFree(w), NEW u \in Workers, Tools!At(u, "bump")
    PROVE  home[u] # home[w]
BY DEF Tools!LockFree

LEMMA PurgeEraseKeeps ==
    ASSUME Tools!ToolsAssumption, ToolsInv, home' = home, NEW w \in Workers, NEW reached \in BOOLEAN,
           Tools!PurgeErase(w, reached)
    PROVE  ToolsInv'
<1>. DEFINE h == Head(tool[w].agenda)
<1>1. Typed /\ DataTyped /\ home[w] \in Servers
  BY InvTyped
<1>2. OwnMove(w) /\ tool'[w].step \in {"verify", "check"} /\ h \in Hashes
  BY <1>1, PurgeEraseMoves
<1>3. /\ file' = IF reached THEN file \ {h} ELSE file
      /\ IF reached THEN UNCHANGED mishaps ELSE Tools!Fault
      /\ overlay' = [overlay EXCEPT ![home[w]] = overlay[home[w]] \ {h}]
      /\ excused' = IF h = tool[w].hash \/ Tools!Uncounted(w, h)
                    THEN excused \cup ({h} \cap Tools!Markers) ELSE excused
      /\ since' = [since EXCEPT ![w] = {}]
      /\ UNCHANGED <<cache, erased>>
      /\ Tools!At(w, "erase")
  BY DEF Tools!PurgeErase
<1>. HIDE DEF h
<1>4. Typed'
  <2>1. mishaps' \in 0..MaxMishaps
    BY <1>1, <1>3, FaultTyped DEF DataTyped
  <2>2. excused' \subseteq Hashes
    BY <1>1, <1>2, <1>3 DEF DataTyped
  <2>3. DataTyped'
    BY <1>1, <1>3, <2>1, <2>2 DEF DataTyped
  <2>. QED
    BY <1>1, <1>2, <2>3, MoveKeepsTypes
<1>5. Tools!ErasedStaysGone'
  <2>. SUFFICES ASSUME NEW s \in Servers
       PROVE  erased[s] \cap (file' \cup overlay'[s]) = {}
    BY <1>3, LiveNow DEF Tools!ErasedStaysGone
  <2>1. file' \cup overlay'[s] \subseteq file \cup overlay[s]
    BY <1>1, <1>3 DEF DataTyped
  <2>. QED
    BY <2>1, LiveNow DEF ToolsInv, Tools!ErasedStaysGone
<1>6. ReadNotErased'
  BY <1>2, <1>3 DEF ToolsInv, ReadNotErased, OwnMove, Tools!At
<1>7. \A p \in file' : \A r \in Tools!Refs(p) : r \in (file \ file') \cup excused => r \in excused'
  <2>. SUFFICES ASSUME NEW p \in file', NEW r \in Tools!Refs(p), r \in file \ file'
       PROVE  r \in excused'
    BY <1>3
  <2>1. reached /\ r = h /\ p \in file /\ p # h /\ h \in Tools!Refs(p)
    BY <1>3
  <2>2. h \in Tools!Markers
    BY <1>1, <2>1, RefsTyped DEF DataTyped
  <2>3. h = tool[w].hash \/ Tools!Uncounted(w, h)
    <3>1. \/ h = tool[w].hash
          \/ \A q \in file : h \in Tools!Refs(q) => q \in since[w] \cup tool[w].visited \cup {h}
      BY <1>3 DEF ToolsInv, Counted, h
    <3>. QED
      BY <2>1, <3>1 DEF Tools!Uncounted
  <2>. QED
    BY <1>3, <2>1, <2>2, <2>3
<1>8. ASSUME NEW u \in Workers, tool'[u] # None, tool'[u].step \in {"collect", "erase"}
      PROVE  tool'[u] = tool[u] /\ since'[u] = since[u]
  <2>1. u # w
    BY <1>2, <1>8
  <2>. QED
    BY <1>1, <1>2, <1>3, <2>1 DEF OwnMove, DataTyped
<1>9. file' \subseteq file
  BY <1>3
<1>. QED
  BY <1>4, <1>5, <1>6, <1>7, <1>8, <1>9, EraseKeeps

LEMMA VerifyKeeps ==
    ASSUME Tools!ToolsAssumption, ToolsInv, home' = home, NEW w \in Workers, Tools!Verify(w)
    PROVE  ToolsInv'
<1>. DEFINE h == Head(tool[w].agenda)
<1>1. Typed /\ DataTyped /\ home[w] \in Servers
  BY InvTyped
<1>2. OwnMove(w) /\ Idles(w) /\ h \in Hashes
  BY <1>1, VerifyMoves
<1>3. /\ erased' = IF h \in Tools!Live(home[w]) THEN erased
                   ELSE [erased EXCEPT ![home[w]] = erased[home[w]] \cup {h}]
      /\ UNCHANGED <<file, overlay, cache, mishaps, since, excused>>
      /\ Tools!LockFree(w)
  BY DEF Tools!Verify
<1>. HIDE DEF h
<1>4. Typed'
  <2>1. erased' \in [Servers -> SUBSET Hashes]
    BY <1>1, <1>2, <1>3 DEF DataTyped
  <2>2. DataTyped'
    BY <1>1, <1>3, <2>1 DEF DataTyped
  <2>. QED
    BY <1>1, <1>2, <2>2, MoveKeepsTypes
<1>5. \A s \in Servers : erased'[s] = erased[s]
                        \/ (s = home[w] /\ erased'[s] = erased[s] \cup {h} /\ h \notin Tools!Live(s))
  BY <1>1, <1>3 DEF DataTyped
<1>6. Tools!ErasedStaysGone'
  BY <1>3, <1>5, LiveNow DEF ToolsInv, Tools!ErasedStaysGone
<1>7. ReadNotErased'
  <2>. SUFFICES ASSUME NEW u \in Workers, Tools!At(u, "bump")'
       PROVE  tool'[u].hash \notin erased'[home[u]]
    BY DEF ReadNotErased
  <2>1. u # w /\ tool'[u] = tool[u] /\ Tools!At(u, "bump")
    BY <1>2, IdlesCounts DEF OwnMove, Tools!At
  <2>2. home[u] \in Servers /\ home[u] # home[w]
    BY <1>3, <2>1, InvTyped, LockedOut
  <2>. QED
    BY <1>5, <2>1, <2>2 DEF ToolsInv, ReadNotErased
<1>8. ASSUME NEW u \in Workers, tool'[u] # None, tool'[u].step \in {"collect", "erase"}
      PROVE  tool'[u] = tool[u] /\ since'[u] = since[u]
  BY <1>2, <1>3, <1>8 DEF OwnMove, Idles
<1>. QED
  BY <1>3, <1>4, <1>6, <1>7, <1>8, EraseKeeps

LEMMA PurgeAllKeeps ==
    ASSUME Tools!ToolsAssumption, ToolsInv, home' = home, NEW w \in Workers, NEW reached \in BOOLEAN,
           Tools!PurgeAll(w, reached)
    PROVE  ToolsInv'
<1>1. Typed /\ DataTyped /\ home[w] \in Servers
  BY InvTyped
<1>2. /\ file' = IF reached THEN {} ELSE file
      /\ IF reached THEN UNCHANGED mishaps ELSE Tools!Fault
      /\ overlay' = [overlay EXCEPT ![home[w]] = {}]
      /\ excused' = Tools!Markers
      /\ erased' = IF file' = {} THEN [erased EXCEPT ![home[w]] = Hashes] ELSE erased
      /\ UNCHANGED <<cache, tool, since>>
      /\ Tools!LockFree(w)
  BY DEF Tools!PurgeAll
<1>3. Typed'
  <2>1. mishaps' \in 0..MaxMishaps
    BY <1>1, <1>2, FaultTyped DEF DataTyped
  <2>2. Tools!Markers \subseteq Hashes
    BY RefsTyped DEF Tools!Markers
  <2>3. DataTyped'
    <3>1. erased' \in [Servers -> SUBSET Hashes] /\ overlay' \in [Servers -> SUBSET Hashes]
      BY <1>1, <1>2 DEF DataTyped
    <3>. QED
      BY <1>1, <1>2, <2>1, <2>2, <3>1 DEF DataTyped
  <2>. QED
    BY <1>1, <1>2, <2>3, SameCallsTyped
<1>4. \A s \in Servers : /\ file' \cup overlay'[s] \subseteq file \cup overlay[s]
                         /\ erased'[s] = erased[s] \/ (s = home[w] /\ file' \cup overlay'[s] = {})
  BY <1>1, <1>2 DEF DataTyped
<1>5. Tools!ErasedStaysGone'
  BY <1>4, LiveNow DEF ToolsInv, Tools!ErasedStaysGone
<1>6. ReadNotErased'
  <2>. SUFFICES ASSUME NEW u \in Workers, Tools!At(u, "bump")'
       PROVE  tool'[u].hash \notin erased'[home[u]]
    BY DEF ReadNotErased
  <2>1. tool'[u] = tool[u] /\ Tools!At(u, "bump")
    BY <1>2 DEF Tools!At
  <2>2. home[u] \in Servers /\ home[u] # home[w]
    BY <1>2, <2>1, InvTyped, LockedOut
  <2>. QED
    BY <1>4, <2>1, <2>2 DEF ToolsInv, ReadNotErased
<1>7. \A p \in file' : \A r \in Tools!Refs(p) : r \in excused'
  <2>1. file' \subseteq Hashes
    BY <1>1, <1>2 DEF DataTyped
  <2>. QED
    BY <1>2, <2>1, RefsTyped
<1>. QED
  BY <1>2, <1>3, <1>5, <1>6, <1>7, EraseKeeps

LEMMA LoseKeeps ==
    ASSUME Tools!ToolsAssumption, ToolsInv, home' = home, NEW h \in Hashes, Tools!Lose(h)
    PROVE  ToolsInv'
<1>1. Typed /\ DataTyped
  BY InvTyped
<1>2. /\ file' = file \ {h} /\ Tools!Fault /\ excused' = excused \cup ({h} \cap Tools!Markers)
      /\ UNCHANGED <<overlay, cache, tool, since, erased>>
  BY DEF Tools!Lose
<1>3. Typed'
  <2>1. mishaps' \in 0..MaxMishaps
    BY <1>1, <1>2, FaultTyped DEF DataTyped
  <2>2. DataTyped'
    BY <1>1, <1>2, <2>1 DEF DataTyped
  <2>. QED
    BY <1>1, <1>2, <2>2, SameCallsTyped
<1>4. Tools!ErasedStaysGone' /\ ReadNotErased'
  BY <1>2, LiveNow DEF ToolsInv, Tools!ErasedStaysGone, ReadNotErased, Tools!At
<1>5. \A p \in file' : \A r \in Tools!Refs(p) : r \in (file \ file') \cup excused => r \in excused'
  <2>1. \A p \in file : Tools!Refs(p) \subseteq Tools!Markers
    BY <1>1, RefsTyped DEF DataTyped
  <2>. QED
    BY <1>2, <2>1
<1>. QED
  BY <1>2, <1>3, <1>4, <1>5, EraseKeeps

LEMMA RestartKeeps ==
    ASSUME Tools!ToolsAssumption, ToolsInv, home' = home, NEW s \in Servers, Tools!Restart(s)
    PROVE  ToolsInv'
<1>1. Typed /\ DataTyped
  BY InvTyped
<1>2. /\ Tools!Fault /\ overlay' = [overlay EXCEPT ![s] = {}] /\ cache' = [cache EXCEPT ![s] = None]
      /\ tool' = [w \in Workers |-> IF home[w] = s THEN None ELSE tool[w]]
      /\ UNCHANGED <<file, since, excused, erased>>
  BY DEF Tools!Restart
<1>3. \A u \in Workers : tool'[u] = None \/ tool'[u] = tool[u]
  BY <1>2
<1>4. Typed'
  <2>1. mishaps' \in 0..MaxMishaps
    BY <1>1, <1>2, FaultTyped DEF DataTyped
  <2>2. DataTyped'
    BY <1>1, <1>2, <2>1 DEF DataTyped
  <2>3. tool' \in [Workers -> Tools!Call \cup {None}]
    BY <1>1, <1>2 DEF Typed, Tools!TypeOK
  <2>4. \A u \in Workers : tool'[u] # None => Fits(tool'[u])
    BY <1>1, <1>3 DEF Typed
  <2>. QED
    BY <2>2, <2>3, <2>4 DEF Typed, Tools!TypeOK, DataTyped
<1>5. \A t \in Servers : overlay'[t] \subseteq overlay[t]
  BY <1>1, <1>2 DEF DataTyped
<1>6. Tools!ErasedStaysGone'
  BY <1>2, <1>5, LiveNow DEF ToolsInv, Tools!ErasedStaysGone
<1>7. ReadNotErased'
  BY <1>2, <1>3 DEF ToolsInv, ReadNotErased, Tools!At
<1>. QED
  BY <1>2, <1>3, <1>4, <1>6, <1>7, EraseKeeps

-----------------------------------------------------------------------------

LEMMA ToolsInvInit ==
    ASSUME Tools!ToolsAssumption, Tools!Init
    PROVE  ToolsInv
<1>1. Typed
  BY DEF Tools!Init, Typed, Tools!TypeOK, Tools!ToolsAssumption
<1>2. \A w \in Workers : tool[w] = None
  BY DEF Tools!Init
<1>. QED
  BY <1>1, <1>2 DEF Tools!Init, ToolsInv, Tools!ErasedStaysGone, ReadNotErased, Tools!NestedResolves,
     Counted, Tools!At

LEMMA ToolsInvNext ==
    ASSUME Tools!ToolsAssumption, ToolsInv, [Tools!Next]_(Tools!vars)
    PROVE  ToolsInv'
<1>1. CASE UNCHANGED Tools!vars
  BY <1>1 DEF Tools!vars, ToolsInv, Typed, Tools!TypeOK, Tools!ErasedStaysGone, Tools!Live,
     ReadNotErased, Tools!NestedResolves,
              Counted, Tools!At, Tools!Refs
<1>. SUFFICES ASSUME Tools!Next
     PROVE  ToolsInv'
  BY <1>1
<1>. home' = home
  BY DEF Tools!Next
<1>2. ASSUME NEW w \in Workers, NEW h \in Asked, Tools!RetrieveRead(w, h) \/ Tools!StartPurge(w, h)
      PROVE  ToolsInv'
  BY <1>2, RetrieveReadKeeps, StartPurgeKeeps DEF Tools!ToolsAssumption
<1>3. ASSUME NEW w \in Workers,
             \/ \E h \in Tops : Tools!StartCompress(w, h)
             \/ \E h \in Files, fresh \in BOOLEAN : Tools!StartRead(w, h, fresh)
             \/ Tools!ReadCached(w)
      PROVE  ToolsInv'
  BY <1>3, StartsKeep
<1>4. ASSUME NEW w \in Workers, Tools!PurgeCheck(w) \/ Tools!PurgeCollect(w) \/ Tools!Verify(w) \/ Tools!ReadForget(w)
      PROVE  ToolsInv'
  BY <1>4, PurgeCheckKeeps, PurgeCollectKeeps, VerifyKeeps, ReadForgetKeeps
<1>5. ASSUME NEW w \in Workers, NEW lands \in BOOLEAN,
             \/ Tools!RetrieveBump(w, lands) \/ Tools!StoreNested(w, lands) \/ Tools!StoreTop(w, lands)
             \/ Tools!ReadStore(w, lands)
      PROVE  ToolsInv'
  BY <1>5, RetrieveBumpKeeps, StoresKeep
<1>6. ASSUME NEW w \in Workers, NEW reached \in BOOLEAN, Tools!PurgeErase(w, reached) \/ Tools!PurgeAll(w, reached)
      PROVE  ToolsInv'
  BY <1>6, PurgeEraseKeeps, PurgeAllKeeps
<1>7. ASSUME NEW h \in Hashes, Tools!Lose(h)
      PROVE  ToolsInv'
  BY <1>7, LoseKeeps
<1>8. ASSUME NEW s \in Servers, Tools!Restart(s)
      PROVE  ToolsInv'
  BY <1>8, RestartKeeps
<1>. QED
  BY <1>2, <1>3, <1>4, <1>5, <1>6, <1>7, <1>8 DEF Tools!Next

ToolsPart == part = "tools" => ToolsInv

\* A step is one of the tools while they run, or changes nothing of theirs.
LEMMA ToolsOnly ==
    ASSUME [Next]_vars
    PROVE  /\ part' = part
           /\ part = "tools" => [Tools!Next]_(Tools!vars)
<1>1. CASE Next
  <2>1. part' = part
    BY <1>1 DEF Next
  <2>2. part = "tools" => Tools!Next
    BY <1>1 DEF Next
  <2>. QED  BY <2>1, <2>2
<1>2. CASE UNCHANGED vars
  <2>1. part' = part /\ UNCHANGED toolVars
    BY <1>2 DEF vars
  <2>. QED  BY <2>1 DEF toolVars, Tools!vars
<1>. QED  BY <1>1, <1>2

\* While the tools run, their calls, stores and histories keep their types and the erased
\* hashes their meaning, whatever the servers do.
THEOREM ToolsInvariant ==
    Spec => []ToolsPart
<1>1. Init => ToolsPart
  BY ToolsInvInit, CallsAssumption DEF Init, ToolsPart
<1>2. ToolsPart /\ [Next]_vars => ToolsPart'
  <2>. SUFFICES ASSUME ToolsPart, [Next]_vars, part' = "tools" PROVE ToolsInv'
    BY DEF ToolsPart
  <2>1. ToolsInv /\ [Tools!Next]_(Tools!vars)
    BY ToolsOnly DEF ToolsPart
  <2>. QED  BY <2>1, ToolsInvNext, CallsAssumption
<1>. QED
  BY <1>1, <1>2, PTL DEF Spec

\* What furl_purge verified gone from a server stays gone there until something stores
\* it: the lock that retrieve() holds over its read and its write back keeps the read of
\* a worker of that server from surviving a verification (mcp_server.py:2788).
THEOREM VerifiedErasureHolds ==
    Spec => []ErasedStaysGone
<1>1. ToolsPart => ErasedStaysGone
  BY DEF ToolsPart, ToolsInv, ErasedStaysGone
<1>. QED
  BY <1>1, ToolsInvariant, PTL

\* A cascade that nobody named the hash to, and that could count every entry, erases no
\* marker that a stored original still holds (compression_store.py:1657).
THEOREM CascadeSpares ==
    Spec => []NestedResolves
<1>1. ToolsPart => NestedResolves
  BY DEF ToolsPart, ToolsInv, Typed, NestedResolves
<1>. QED
  BY <1>1, ToolsInvariant, PTL

-----------------------------------------------------------------------------
(* ToolCallHooks: what the model sees of a tool call, and what is counted.  *)

Reasons ==
    {"run", "already-wrapped", "settings-doubt", "emit-error", "already-compressed", "no-savings", "below-min-chars",
     "compressed", "disabled", "below-version-floor", "excluded-tool", "shape-unmatched",
     "redaction-budget-exceeded", "redaction-only", "serialize-failed", "size-reroute"}

Label == {"hook", "pipe"} \X Reasons

Results == Reasons \ Hooks!Beside

\* Some process has counted one of these, once, or none.
Never(who, labels) == Hooks!Counted(who, labels) = {}

Once(who, labels) == \E i : Hooks!Counted(who, labels) = {i}

Few(who, labels) == Never(who, labels) \/ Once(who, labels)

\* The labels put behind the others.
LEMMA CountedConcat ==
    ASSUME tally \in Seq(Label), NEW labels \in Seq(Label), tally' = tally \o labels
    PROVE  /\ tally' \in Seq(Label)
           /\ \A who, S, i : i \in Hooks!Counted(who, S)' <=>
                \/ i \in Hooks!Counted(who, S)
                \/ \E k \in DOMAIN labels : i = Len(tally) + k /\ labels[k][1] = who /\ labels[k][2] \in S
<1>1. /\ tally' \in Seq(Label) /\ Len(tally') = Len(tally) + Len(labels)
      /\ \A i \in 1..(Len(tally) + Len(labels)) :
            tally'[i] = IF i <= Len(tally) THEN tally[i] ELSE labels[i - Len(tally)]
    BY ConcatProperties
<1>2. /\ DOMAIN tally = 1..Len(tally) /\ DOMAIN labels = 1..Len(labels) /\ DOMAIN tally' = 1..Len(tally')
      /\ Len(tally) \in Nat /\ Len(labels) \in Nat
    BY <1>1, LenProperties
<1> DEFINE n == Len(tally) m == Len(labels)
<1>3. n \in Nat /\ m \in Nat /\ DOMAIN tally = 1..n /\ DOMAIN labels = 1..m /\ DOMAIN tally' = 1..(n + m)
    BY <1>1, <1>2
<1>4. (\A i \in 1..n : tally'[i] = tally[i]) /\ \A j \in 1..m : tally'[n + j] = labels[j]
    <2>1. ASSUME NEW i \in 1..n PROVE tally'[i] = tally[i]
        <3>1. i \in 1..(n + m) /\ i <= n
            BY <1>3
        <3> QED BY <1>1, <3>1
    <2>2. ASSUME NEW j \in 1..m PROVE tally'[n + j] = labels[j]
        <3>1. n + j \in 1..(n + m) /\ ~(n + j <= n) /\ (n + j) - n = j
            BY <1>3
        <3> QED BY <1>1, <3>1
    <2> QED BY <2>1, <2>2
<1> HIDE DEF n, m
<1>5. /\ \A i \in 1..n : i \in 1..(n + m)
      /\ \A j \in 1..m : n + j \in 1..(n + m)
      /\ \A i \in 1..(n + m) : i \in 1..n \/ \E j \in 1..m : i = n + j
    <2>1. ASSUME NEW i \in 1..(n + m), i \notin 1..n PROVE \E j \in 1..m : i = n + j
        <3>1. i - n \in 1..m /\ i = n + (i - n)
            BY <1>3, <2>1
        <3> QED BY <3>1
    <2> QED BY <1>3, <2>1
<1>6. ASSUME NEW who, NEW S, NEW i
      PROVE  i \in Hooks!Counted(who, S)' <=>
                \/ i \in Hooks!Counted(who, S)
                \/ \E k \in DOMAIN labels : i = n + k /\ labels[k][1] = who /\ labels[k][2] \in S
    <2>1. Hooks!Counted(who, S)' = {l \in 1..(n + m) : tally'[l][1] = who /\ tally'[l][2] \in S}
        BY <1>3 DEF Hooks!Counted
    <2>2. Hooks!Counted(who, S) = {l \in 1..n : tally[l][1] = who /\ tally[l][2] \in S}
        BY <1>3 DEF Hooks!Counted
    <2>3. ASSUME NEW l \in 1..n PROVE l \in Hooks!Counted(who, S)' <=> l \in Hooks!Counted(who, S)
        BY <1>4, <1>5, <2>1, <2>2, <2>3
    <2>4. ASSUME NEW k \in 1..m
          PROVE  n + k \in Hooks!Counted(who, S)' <=> labels[k][1] = who /\ labels[k][2] \in S
        BY <1>4, <1>5, <2>1, <2>4
    <2>5. CASE i \in 1..n
        <3>1. \A k \in 1..m : i # n + k
            BY <1>3, <2>5
        <3> QED BY <1>3, <2>3, <2>5, <3>1
    <2>6. ASSUME NEW k \in 1..m, i = n + k
          PROVE  i \in Hooks!Counted(who, S)' <=> \E j \in 1..m : i = n + j /\ labels[j][1] = who /\ labels[j][2] \in S
        <3>1. \A j \in 1..m : i = n + j => j = k
            BY <1>3, <2>6
        <3> QED BY <2>4, <2>6, <3>1
    <2>7. \A k \in 1..m : n + k \notin 1..n
        BY <1>3
    <2>8. CASE \E k \in 1..m : i = n + k
        <3>1. i \notin Hooks!Counted(who, S)
            BY <2>2, <2>7, <2>8
        <3> QED BY <1>3, <2>6, <2>8, <3>1
    <2>9. CASE i \notin 1..(n + m)
        BY <1>3, <1>5, <2>1, <2>2, <2>9
    <2> QED BY <1>5, <2>5, <2>8, <2>9
<1> QED BY <1>1, <1>6 DEF n

\* One label, behind the others or lost.
LEMMA CountedOne ==
    ASSUME tally \in Seq(Label), NEW who \in {"pipe", "hook"}, NEW label \in Reasons, Hooks!Count(who, label)
    PROVE  /\ tally' \in Seq(Label) /\ mishap' \in {mishap, mishap \cup {"lapse"}}
           /\ \A w, S : ~(w = who /\ label \in S) => Hooks!Counted(w, S)' = Hooks!Counted(w, S)
           /\ \A S : label \in S /\ Never(who, S) => Few(who, S)'
           /\ "lapse" \notin mishap' => \A S : label \in S => ~Never(who, S)'
<1>1. CASE tally' = Append(tally, <<who, label>>) /\ UNCHANGED mishap
    <2>1. <<who, label>> \in Label /\ <<<<who, label>>>> \in Seq(Label)
        BY DEF Label
    <2>2. PICK labels \in Seq(Label) :
            DOMAIN labels = {1} /\ labels[1][1] = who /\ labels[1][2] = label /\ tally' = tally \o labels
        <3>1. tally' = tally \o <<<<who, label>>>>
            BY <1>1, <2>1, AppendIsConcat
        <3>2. DOMAIN <<<<who, label>>>> = {1} /\ <<<<who, label>>>>[1] = <<who, label>>
            OBVIOUS
        <3> QED BY <2>1, <3>1, <3>2
    <2>3. \A w, S, i : i \in Hooks!Counted(w, S)' <=>
            i \in Hooks!Counted(w, S) \/ (i = Len(tally) + 1 /\ who = w /\ label \in S)
        <3>1. \A w, S, i : i \in Hooks!Counted(w, S)' <=>
                \/ i \in Hooks!Counted(w, S)
                \/ \E k \in DOMAIN labels : i = Len(tally) + k /\ labels[k][1] = w /\ labels[k][2] \in S
            BY <2>2, CountedConcat, Zenon
        <3>2. \A w, S, i : (\E k \in {1} : i = Len(tally) + k /\ labels[k][1] = w /\ labels[k][2] \in S) <=>
                i = Len(tally) + 1 /\ who = w /\ label \in S
            BY <2>2
        <3> QED BY <2>2, <3>1, <3>2, Zenon
    <2>4. /\ \A w, S : ~(w = who /\ label \in S) => Hooks!Counted(w, S)' = Hooks!Counted(w, S)
          /\ \A S : label \in S => Hooks!Counted(who, S)' = Hooks!Counted(who, S) \cup {Len(tally) + 1}
        <3>1. ASSUME NEW w, NEW S, ~(w = who /\ label \in S) PROVE Hooks!Counted(w, S)' = Hooks!Counted(w, S)
            <4>1. \A i : i \in Hooks!Counted(w, S)' <=> i \in Hooks!Counted(w, S)
                BY <2>3, <3>1, Zenon
            <4> QED BY <4>1
        <3>2. ASSUME NEW S, label \in S PROVE Hooks!Counted(who, S)' = Hooks!Counted(who, S) \cup {Len(tally) + 1}
            <4>1. \A i : i \in Hooks!Counted(who, S)' <=> i \in Hooks!Counted(who, S) \/ i = Len(tally) + 1
                BY <2>3, <3>2
            <4> QED BY <4>1
        <3> QED BY <3>1, <3>2
    <2>5. \A S : label \in S /\ Never(who, S) => Few(who, S)'
        BY <2>4 DEF Never, Few, Once
    <2>6. \A S : label \in S => ~Never(who, S)'
        BY <2>4 DEF Never
    <2> QED BY <1>1, <2>2, <2>4, <2>5, <2>6, CountedConcat
<1>2. CASE UNCHANGED tally /\ mishap' = mishap \cup {"lapse"}
    BY <1>2 DEF Hooks!Counted, Never, Few
<1> QED BY <1>1, <1>2 DEF Hooks!Count

Stages ==
    {"start", "gate", "run", "compress", "write", "shown", "post", "gates", "answer", "count", "flush", "processed", "passed"}

Early == {"start", "gate", "run", "compress", "write", "shown", "post"}

Late == {"flush", "processed", "passed"}

Shrunk(r) == r # None /\ \E x \in {r.out, r.err} \ {None} : x.form \in {"compressed", "twice"}

\* What the two hooks have counted so far; without a lapse, no run is left without its outcome.
TallySound ==
    /\ tally \in Seq(Label)
    /\ \A who \in {"pipe", "hook"} : Few(who, {"run"}) /\ Few(who, Results)
    /\ step \in {"start", "gate", "run", "compress"} => Never("pipe", {"run"}) /\ Never("pipe", Results)
    /\ "lapse" \notin mishap => (Never("pipe", {"run"}) <=> Never("pipe", Results))
    /\ step \in Early => Never("hook", {"run"})
    /\ step \in Early \cup {"gates"} => Never("hook", Results) /\ due = "none"
    /\ step \in {"gates", "answer", "count"} /\ "lapse" \notin mishap => (Never("hook", {"run"}) <=> engine = "absent")
    /\ step \in {"answer", "count"} =>
        IF due = "none" THEN engine # "absent" /\ ("lapse" \notin mishap => ~Never("hook", Results))
        ELSE due \in Results /\ Never("hook", Results)
    /\ step \in Late /\ "lapse" \notin mishap => (Never("hook", {"run"}) <=> Never("hook", Results))
    /\ Never("hook", {"compressed"}) \/ (step \in Late /\ Shrunk(reply))
    /\ step \in {"answer", "count"} /\ due = "compressed" => Shrunk(reply)

\* The gate of a rooted session under the banner's settings does not wrap.
BannerSound ==
    setting.rooted /\ "edited" \notin mishap /\ banner \in {"off", "rules", "doubt"} =>
        ~(setting.pipe /\ (setting.override \/ ~(Hooks!Finds(Hooks!Gated, "rule") \/ Hooks!Finds(Hooks!Gated, "doubt"))))

Piece == {x \in Hooks!AnyText : x.of = "out" /\ x.form \in {"raw", "scrubbed", "compressed"}}

\* What was shown: nothing, one piece, or two, and what excuses them.
ShownSound ==
    /\ \/ shown = <<>>
       \/ \E x \in Piece : shown = <<x>>
       \/ \E x, y \in Piece : shown = <<x, y>> /\ y.form = "raw" /\ "repeated" \in mishap
    /\ exit = "own" /\ "lost" \notin mishap /\ asked.out # None => \E i \in DOMAIN shown : shown[i].part = "whole"
    /\ \A i \in DOMAIN shown : shown[i].part = "whole" \/ exit = "signal" \/ "lost" \in mishap \/ "repeated" \in mishap

\* The response as the host made it.
Responded ==
    [shape |-> asked.shape, out |-> Hooks!Seen,
     err |-> IF asked.err = None THEN None ELSE Hooks!Text("err", "raw", "whole")]

\* A response that keeps the fields of the host's.
Intact(r) ==
    /\ r.err = None <=> asked.err = None
    /\ shown # <<>> => r.out # None /\ r.out.of = "out"
    /\ r.out # None /\ r.out.form = "twice" => r.out.part = "stub"

Clean(r) == \A x \in {r.out, r.err} \ {None} : ~Hooks!Dirty(x)

ShapeSound ==
    /\ \E s \in Sessions : asked = s.call
    /\ step \in Stages
    /\ step \in {"start", "gate", "run", "compress", "write"} => shown = <<>>
    /\ step \in {"start", "gate", "run", "compress"} => writing = <<>>
    /\ step \in {"start", "gate", "run"} => captured = <<>>
    /\ step \in {"compress", "write"} => captured = Hooks!Output /\ exit = "own"
    /\ step = "write" =>
        \/ writing = <<>> /\ captured = <<>>
        \/ captured # <<>> /\ \E x \in Piece : writing = <<x>> /\ x.part = "whole"
    /\ step \in {"start", "gate"} => command # "wrapped"
    /\ step = "gate" => BannerSound
    /\ step = "run" /\ command = "wrapped" /\ setting.rooted /\ "edited" \notin mishap =>
        banner \notin {"off", "rules", "doubt"}
    /\ step \notin {"start", "gate", "run", "compress", "write"} => ShownSound
    /\ step \in {"post", "gates", "answer", "count", "flush"} => visible = Responded
    /\ step \in Early \cup {"gates"} => reply = None
    /\ reply # None => Intact(reply) /\ Clean(reply)
    /\ step \in {"count", "flush"} /\ reply = None /\ engine # "absent" /\ due \in {"no-savings", "below-min-chars"} =>
        Clean(visible)
    /\ step = "answer" => due \notin {"no-savings", "below-min-chars"}
    /\ step \in {"processed", "passed"} => Intact(visible)
    /\ step = "processed" => Clean(visible)

HooksInv == ShapeSound /\ TallySound

LEMMA HooksInit ==
    ASSUME Hooks!HooksAssumption, Hooks!Init
    PROVE  HooksInv
<1>1. tally = <<>> /\ step = "start" /\ due = "none" /\ reply = None
    BY DEF Hooks!Init
<1>2. \A who, S : Never(who, S)
    BY <1>1 DEF Never, Hooks!Counted
<1>3. TallySound
    <2>1. tally \in Seq(Label)
        BY <1>1
    <2> QED BY <1>1, <1>2, <2>1 DEF TallySound, Few, Early, Late
<1>4. ShapeSound
    BY <1>1 DEF Hooks!Init, ShapeSound, Stages, Early
<1> QED BY <1>3, <1>4 DEF HooksInv

\* A step that counts nothing.
LEMMA TallyKept ==
    ASSUME UNCHANGED tally
    PROVE  \A who, S : Hooks!Counted(who, S)' = Hooks!Counted(who, S) /\ (Never(who, S)' <=> Never(who, S))
                       /\ (Few(who, S)' <=> Few(who, S))
BY DEF Hooks!Counted, Never, Few, Once

\* A label of the gate is no run and no result.
LEMMA GateCounts ==
    ASSUME TallySound, step \in {"gate"}, step' = "run", UNCHANGED <<engine, reply, due>>,
           NEW label \in {"already-wrapped", "settings-doubt", "emit-error"}, Hooks!Count("pipe", label)
    PROVE  TallySound'
<1>1. label \in Reasons /\ label \notin Results /\ label # "run"
    BY DEF Reasons, Results, Hooks!Beside
<1>2. tally \in Seq(Label)
    BY DEF TallySound
<1>3. tally' \in Seq(Label) /\ ("lapse" \in mishap => "lapse" \in mishap')
    BY <1>1, <1>2, CountedOne
<1>4. ASSUME NEW w, NEW S, label \notin S \/ w = "hook"
      PROVE  (Never(w, S)' <=> Never(w, S)) /\ (Few(w, S)' <=> Few(w, S))
    <2>1. Hooks!Counted(w, S)' = Hooks!Counted(w, S)
        BY <1>1, <1>2, <1>4, CountedOne
    <2> QED BY <2>1 DEF Never, Few, Once
<1>5. \A w : /\ (Never(w, {"run"})' <=> Never(w, {"run"})) /\ (Few(w, {"run"})' <=> Few(w, {"run"}))
             /\ (Never(w, Results)' <=> Never(w, Results)) /\ (Few(w, Results)' <=> Few(w, Results))
    BY <1>1, <1>4
<1>6. Never("hook", {"compressed"})' <=> Never("hook", {"compressed"})
    BY <1>4
<1> QED BY <1>3, <1>5, <1>6 DEF TallySound, Early, Late, Shrunk

LEMMA GateSteps ==
    ASSUME Hooks!HooksAssumption, HooksInv,
           Hooks!Announce \/ Hooks!Edit \/ Hooks!Wrap \/ Hooks!LeaveAlone \/ Hooks!GateFails
    PROVE  HooksInv'
<1>1. CASE Hooks!Announce \/ Hooks!Edit \/ Hooks!Wrap
    <2>1. TallySound'
        <3>1. UNCHANGED <<tally, engine, reply, due>> /\ ("lapse" \in mishap <=> "lapse" \in mishap')
            BY <1>1 DEF Hooks!Announce, Hooks!Edit, Hooks!Wrap
        <3>2. step \in {"start", "gate"} /\ step' \in {"gate", "run"}
            BY <1>1 DEF Hooks!Announce, Hooks!Edit, Hooks!Wrap
        <3> QED BY <3>1, <3>2, TallyKept DEF HooksInv, TallySound, Early, Late, Shrunk
    <2>2. CASE Hooks!Announce
        <3>1. BannerSound'
            <4>1. /\ UNCHANGED <<setting, mishap>> /\ banner' \in {Hooks!Clause, "unknown"}
                BY <2>2 DEF Hooks!Announce
            <4>2. ASSUME setting.rooted, banner' \in {"off", "rules", "doubt"}, setting.pipe
                  PROVE  ~setting.override /\ (Hooks!Finds(Hooks!Gated, "rule") \/ Hooks!Finds(Hooks!Gated, "doubt"))
                <5>1. Hooks!Announced \subseteq Hooks!Gated
                    BY <4>2 DEF Hooks!Announced, Hooks!Gated
                <5>2. ~setting.override /\ (Hooks!Finds(Hooks!Announced, "rule") \/ Hooks!Finds(Hooks!Announced, "doubt"))
                    BY <4>1, <4>2 DEF Hooks!Clause
                <5> QED BY <5>1, <5>2 DEF Hooks!Finds
            <4>3. Hooks!Gated' = Hooks!Gated
                BY <4>1 DEF Hooks!Gated
            <4>4. \A m : Hooks!Finds(Hooks!Gated, m)' <=> Hooks!Finds(Hooks!Gated, m)
                BY <4>1, <4>3 DEF Hooks!Finds
            <4> QED BY <4>1, <4>2, <4>4 DEF BannerSound
        <3>2. ShapeSound'
            BY <2>2, <3>1 DEF Hooks!Announce, HooksInv, ShapeSound, Stages, Early
        <3> QED BY <2>1, <3>2 DEF HooksInv
    <2>3. CASE Hooks!Edit
        <3>1. BannerSound'
            BY <2>3 DEF Hooks!Edit, BannerSound
        <3>2. ShapeSound'
            BY <2>3, <3>1 DEF Hooks!Edit, HooksInv, ShapeSound, Stages, Early
        <3> QED BY <2>1, <3>2 DEF HooksInv
    <2>4. CASE Hooks!Wrap
        <3>1. setting.rooted /\ "edited" \notin mishap => banner \notin {"off", "rules", "doubt"}
            BY <2>4 DEF Hooks!Wrap, Hooks!MayWrap, HooksInv, ShapeSound, BannerSound
        <3>2. ShapeSound'
            BY <2>4, <3>1 DEF Hooks!Wrap, HooksInv, ShapeSound, Stages, Early
        <3> QED BY <2>1, <3>2 DEF HooksInv
    <2> QED BY <1>1, <2>2, <2>3, <2>4
<1>2. CASE Hooks!LeaveAlone \/ Hooks!GateFails
    <2>1. ShapeSound'
        BY <1>2 DEF Hooks!LeaveAlone, Hooks!GateFails, HooksInv, ShapeSound, Stages, Early
    <2>2. /\ UNCHANGED <<engine, reply, due>> /\ step = "gate" /\ step' = "run"
          /\ \/ UNCHANGED <<tally, mishap>>
             \/ \E label \in {"already-wrapped", "settings-doubt", "emit-error"} : Hooks!Count("pipe", label)
        BY <1>2 DEF Hooks!LeaveAlone, Hooks!GateFails, Hooks!GateReason
    <2>3. ASSUME UNCHANGED <<tally, mishap>> PROVE TallySound'
        BY <2>2, <2>3, TallyKept DEF HooksInv, TallySound, Early, Late, Shrunk
    <2>4. ASSUME \E label \in {"already-wrapped", "settings-doubt", "emit-error"} : Hooks!Count("pipe", label)
          PROVE  TallySound'
        BY <2>2, <2>4, GateCounts DEF HooksInv
    <2>5. TallySound'
        BY <2>2, <2>3, <2>4 DEF HooksInv
    <2> QED BY <2>1, <2>5 DEF HooksInv
<1> QED BY <1>1, <1>2

\* What is left of a piece is a piece of the same form.
LEMMA PrefixForms ==
    /\ Hooks!Prefixes(<<>>) = {<<>>}
    /\ \A x \in Piece : \A s \in Hooks!Prefixes(<<x>>) : s = <<>> \/ \E y \in Piece : s = <<y>> /\ y.form = x.form
<1>1. Hooks!Prefixes(<<>>) = {<<>>}
    BY DEF Hooks!Prefixes
<1>2. ASSUME NEW x \in Piece, NEW s \in Hooks!Prefixes(<<x>>)
      PROVE  s = <<>> \/ \E y \in Piece : s = <<y>> /\ y.form = x.form
    <2>1. <<x>> # <<>> /\ <<x>>[1] = x
        OBVIOUS
    <2>2. s \in {<<>>, <<x>>, <<[x EXCEPT !.part = "stub"]>>, <<[x EXCEPT !.part = "cut"]>>}
        BY <2>1 DEF Hooks!Prefixes
    <2>3. ASSUME NEW p \in {"stub", "cut"} PROVE [x EXCEPT !.part = p] \in Piece /\ [x EXCEPT !.part = p].form = x.form
        BY DEF Piece, Hooks!AnyText
    <2> QED BY <2>2, <2>3
<1> QED BY <1>1, <1>2

\* The output of the command.
LEMMA OutputForms ==
    /\ asked.out = None => Hooks!Output = <<>>
    /\ asked.out # None => \E x \in Piece : Hooks!Output = <<x>> /\ x.form = "raw" /\ x.part = "whole"
<1>1. Hooks!Text("out", "raw", "whole") \in Piece
    BY DEF Hooks!Text, Piece, Hooks!AnyText, Hooks!Forms
<1>2. Hooks!Text("out", "raw", "whole").form = "raw" /\ Hooks!Text("out", "raw", "whole").part = "whole"
    BY DEF Hooks!Text
<1> QED BY <1>1, <1>2 DEF Hooks!Output

\* A signal excuses whatever one piece was shown.
LEMMA ShownCut ==
    ASSUME exit' = "signal", NEW s \in Hooks!Prefixes(Hooks!Output) \cup {<<>>}, shown' = s
    PROVE  ShownSound'
<1>1. s = <<>> \/ \E x \in Piece : s = <<x>>
    BY PrefixForms, OutputForms
<1> QED BY <1>1 DEF ShownSound, Piece, Hooks!AnyText

LEMMA NowShown ==
    ASSUME ShapeSound, step \in {"run", "compress", "write"}, step' = "shown", UNCHANGED <<asked, reply>>, ShownSound'
    PROVE  ShapeSound'
BY DEF ShapeSound, Stages, Early

LEMMA RunSteps ==
    ASSUME Hooks!HooksAssumption, HooksInv, Hooks!RunPlain \/ Hooks!Capture \/ Hooks!KilledInCapture
    PROVE  HooksInv'
<1>1. /\ UNCHANGED <<tally, engine, reply, due, asked>> /\ ("lapse" \in mishap' <=> "lapse" \in mishap)
      /\ step = "run" /\ step' \in {"compress", "shown"}
    BY DEF Hooks!RunPlain, Hooks!Capture, Hooks!KilledInCapture
<1>2. TallySound'
    BY <1>1, TallyKept DEF HooksInv, TallySound, Early, Late, Shrunk
<1>3. CASE Hooks!Capture
    <2>1. Hooks!Output' = Hooks!Output
        BY <1>1 DEF Hooks!Output
    <2>2. ShapeSound'
        BY <1>3, <2>1 DEF Hooks!Capture, HooksInv, ShapeSound, Stages, Early
    <2> QED BY <1>2, <2>2 DEF HooksInv
<1>4. CASE Hooks!RunPlain \/ Hooks!KilledInCapture
    <2>1. step' = "shown"
        BY <1>4 DEF Hooks!RunPlain, Hooks!KilledInCapture
    <2>2. ASSUME shown' = Hooks!Output, exit' = "own" PROVE ShownSound'
        BY <1>1, <2>2, OutputForms DEF ShownSound
    <2>3. ShownSound'
        BY <1>4, <2>2, ShownCut DEF Hooks!RunPlain, Hooks!KilledInCapture
    <2> QED BY <1>1, <1>2, <2>1, <2>3, NowShown DEF HooksInv
<1> QED BY <1>3, <1>4

\* Pieces one behind the other.
LEMMA Joined ==
    ASSUME NEW x, NEW y
    PROVE  /\ <<x>> \o <<y>> = <<x, y>> /\ <<>> \o <<y>> = <<y>> /\ <<x>> \o <<>> = <<x>> /\ <<>> \o <<>> = <<>>
           /\ <<x, y>>[1] = x /\ <<x, y>>[2] = y /\ DOMAIN <<x, y>> = {1, 2} /\ DOMAIN <<x>> = {1} /\ <<x>>[1] = x
<1> DEFINE S == {x, y}
<1>1. <<x>> \in Seq(S) /\ <<y>> \in Seq(S) /\ <<x, y>> \in Seq(S)
    OBVIOUS
<1> HIDE DEF S
<1>2. /\ <<x>> \o <<y>> \in Seq(S) /\ Len(<<x>> \o <<y>>) = 2
      /\ (<<x>> \o <<y>>)[1] = x /\ (<<x>> \o <<y>>)[2] = y
    BY <1>1, ConcatProperties
<1>3. Len(<<x, y>>) = 2 /\ <<x, y>>[1] = x /\ <<x, y>>[2] = y
    OBVIOUS
<1>4. \A i \in 1..2 : (<<x>> \o <<y>>)[i] = <<x, y>>[i]
    BY <1>2, <1>3
<1>5. <<>> \o <<y>> = <<y>> /\ <<x>> \o <<>> = <<x>> /\ <<>> \o <<>> = <<>>
    BY <1>1, ConcatEmptySeq, EmptySeq
<1>6. DOMAIN <<x, y>> = {1, 2} /\ DOMAIN <<x>> = {1} /\ <<x>>[1] = x
    OBVIOUS
<1> QED BY <1>1, <1>2, <1>3, <1>4, <1>5, <1>6, SeqEqual

LEMMA CompressorStep ==
    ASSUME Hooks!HooksAssumption, HooksInv, Hooks!CompressorEnds
    PROVE  HooksInv'
<1>1. /\ step \in {"compress", "write"} /\ step' = "shown" /\ exit = "own" /\ captured = Hooks!Output
      /\ UNCHANGED <<tally, engine, reply, due, asked>> /\ ("lapse" \in mishap' <=> "lapse" \in mishap)
    BY DEF Hooks!CompressorEnds, HooksInv, ShapeSound
<1>2. TallySound'
    BY <1>1, TallyKept DEF HooksInv, TallySound, Early, Late, Shrunk
<1>3. PICK w \in Hooks!Prefixes(writing), a \in Hooks!Prefixes(captured), status \in {0, 1}, killed \in BOOLEAN :
        /\ killed \/ a = captured
        /\ shown' = Hooks!Piped(w, status, a)
        /\ exit' = IF killed THEN "signal" ELSE exit
        /\ mishap' = mishap
                \cup (IF (step = "write" /\ w = writing) \/ (status # 0 /\ a = captured) THEN {} ELSE {"lost"})
                \cup (IF status # 0 /\ w # <<>> /\ a # <<>> THEN {"repeated"} ELSE {})
    BY DEF Hooks!CompressorEnds
<1>4. /\ writing = <<>> \/ \E x \in Piece : writing = <<x>> /\ x.part = "whole" /\ captured # <<>>
      /\ writing = <<>> /\ step = "write" => captured = <<>>
    BY <1>1 DEF HooksInv, ShapeSound
<1>5. captured = <<>> \/ \E x \in Piece : captured = <<x>> /\ x.form = "raw" /\ x.part = "whole"
    BY <1>1, OutputForms
<1>6. w = <<>> \/ \E x \in Piece : w = <<x>> /\ captured # <<>>
    BY <1>4, PrefixForms
<1>7. a = <<>> \/ \E x \in Piece : a = <<x>> /\ x.form = "raw"
    BY <1>5, PrefixForms
<1>8. \/ shown' = <<>>
      \/ \E x \in Piece : shown' = <<x>> /\ (w = <<x>> \/ (a = <<x>> /\ status # 0))
      \/ \E x, y \in Piece : shown' = <<x, y>> /\ y.form = "raw" /\ a = <<y>> /\ status # 0 /\ w # <<>> /\ a # <<>>
    <2>1. CASE status = 0
        <3>1. shown' = w \o <<>>
            BY <1>3, <2>1 DEF Hooks!Piped
        <3> QED BY <1>6, <3>1, Joined
    <2>2. CASE status # 0
        <3>1. shown' = w \o a
            BY <1>3, <2>2 DEF Hooks!Piped
        <3>2. CASE w = <<>>
            BY <1>7, <2>2, <3>1, <3>2, Joined
        <3>3. ASSUME NEW x \in Piece, w = <<x>>, a = <<>> PROVE shown' = <<x>>
            BY <3>1, <3>3, Joined
        <3>4. ASSUME NEW x \in Piece, w = <<x>>, NEW y \in Piece, a = <<y>> PROVE shown' = <<x, y>> /\ w # <<>> /\ a # <<>>
            BY <3>1, <3>4, Joined
        <3> QED BY <1>6, <1>7, <2>2, <3>2, <3>3, <3>4
    <2> QED BY <2>1, <2>2
<1>9. "repeated" \in mishap' <=> "repeated" \in mishap \/ (status # 0 /\ w # <<>> /\ a # <<>>)
    BY <1>3
<1>10. "lost" \notin mishap' => (step = "write" /\ w = writing) \/ (status # 0 /\ a = captured)
    BY <1>3
<1>11. ASSUME exit' = "own", "lost" \notin mishap', asked.out # None
       PROVE  \E i \in DOMAIN shown' : shown'[i].part = "whole"
    <2>1. PICK raw \in Piece : captured = <<raw>> /\ raw.part = "whole"
        BY <1>1, <1>11, OutputForms
    <2>2. CASE step = "write" /\ w = writing
        <3>1. PICK x \in Piece : w = <<x>> /\ x.part = "whole"
            BY <1>4, <2>1, <2>2
        <3>2. shown' = <<x>> \/ \E y : shown' = <<x, y>>
            <4>1. CASE status = 0
                BY <1>3, <3>1, <4>1, Joined DEF Hooks!Piped
            <4>2. CASE status # 0
                <5>1. shown' = <<x>> \o a
                    BY <1>3, <3>1, <4>2 DEF Hooks!Piped
                <5>2. CASE a = <<>>
                    BY <5>1, <5>2, Joined
                <5>3. ASSUME NEW y, a = <<y>> PROVE shown' = <<x, y>>
                    BY <5>1, <5>3, Joined
                <5> QED BY <1>7, <5>2, <5>3
            <4> QED BY <4>1, <4>2
        <3>3. 1 \in DOMAIN shown' /\ shown'[1] = x
            BY <3>2
        <3> QED BY <3>1, <3>3
    <2>3. CASE status # 0 /\ a = captured
        <3>1. shown' = w \o <<raw>>
            BY <1>3, <2>1, <2>3 DEF Hooks!Piped
        <3>2. shown' = <<raw>> \/ \E x : shown' = <<x, raw>>
            <4>1. CASE w = <<>>
                BY <3>1, <4>1, Joined
            <4>2. ASSUME NEW x, w = <<x>> PROVE shown' = <<x, raw>>
                BY <3>1, <4>2, Joined
            <4> QED BY <1>6, <4>1, <4>2
        <3>3. \E i \in DOMAIN shown' : shown'[i] = raw
            <4>1. CASE shown' = <<raw>>
                <5>1. 1 \in DOMAIN shown' /\ shown'[1] = raw
                    BY <4>1
                <5> QED BY <5>1
            <4>2. CASE \E x : shown' = <<x, raw>>
                <5>1. 2 \in DOMAIN shown' /\ shown'[2] = raw
                    BY <4>2
                <5> QED BY <5>1
            <4> QED BY <3>2, <4>1, <4>2
        <3> QED BY <2>1, <3>3
    <2> QED BY <1>10, <1>11, <2>2, <2>3
<1>12. ASSUME NEW i \in DOMAIN shown', exit' # "signal", "lost" \notin mishap', "repeated" \notin mishap'
       PROVE  shown'[i].part = "whole"
    <2>1. a = captured
        BY <1>1, <1>3, <1>12
    <2>2. PICK x \in Piece : shown' = <<x>> /\ (w = <<x>> \/ (a = <<x>> /\ status # 0))
        <3>1. shown' # <<>>
            BY <1>12
        <3> QED BY <1>8, <1>9, <1>12, <3>1
    <2>3. shown'[i] = x
        BY <1>12, <2>2
    <2>4. CASE a = <<x>>
        BY <1>5, <2>1, <2>3, <2>4
    <2>5. CASE w = <<x>> /\ a # <<x>>
        <3>1. w # <<>>
            BY <2>5
        <3>2. a # <<>>
            BY <1>6, <2>1, <2>5, <3>1
        <3>3. status = 0
            BY <1>9, <1>12, <3>1, <3>2
        <3>4. step = "write" /\ w = writing
            BY <1>10, <1>12, <3>3
        <3> QED BY <1>4, <2>3, <2>5, <3>1, <3>4
    <2> QED BY <2>2, <2>4, <2>5
<1>13. ShownSound'
    <2>1. \/ shown' = <<>>
          \/ \E x \in Piece : shown' = <<x>>
          \/ \E x, y \in Piece : shown' = <<x, y>> /\ y.form = "raw" /\ "repeated" \in mishap'
        BY <1>8, <1>9
    <2>2. asked' = asked /\ exit' \in {"own", "signal"}
        BY <1>1, <1>3
    <2> QED BY <1>11, <1>12, <2>1, <2>2 DEF ShownSound, Piece
<1> QED BY <1>1, <1>2, <1>13, NowShown DEF HooksInv

\* What one run of the compressor counts.
LEMMA PipeCounts ==
    ASSUME TallySound, step = "compress", step' = "write", UNCHANGED <<engine, reply, due>>,
           NEW outcome \in Results, Hooks!Noted(outcome)
    PROVE  TallySound'
<1>1. PICK labels \in {<<<<"pipe", "run">>, <<"pipe", outcome>>>>, <<<<"pipe", "run">>>>, <<<<"pipe", outcome>>>>, <<>>} :
        /\ tally' = tally \o labels
        /\ mishap' = IF Len(labels) = 2 THEN mishap ELSE mishap \cup {"lapse"}
    BY DEF Hooks!Noted
<1>2. <<"pipe", "run">> \in Label /\ <<"pipe", outcome>> \in Label /\ "run" \notin Results /\ outcome # "run"
    BY DEF Label, Reasons, Results, Hooks!Beside
<1>3. labels \in Seq(Label)
    <2>1. \A x, y \in Label : <<x, y>> \in Seq(Label) /\ <<x>> \in Seq(Label) /\ <<>> \in Seq(Label)
        OBVIOUS
    <2> QED BY <1>1, <1>2, <2>1
<1>4. \A k \in DOMAIN labels : labels[k][1] = "pipe"
    <2>1. \/ labels = <<>>
          \/ DOMAIN labels = {1} /\ labels[1][1] = "pipe"
          \/ DOMAIN labels = {1, 2} /\ labels[1][1] = "pipe" /\ labels[2][1] = "pipe"
        BY <1>1
    <2> QED BY <2>1
<1>5. tally \in Seq(Label) /\ Never("pipe", {"run"}) /\ Never("pipe", Results)
    BY DEF TallySound
<1>6. /\ tally' \in Seq(Label)
      /\ \A who, S, i : i \in Hooks!Counted(who, S)' <=>
            \/ i \in Hooks!Counted(who, S)
            \/ \E k \in DOMAIN labels : i = Len(tally) + k /\ labels[k][1] = who /\ labels[k][2] \in S
    BY <1>1, <1>3, <1>5, CountedConcat, Zenon
<1>7. ASSUME NEW S PROVE Hooks!Counted("hook", S)' = Hooks!Counted("hook", S)
    <2>1. \A i : i \in Hooks!Counted("hook", S)' <=> i \in Hooks!Counted("hook", S)
        BY <1>4, <1>6
    <2> QED BY <2>1
<1>8. \A S : (Never("hook", S)' <=> Never("hook", S)) /\ (Few("hook", S)' <=> Few("hook", S))
    BY <1>7 DEF Never, Few, Once
<1>9. \A S : Never("pipe", S) =>
        \A i : i \in Hooks!Counted("pipe", S)' <=> \E k \in DOMAIN labels : i = Len(tally) + k /\ labels[k][2] \in S
    BY <1>4, <1>6 DEF Never
<1>10. /\ Few("pipe", {"run"})' /\ Few("pipe", Results)'
       /\ "lapse" \notin mishap' => "lapse" \notin mishap /\ (Never("pipe", {"run"})' <=> Never("pipe", Results)')
    <2>1. ASSUME NEW S, Never("pipe", S), NEW K \in SUBSET (DOMAIN labels), K = {k \in DOMAIN labels : labels[k][2] \in S},
                 NEW j, K = {} \/ K = {j}
          PROVE  Few("pipe", S)' /\ (Never("pipe", S)' <=> K = {})
        <3>1. \A i : i \in Hooks!Counted("pipe", S)' <=> \E k \in K : i = Len(tally) + k
            BY <1>9, <2>1
        <3>2. CASE K = {}
            BY <3>1, <3>2 DEF Few, Never
        <3>3. CASE K = {j}
            <4>1. \A i : i \in Hooks!Counted("pipe", S)' <=> i = Len(tally) + j
                BY <3>1, <3>3
            <4>2. Hooks!Counted("pipe", S)' = {Len(tally) + j}
                BY <4>1
            <4> QED BY <3>3, <4>2 DEF Few, Never, Once
        <3> QED BY <2>1, <3>2, <3>3
    <2>2. CASE labels = <<<<"pipe", "run">>, <<"pipe", outcome>>>>
        <3>1. DOMAIN labels = {1, 2} /\ labels[1][2] = "run" /\ labels[2][2] = outcome /\ Len(labels) = 2
            BY <2>2
        <3>2. {k \in DOMAIN labels : labels[k][2] \in {"run"}} = {1} /\ {k \in DOMAIN labels : labels[k][2] \in Results} = {2}
            BY <1>2, <3>1
        <3> QED BY <1>1, <1>5, <2>1, <3>1, <3>2
    <2>3. CASE labels = <<<<"pipe", "run">>>>
        <3>1. DOMAIN labels = {1} /\ labels[1][2] = "run" /\ Len(labels) # 2
            BY <2>3
        <3>2. {k \in DOMAIN labels : labels[k][2] \in {"run"}} = {1} /\ {k \in DOMAIN labels : labels[k][2] \in Results} = {}
            BY <1>2, <3>1
        <3> QED BY <1>1, <1>5, <2>1, <3>1, <3>2
    <2>4. CASE labels = <<<<"pipe", outcome>>>>
        <3>1. DOMAIN labels = {1} /\ labels[1][2] = outcome /\ Len(labels) # 2
            BY <2>4
        <3>2. {k \in DOMAIN labels : labels[k][2] \in {"run"}} = {} /\ {k \in DOMAIN labels : labels[k][2] \in Results} = {1}
            BY <1>2, <3>1
        <3> QED BY <1>1, <1>5, <2>1, <3>1, <3>2
    <2>5. CASE labels = <<>>
        <3>1. DOMAIN labels = {} /\ Len(labels) # 2
            BY <2>5
        <3>2. {k \in DOMAIN labels : labels[k][2] \in {"run"}} = {} /\ {k \in DOMAIN labels : labels[k][2] \in Results} = {}
            BY <3>1
        <3> QED BY <1>1, <1>5, <2>1, <3>1, <3>2
    <2> QED BY <1>1, <2>2, <2>3, <2>4, <2>5
<1> QED BY <1>6, <1>8, <1>10 DEF TallySound, Early, Late, Shrunk

\* What the compressor is to write: nothing of nothing, or one whole piece.
LEMMA DecideStep ==
    ASSUME Hooks!HooksAssumption, HooksInv, Hooks!Decide
    PROVE  HooksInv'
<1>1. /\ step = "compress" /\ step' = "write" /\ captured = Hooks!Output
      /\ UNCHANGED <<asked, setting, banner, command, captured, shown, exit, visible, engine, reply, due>>
    BY DEF Hooks!Decide, HooksInv, ShapeSound
<1>2. \/ UNCHANGED <<tally, mishap>>
      \/ \E outcome \in Results : Hooks!Noted(outcome)
    BY DEF Hooks!Decide, Results, Reasons, Hooks!Beside
<1>3. TallySound'
    <2>1. ASSUME UNCHANGED <<tally, mishap>> PROVE TallySound'
        BY <1>1, <2>1, TallyKept DEF HooksInv, TallySound, Early, Late, Shrunk
    <2> QED BY <1>1, <1>2, <2>1, PipeCounts DEF HooksInv
<1>4. ASSUME NEW x \in Piece, x.form = "raw", x.part = "whole"
      PROVE  \A y \in {x, Hooks!Scrubbed(x), Hooks!Compressed(x)} : y \in Piece /\ y.part = "whole"
    <2>1. \A form \in {"scrubbed", "compressed"} : Hooks!InForm(x, form) \in Piece /\ Hooks!InForm(x, form).part = "whole"
        BY <1>4 DEF Hooks!InForm, Piece, Hooks!AnyText, Hooks!Forms
    <2>2. Hooks!Scrubbed(x) \in {x, Hooks!InForm(x, "scrubbed")} /\ Hooks!Compressed(x) = Hooks!InForm(x, "compressed")
        BY <1>4 DEF Hooks!Scrubbed, Hooks!Compressed
    <2> QED BY <1>4, <2>1, <2>2
<1>5. \/ writing' = <<>> /\ captured = <<>>
      \/ captured # <<>> /\ \E x \in Piece : writing' = <<x>> /\ x.part = "whole"
    <2>1. CASE captured = <<>>
        BY <2>1 DEF Hooks!Decide
    <2>2. CASE captured # <<>>
        <3>1. PICK x \in Piece : captured = <<x>> /\ captured[1] = x /\ x.form = "raw" /\ x.part = "whole"
            BY <1>1, <2>2, OutputForms
        <3>2. \E y \in {x, Hooks!Scrubbed(x), Hooks!Compressed(x)} : writing' = <<y>>
            BY <2>2, <3>1 DEF Hooks!Decide
        <3> QED BY <1>4, <2>2, <3>1, <3>2
    <2> QED BY <2>1, <2>2
<1>6. ShapeSound'
    <2>1. Hooks!Output' = Hooks!Output
        BY <1>1 DEF Hooks!Output
    <2> QED BY <1>1, <1>5, <2>1 DEF HooksInv, ShapeSound, Stages, Early
<1> QED BY <1>3, <1>6 DEF HooksInv

LEMMA RespondStep ==
    ASSUME Hooks!HooksAssumption, HooksInv, Hooks!Respond
    PROVE  HooksInv'
<1>1. /\ step = "shown" /\ step' = "post"
      /\ UNCHANGED <<asked, setting, banner, command, captured, writing, shown, exit, mishap, engine, reply, due, tally>>
    BY DEF Hooks!Respond
<1>2. Hooks!Seen' = Hooks!Seen
    BY <1>1 DEF Hooks!Seen, Hooks!Marked, Hooks!Like
<1>3. visible' = Responded'
    BY <1>1, <1>2 DEF Hooks!Respond, Responded
<1>4. ShownSound'
    BY <1>1 DEF HooksInv, ShapeSound, ShownSound
<1>5. ShapeSound'
    BY <1>1, <1>3, <1>4 DEF HooksInv, ShapeSound, Stages, Early
<1>6. TallySound'
    BY <1>1, TallyKept DEF HooksInv, TallySound, Early, Late, Shrunk
<1> QED BY <1>5, <1>6 DEF HooksInv

Hooked == {"gates", "answer", "count", "flush"}

\* The field that is read, and the text in it.
LEMMA FieldForms ==
    ASSUME Hooks!HooksAssumption, ShapeSound, step \in Hooked
    PROVE  /\ Hooks!Field \in {"none", "out", "err"}
           /\ Hooks!Field = "out" => visible.out # None
           /\ Hooks!Field = "err" => visible.out = None /\ visible.err # None
           /\ Hooks!Field # "none" =>
                /\ visible[Hooks!Field] \in Hooks!AnyText /\ visible[Hooks!Field].of = Hooks!Field
                /\ visible[Hooks!Field].form \in {"raw", "scrubbed", "compressed", "doubled"}
           /\ visible.out # None =>
                /\ visible.out \in Hooks!AnyText /\ visible.out.of = "out"
                /\ visible.out.form \in {"raw", "scrubbed", "compressed", "doubled"}
           /\ visible.err # None => visible.err \in Hooks!AnyText /\ visible.err.of = "err" /\ visible.err.form = "raw"
           /\ visible.err = None <=> asked.err = None
           /\ shown # <<>> => visible.out # None
           /\ Hooks!Preserved <=> Hooks!Field = "out" /\ visible.err # None
           /\ DOMAIN visible = {"shape", "out", "err"} /\ visible \in Hooks!Responses
<1>1. visible = Responded /\ ShownSound /\ \E s \in Sessions : asked = s.call
    BY DEF ShapeSound, Hooked
<1>2. /\ visible.shape = asked.shape /\ visible.out = Hooks!Seen
      /\ visible.err = (IF asked.err = None THEN None ELSE Hooks!Text("err", "raw", "whole"))
      /\ DOMAIN visible = {"shape", "out", "err"}
    BY <1>1 DEF Responded
<1>3. Hooks!Text("err", "raw", "whole") \in Hooks!AnyText /\ None \notin Hooks!AnyText
    BY DEF Hooks!HooksAssumption, Hooks!AnyText, Hooks!Text, Hooks!Forms
<1>4. /\ Hooks!Text("err", "raw", "whole").of = "err" /\ Hooks!Text("err", "raw", "whole").form = "raw"
    BY DEF Hooks!Text
<1>5. asked.err # None => asked.shape \in {"bash", "nested"}
    BY <1>1 DEF Hooks!HooksAssumption
<1>6. \/ shown = <<>> /\ Hooks!Seen = None
      \/ /\ shown # <<>>
         /\ Hooks!Seen \in Hooks!AnyText /\ Hooks!Seen.of = "out"
         /\ Hooks!Seen.form \in {"raw", "scrubbed", "compressed", "doubled"}
    <2>1. CASE shown = <<>>
        BY <2>1 DEF Hooks!Seen
    <2>2. ASSUME NEW x \in Piece, shown = <<x>> PROVE Hooks!Seen = x /\ shown # <<>>
        BY <2>2 DEF Hooks!Seen
    <2>3. ASSUME NEW x \in Piece, NEW y \in Piece, shown = <<x, y>>
          PROVE  shown # <<>> /\ Hooks!Seen \in {Hooks!Text("out", "doubled", "cut"), Hooks!Text("out", "doubled", "stub")}
        <3>1. shown # <<>> /\ Len(shown) # 1
            BY <2>3
        <3> QED BY <3>1 DEF Hooks!Seen
    <2>4. \A p \in {"cut", "stub"} :
            /\ Hooks!Text("out", "doubled", p) \in Hooks!AnyText
            /\ Hooks!Text("out", "doubled", p).of = "out" /\ Hooks!Text("out", "doubled", p).form = "doubled"
        BY DEF Hooks!Text, Hooks!AnyText, Hooks!Forms
    <2>5. \A x \in Piece : x \in Hooks!AnyText /\ x.of = "out" /\ x.form \in {"raw", "scrubbed", "compressed"}
        BY DEF Piece
    <2> QED BY <1>1, <2>1, <2>2, <2>3, <2>4, <2>5 DEF ShownSound
<1>7. visible.out # None =>
        /\ visible.out \in Hooks!AnyText /\ visible.out.of = "out"
        /\ visible.out.form \in {"raw", "scrubbed", "compressed", "doubled"}
    BY <1>2, <1>6
<1>8. visible.err # None => visible.err \in Hooks!AnyText /\ visible.err.of = "err" /\ visible.err.form = "raw"
    BY <1>2, <1>3, <1>4
<1>9. shown # <<>> => visible.out # None
    BY <1>2, <1>3, <1>6
<1>10. /\ Hooks!Field \in {"none", "out", "err"}
       /\ Hooks!Field = "out" => visible.out # None
       /\ Hooks!Field = "err" => visible.out = None /\ visible.err # None
    BY DEF Hooks!Field
<1>11. Hooks!Preserved <=> Hooks!Field = "out" /\ visible.err # None
    BY <1>2, <1>5 DEF Hooks!Preserved, Hooks!TwoFields
<1>12. visible.err = None <=> asked.err = None
    BY <1>2, <1>3
<1>13. visible["out"] = visible.out /\ visible["err"] = visible.err
    OBVIOUS
<1>14. visible \in Hooks!Responses
    <2>1. asked.shape \in Hooks!Shapes
        BY <1>1 DEF Hooks!HooksAssumption
    <2>2. visible = [shape |-> asked.shape, out |-> visible.out, err |-> visible.err]
        BY <1>1 DEF Responded
    <2> QED BY <1>7, <1>8, <2>1, <2>2 DEF Hooks!Responses
<1> QED BY <1>2, <1>7, <1>8, <1>9, <1>10, <1>11, <1>12, <1>13, <1>14

\* The response with its field replaced: the other field is the one put beside it, or none.
LEMMA Reinjected ==
    ASSUME Hooks!HooksAssumption, ShapeSound, step \in Hooked, Hooks!Field # "none", NEW text, NEW err
    PROVE  /\ Hooks!Field = "out" => /\ Hooks!Reinject(text, err).out = text
                                     /\ Hooks!Reinject(text, err).err = IF visible.err # None THEN err ELSE None
           /\ Hooks!Field = "err" => /\ Hooks!Reinject(text, err).out = None
                                     /\ Hooks!Reinject(text, err).err = text
<1>1. CASE Hooks!Field = "out"
    <2>1. Hooks!Reinject(text, err) =
            [visible EXCEPT !["out"] = text, !.err = IF visible.err # None THEN err ELSE @]
        BY <1>1, FieldForms DEF Hooks!Reinject
    <2> QED BY <1>1, <2>1, FieldForms
<1>2. CASE Hooks!Field = "err"
    <2>1. Hooks!Reinject(text, err) = [visible EXCEPT !["err"] = text, !.err = text]
        BY <1>2, FieldForms DEF Hooks!Reinject
    <2> QED BY <1>2, <2>1, FieldForms
<1> QED BY <1>1, <1>2, FieldForms

LEMMA InFormOf ==
    ASSUME Hooks!HooksAssumption, NEW x \in Hooks!AnyText, NEW form \in Hooks!Forms
    PROVE  /\ Hooks!InForm(x, form) \in Hooks!AnyText /\ Hooks!InForm(x, form) # None
           /\ Hooks!InForm(x, form).of = x.of /\ Hooks!InForm(x, form).form = form
           /\ Hooks!InForm(x, form).part = x.part
<1>1. /\ Hooks!InForm(x, form) \in Hooks!AnyText
      /\ Hooks!InForm(x, form).of = x.of /\ Hooks!InForm(x, form).form = form
      /\ Hooks!InForm(x, form).part = x.part
    BY DEF Hooks!AnyText, Hooks!InForm
<1> QED BY <1>1 DEF Hooks!HooksAssumption

\* A scan leaves no text that a pattern matches, and one that changed nothing had none.
LEMMA Scanned ==
    ASSUME Hooks!HooksAssumption, NEW x \in Hooks!AnyText
    PROVE  /\ Hooks!Scan(x) \in Hooks!AnyText /\ Hooks!Scan(x) # None /\ Hooks!Scan(x).of = x.of
           /\ Hooks!Scan(x).form \in {x.form, "scrubbed"} /\ Hooks!Scan(x).part = x.part
           /\ engine # "absent" => ~Hooks!Dirty(Hooks!Scan(x))
           /\ engine # "absent" /\ Hooks!Scan(x) = x => ~Hooks!Dirty(x)
           /\ engine = "absent" => Hooks!Scan(x) = x
<1>1. x # None
    BY DEF Hooks!HooksAssumption
<1>2. CASE Hooks!Scan(x) = x
    <2>1. Hooks!Dirty(x) /\ engine # "absent" => x = Hooks!InForm(x, "scrubbed") /\ x.form # "scrubbed"
        BY <1>2 DEF Hooks!Scan, Hooks!Scrubbed, Hooks!Dirty
    <2>2. Hooks!InForm(x, "scrubbed").form = "scrubbed"
        BY InFormOf DEF Hooks!Forms
    <2> QED BY <1>1, <1>2, <2>1, <2>2
<1>3. CASE Hooks!Scan(x) = Hooks!InForm(x, "scrubbed") /\ engine # "absent"
    <2>1. /\ Hooks!InForm(x, "scrubbed") \in Hooks!AnyText /\ Hooks!InForm(x, "scrubbed").of = x.of
          /\ Hooks!InForm(x, "scrubbed").form = "scrubbed" /\ Hooks!InForm(x, "scrubbed") # None
          /\ Hooks!InForm(x, "scrubbed").part = x.part
        BY InFormOf DEF Hooks!Forms
    <2>2. ~Hooks!Dirty(Hooks!InForm(x, "scrubbed"))
        BY <2>1 DEF Hooks!Dirty
    <2>3. ~(Hooks!InForm(x, "scrubbed") = x /\ Hooks!Dirty(x))
        BY <2>1 DEF Hooks!Dirty
    <2> QED BY <1>3, <2>1, <2>2, <2>3
<1> QED BY <1>2, <1>3 DEF Hooks!Scan, Hooks!Scrubbed

LEMMA Replaced ==
    ASSUME Hooks!HooksAssumption, ShapeSound, step \in Hooked, Hooks!Field # "none", NEW text, NEW err,
           text \in Hooks!AnyText, text.of = Hooks!Field, text.form = "twice" => text.part = "stub",
           ~Hooks!Dirty(text), Hooks!Preserved => err \in Hooks!AnyText /\ ~Hooks!Dirty(err),
           NEW r, r = Hooks!Reinject(text, err)
    PROVE  r # None /\ Intact(r) /\ Clean(r) /\ text \in {r.out, r.err} \ {None}
<1>1. /\ text # None /\ (Hooks!Preserved => err # None)
      /\ None \notin Hooks!Responses
    BY DEF Hooks!HooksAssumption
<1>2. CASE Hooks!Field = "out"
    <2>1. r.out = text /\ r.err = IF visible.err # None THEN err ELSE None
        BY <1>2, Reinjected
    <2>2. Hooks!Preserved <=> visible.err # None
        BY <1>2, FieldForms
    <2>3. r = [visible EXCEPT !["out"] = text, !.err = IF Hooks!Preserved THEN err ELSE @]
        BY <1>2 DEF Hooks!Reinject
    <2>4. r \in Hooks!Responses
        BY <2>3, FieldForms DEF Hooks!Responses
    <2> QED BY <1>1, <1>2, <2>1, <2>2, <2>4, FieldForms DEF Intact, Clean
<1>3. CASE Hooks!Field = "err"
    <2>1. r.out = None /\ r.err = text
        BY <1>3, Reinjected
    <2>2. visible.out = None /\ visible.err # None
        BY <1>3, FieldForms
    <2>3. r = [visible EXCEPT !["err"] = text, !.err = text]
        BY <1>3, FieldForms DEF Hooks!Reinject
    <2>4. r \in Hooks!Responses
        BY <2>3, FieldForms DEF Hooks!Responses
    <2> QED BY <1>1, <1>3, <2>1, <2>2, <2>4, FieldForms DEF Intact, Clean
<1> QED BY <1>2, <1>3, FieldForms

\* One label of the hook leaves what it does not match.
LEMMA HookCounts ==
    ASSUME tally \in Seq(Label), NEW label \in Reasons, Hooks!Count("hook", label)
    PROVE  /\ tally' \in Seq(Label) /\ ("lapse" \notin mishap' => "lapse" \notin mishap)
           /\ \A S : (Never("pipe", S)' <=> Never("pipe", S)) /\ (Few("pipe", S)' <=> Few("pipe", S))
           /\ \A S : label \notin S => (Never("hook", S)' <=> Never("hook", S)) /\ (Few("hook", S)' <=> Few("hook", S))
           /\ \A S : label \in S /\ Never("hook", S) => Few("hook", S)' /\ ("lapse" \notin mishap' => ~Never("hook", S)')
<1>1. /\ tally' \in Seq(Label) /\ mishap' \in {mishap, mishap \cup {"lapse"}}
      /\ \A w, S : ~(w = "hook" /\ label \in S) => Hooks!Counted(w, S)' = Hooks!Counted(w, S)
      /\ \A S : label \in S /\ Never("hook", S) => Few("hook", S)'
      /\ "lapse" \notin mishap' => \A S : label \in S => ~Never("hook", S)'
    BY CountedOne
<1>2. ASSUME NEW w, NEW S, ~(w = "hook" /\ label \in S)
      PROVE  (Never(w, S)' <=> Never(w, S)) /\ (Few(w, S)' <=> Few(w, S))
    BY <1>1, <1>2 DEF Never, Few, Once
<1> QED BY <1>1, <1>2

LEMMA StartsStep ==
    ASSUME Hooks!HooksAssumption, HooksInv, Hooks!HookStarts
    PROVE  HooksInv'
<1>1. /\ step = "post" /\ step' = "gates"
      /\ UNCHANGED <<asked, setting, banner, command, captured, writing, shown, exit, visible, reply, due>>
      /\ IF engine' = "absent" THEN UNCHANGED <<tally, mishap>> ELSE Hooks!Count("hook", "run")
    BY DEF Hooks!HookStarts
<1>2. TallySound'
    <2>1. CASE engine' = "absent"
        <3>1. UNCHANGED <<tally, mishap>>
            BY <1>1, <2>1
        <3> QED BY <1>1, <2>1, <3>1, TallyKept DEF HooksInv, TallySound, Early, Late, Shrunk
    <2>2. CASE engine' # "absent"
        <3>1. Hooks!Count("hook", "run") /\ "run" \in Reasons /\ "run" \notin Results /\ "run" # "compressed"
            BY <1>1, <2>2 DEF Reasons, Results, Hooks!Beside
        <3>2. tally \in Seq(Label) /\ Never("hook", {"run"})
            BY <1>1 DEF HooksInv, TallySound, Early
        <3>3. /\ tally' \in Seq(Label) /\ ("lapse" \notin mishap' => "lapse" \notin mishap)
              /\ \A S : (Never("pipe", S)' <=> Never("pipe", S)) /\ (Few("pipe", S)' <=> Few("pipe", S))
              /\ (Never("hook", Results)' <=> Never("hook", Results)) /\ (Few("hook", Results)' <=> Few("hook", Results))
              /\ Never("hook", {"compressed"})' <=> Never("hook", {"compressed"})
              /\ Few("hook", {"run"})' /\ ("lapse" \notin mishap' => ~Never("hook", {"run"})')
            BY <3>1, <3>2, HookCounts
        <3> QED BY <1>1, <2>2, <3>3 DEF HooksInv, TallySound, Early, Late, Shrunk
    <2> QED BY <2>1, <2>2
<1>3. ShapeSound'
    <2>1. ShownSound' /\ Responded' = Responded
        <3>1. /\ UNCHANGED <<asked, shown, exit>> /\ ("lost" \in mishap' <=> "lost" \in mishap)
              /\ ("repeated" \in mishap' <=> "repeated" \in mishap)
            BY <1>1 DEF Hooks!Count
        <3>2. ShownSound'
            BY <1>1, <3>1 DEF HooksInv, ShapeSound, ShownSound
        <3> QED BY <3>1, <3>2 DEF Responded, Hooks!Seen, Hooks!Marked, Hooks!Like
    <2> QED BY <1>1, <2>1 DEF HooksInv, ShapeSound, Stages, Early
<1> QED BY <1>2, <1>3 DEF HooksInv

\* What the gates decide: the answer, and what is to be counted of it.
LEMMA GatesForms ==
    ASSUME Hooks!HooksAssumption, HooksInv, step = "gates",
           Hooks!Passthrough \/ Hooks!Withhold \/ Hooks!Scrub \/ Hooks!Compress
    PROVE  /\ reply' = None \/ (Intact(reply') /\ Clean(reply'))
           /\ \/ step' = "count" /\ due' \in Results \ {"compressed"} /\ UNCHANGED <<tally, mishap>>
                 /\ (due' \in {"no-savings", "below-min-chars"} /\ engine # "absent" => Clean(visible))
              \/ step' = "answer" /\ due' = "none" /\ engine # "absent" /\ Hooks!Count("hook", "redaction-budget-exceeded")
              \/ step' = "answer" /\ due' = "redaction-only" /\ UNCHANGED <<tally, mishap>>
              \/ /\ step' = "answer" /\ due' = "compressed" /\ Shrunk(reply')
                 /\ UNCHANGED <<tally, mishap>> \/ Hooks!Count("hook", "size-reroute")
<1> DEFINE field == visible[Hooks!Field]
<1>1. step \in Hooked /\ ShapeSound /\ due = "none" /\ reply = None
    BY DEF Hooked, HooksInv, TallySound, ShapeSound, Early
<1>2. CASE Hooks!Passthrough
    <2>1. due' \in {"disabled", "below-version-floor", "excluded-tool", "shape-unmatched", "already-compressed"}
        BY <1>2 DEF Hooks!Passthrough, Hooks!EarlyReasons
    <2>2. due' \in Results \ {"compressed"} /\ due' \notin {"no-savings", "below-min-chars"}
        BY <2>1 DEF Results, Reasons, Hooks!Beside
    <2> QED BY <1>1, <1>2, <2>2 DEF Hooks!Passthrough
<1>3. ASSUME Hooks!Passes
      PROVE  /\ Hooks!Field # "none" /\ field \in Hooks!AnyText /\ field.of = Hooks!Field
             /\ field.form \in {"raw", "scrubbed", "compressed", "doubled"}
             /\ field.form = "compressed" => field.part = "stub"
             /\ Hooks!Preserved => visible.err \in Hooks!AnyText
    <2>1. Hooks!Field # "none"
        BY <1>3 DEF Hooks!Passes, Hooks!EarlyReasons
    <2>2. field.form = "compressed" => field.part = "stub"
        BY <1>3 DEF Hooks!Passes, Hooks!Marked
    <2> QED BY <1>1, <2>1, <2>2, FieldForms
<1>4. CASE Hooks!Withhold
    <2>1. Hooks!Passes /\ engine # "absent"
        BY <1>4 DEF Hooks!Withhold, Hooks!Overruns, Hooks!Overrun
    <2>2. PICK text, err :
            /\ reply' = Hooks!Reinject(text, err) /\ text = Hooks!InForm(field, "withheld")
            /\ err = IF Hooks!Preserved THEN Hooks!InForm(visible.err, "withheld") ELSE None
        BY <1>4 DEF Hooks!Withhold
    <2>3. text \in Hooks!AnyText /\ text.of = Hooks!Field /\ text.form = "withheld"
        BY <1>3, <2>1, <2>2, InFormOf DEF Hooks!Forms
    <2>4. Hooks!Preserved => err \in Hooks!AnyText /\ err.form = "withheld"
        BY <1>3, <2>1, <2>2, InFormOf DEF Hooks!Forms
    <2>5. ~Hooks!Dirty(text) /\ (Hooks!Preserved => ~Hooks!Dirty(err))
        BY <2>3, <2>4 DEF Hooks!Dirty
    <2>6. Intact(reply') /\ Clean(reply')
        BY <1>1, <1>3, <2>1, <2>2, <2>3, <2>4, <2>5, Replaced
    <2> QED BY <1>1, <1>4, <2>1, <2>6 DEF Hooks!Withhold
<1>5. CASE Hooks!Scrub /\ ~Hooks!Changed
    <2>1. Hooks!Passes
        BY <1>5 DEF Hooks!Scrub
    <2>2. /\ due' \in {"no-savings", "below-min-chars"} /\ step' = "count" /\ UNCHANGED <<reply, tally, mishap>>
        BY <1>5 DEF Hooks!Scrub
    <2>3. ASSUME engine # "absent" PROVE Clean(visible)
        <3>1. Hooks!Scan(field) = field /\ (Hooks!Preserved => Hooks!Scan(visible.err) = visible.err)
            BY <1>5 DEF Hooks!Changed, Hooks!ScannedErr
        <3>2. ~Hooks!Dirty(field) /\ (Hooks!Preserved => ~Hooks!Dirty(visible.err))
            BY <1>3, <2>1, <2>3, <3>1, Scanned
        <3>3. visible.out # None => field = visible.out
            BY <1>1, <1>3, <2>1, FieldForms
        <3>4. visible.err # None => Hooks!Preserved \/ (field = visible.err /\ visible.out = None)
            BY <1>1, <1>3, <2>1, FieldForms
        <3> QED BY <3>2, <3>3, <3>4 DEF Clean
    <2>4. due' \in Results \ {"compressed"}
        BY <2>2 DEF Results, Reasons, Hooks!Beside
    <2> QED BY <1>1, <2>2, <2>3, <2>4
<1>6. CASE Hooks!Scrub /\ Hooks!Changed
    <2>1. Hooks!Passes /\ step' = "answer" /\ due' = "redaction-only" /\ UNCHANGED <<tally, mishap>>
        BY <1>6 DEF Hooks!Scrub
    <2>2. PICK text, err :
            /\ reply' = Hooks!Reinject(text, err) /\ text = Hooks!Scan(field)
            /\ err = IF Hooks!Preserved THEN Hooks!Scan(visible.err) ELSE None
        BY <1>6 DEF Hooks!Scrub, Hooks!ScannedErr
    <2>3. engine # "absent"
        <3>1. Hooks!Scan(field) # field \/ (Hooks!Preserved /\ Hooks!Scan(visible.err) # visible.err)
            BY <1>6 DEF Hooks!Changed, Hooks!ScannedErr
        <3> QED BY <3>1 DEF Hooks!Scan
    <2>4. text \in Hooks!AnyText /\ text.of = Hooks!Field /\ ~Hooks!Dirty(text) /\ text.form # "twice"
        BY <1>3, <2>1, <2>2, <2>3, Scanned
    <2>5. Hooks!Preserved => err \in Hooks!AnyText /\ ~Hooks!Dirty(err)
        BY <1>3, <2>1, <2>2, <2>3, Scanned
    <2>6. Intact(reply') /\ Clean(reply')
        BY <1>1, <1>3, <2>1, <2>2, <2>4, <2>5, Replaced
    <2> QED BY <2>1, <2>6
<1>7. CASE Hooks!Compress
    <2>1. Hooks!Passes /\ engine = "works" /\ due' = "compressed" /\ step' = "answer"
        BY <1>7 DEF Hooks!Compress, Hooks!Helps
    <2>2. PICK text, err, scan :
            /\ reply' = Hooks!Reinject(text, err) /\ scan = Hooks!Scan(field) /\ text = Hooks!Compressed(scan)
            /\ err = IF Hooks!Preserved THEN Hooks!Scan(visible.err) ELSE None
        BY <1>7 DEF Hooks!Compress, Hooks!ScannedErr
    <2>3. /\ scan \in Hooks!AnyText /\ scan.of = Hooks!Field /\ scan.form # "twice"
          /\ scan.form = "compressed" => scan.part = "stub"
        BY <1>3, <2>1, <2>2, Scanned
    <2>4. text = Hooks!InForm(scan, IF scan.form = "compressed" THEN "twice" ELSE "compressed")
        BY <2>2, <2>3 DEF Hooks!Compressed
    <2>5. /\ text \in Hooks!AnyText /\ text.of = Hooks!Field /\ text.form \in {"compressed", "twice"}
          /\ text.form = "twice" => text.part = "stub"
        BY <2>3, <2>4, InFormOf DEF Hooks!Forms
    <2>6. Hooks!Preserved => err \in Hooks!AnyText /\ ~Hooks!Dirty(err)
        BY <1>3, <2>1, <2>2, Scanned
    <2>7. ~Hooks!Dirty(text)
        BY <2>5 DEF Hooks!Dirty
    <2>8. reply' # None /\ Intact(reply') /\ Clean(reply') /\ text \in {reply'.out, reply'.err} \ {None}
        BY <1>1, <1>3, <2>1, <2>2, <2>5, <2>6, <2>7, Replaced
    <2>9. Shrunk(reply')
        BY <2>5, <2>8 DEF Shrunk
    <2> QED BY <1>7, <2>1, <2>8, <2>9 DEF Hooks!Compress
<1> QED BY <1>2, <1>4, <1>5, <1>6, <1>7

\* What a step of the hook leaves alone.
LEMMA HookFrame ==
    ASSUME UNCHANGED <<asked, shown, exit>>, "lost" \in mishap' <=> "lost" \in mishap,
           "repeated" \in mishap' <=> "repeated" \in mishap
    PROVE  /\ ShownSound <=> ShownSound'
           /\ Responded' = Responded
           /\ Intact(reply') <=> Intact(reply)'
           /\ Clean(reply') <=> Clean(reply)'
           /\ Intact(visible') <=> Intact(visible)'
           /\ Clean(visible') <=> Clean(visible)'
<1>1. ShownSound <=> ShownSound'
    BY DEF ShownSound
<1>2. Responded' = Responded
    BY DEF Responded, Hooks!Seen, Hooks!Marked, Hooks!Like
<1>3. (Intact(reply') <=> Intact(reply)') /\ (Intact(visible') <=> Intact(visible)')
    BY DEF Intact
<1>4. (Clean(reply') <=> Clean(reply)') /\ (Clean(visible') <=> Clean(visible)')
    BY DEF Clean, Hooks!Dirty, Hooks!Like
<1> QED BY <1>1, <1>2, <1>3, <1>4

LEMMA GatesStep ==
    ASSUME Hooks!HooksAssumption, HooksInv, Hooks!Gates
    PROVE  HooksInv'
<1>1. /\ step = "gates" /\ ShapeSound /\ TallySound /\ due = "none" /\ reply = None
      /\ UNCHANGED <<asked, setting, banner, command, captured, writing, shown, exit, visible, engine>>
      /\ Hooks!Passthrough \/ Hooks!Withhold \/ Hooks!Scrub \/ Hooks!Compress
    BY DEF Hooks!Gates, HooksInv, ShapeSound, TallySound
<1>2. /\ reply' = None \/ (Intact(reply') /\ Clean(reply'))
      /\ \/ step' = "count" /\ due' \in Results \ {"compressed"} /\ UNCHANGED <<tally, mishap>>
            /\ (due' \in {"no-savings", "below-min-chars"} /\ engine # "absent" => Clean(visible))
         \/ step' = "answer" /\ due' = "none" /\ engine # "absent" /\ Hooks!Count("hook", "redaction-budget-exceeded")
         \/ step' = "answer" /\ due' = "redaction-only" /\ UNCHANGED <<tally, mishap>>
         \/ /\ step' = "answer" /\ due' = "compressed" /\ Shrunk(reply')
            /\ UNCHANGED <<tally, mishap>> \/ Hooks!Count("hook", "size-reroute")
    BY <1>1, GatesForms
<1>3. /\ "lost" \in mishap' <=> "lost" \in mishap
      /\ "repeated" \in mishap' <=> "repeated" \in mishap
    BY <1>2 DEF Hooks!Count
<1>4. ShapeSound'
    <2>1. visible = Responded /\ ShownSound
        BY <1>1 DEF ShapeSound
    <2>2. visible' = Responded' /\ ShownSound' /\ (reply' # None => Intact(reply)' /\ Clean(reply)')
        BY <1>1, <1>2, <1>3, <2>1, HookFrame
    <2>3. step' \in {"count", "answer"} /\ (step' = "answer" => due' \notin {"no-savings", "below-min-chars"})
        BY <1>2
    <2>4. step' = "count" /\ reply' = None /\ engine' # "absent" /\ due' \in {"no-savings", "below-min-chars"} =>
            Clean(visible)'
        BY <1>1, <1>2, <1>3, HookFrame
    <2> QED BY <1>1, <2>2, <2>3, <2>4 DEF ShapeSound, Stages, Early
<1>5. TallySound'
    <2>1. \A label \in {"redaction-budget-exceeded", "redaction-only", "compressed", "size-reroute"} :
            label \in Reasons /\ label # "run" /\ (label \in Results <=> label # "size-reroute")
        BY DEF Results, Reasons, Hooks!Beside
    <2>2. /\ tally \in Seq(Label) /\ Never("hook", Results) /\ Never("hook", {"compressed"})
          /\ "lapse" \notin mishap => (Never("hook", {"run"}) <=> engine = "absent")
        BY <1>1 DEF TallySound, Late
    <2>3. ASSUME UNCHANGED <<tally, mishap>>, step' \in {"count", "answer"}, due' \in Results,
                 step' = "answer" /\ due' = "compressed" => Shrunk(reply'), step' = "count" => due' # "compressed"
          PROVE  TallySound'
        <3>1. /\ \A who \in {"pipe", "hook"} : (Never(who, {"run"})' <=> Never(who, {"run"})) /\ (Few(who, {"run"})' <=> Few(who, {"run"}))
              /\ \A who \in {"pipe", "hook"} : (Never(who, Results)' <=> Never(who, Results)) /\ (Few(who, Results)' <=> Few(who, Results))
              /\ Never("hook", {"compressed"})'
            BY <2>2, <2>3, TallyKept
        <3>2. due' # "none" /\ tally' \in Seq(Label)
            BY <2>2, <2>3 DEF Results, Reasons
        <3>3. Shrunk(reply') <=> Shrunk(reply)'
            BY DEF Shrunk
        <3> QED BY <1>1, <2>2, <2>3, <3>1, <3>2, <3>3 DEF TallySound, Early, Late
    <2>4. ASSUME step' = "answer", due' = "none", engine # "absent", Hooks!Count("hook", "redaction-budget-exceeded")
          PROVE  TallySound'
        <3> DEFINE label == "redaction-budget-exceeded"
        <3>1. /\ tally' \in Seq(Label) /\ ("lapse" \notin mishap' => "lapse" \notin mishap)
              /\ \A S : (Never("pipe", S)' <=> Never("pipe", S)) /\ (Few("pipe", S)' <=> Few("pipe", S))
              /\ \A S : label \notin S => (Never("hook", S)' <=> Never("hook", S)) /\ (Few("hook", S)' <=> Few("hook", S))
              /\ \A S : label \in S /\ Never("hook", S) => Few("hook", S)' /\ ("lapse" \notin mishap' => ~Never("hook", S)')
            BY <2>1, <2>2, <2>4, HookCounts
        <3>2. /\ (Never("hook", {"run"})' <=> Never("hook", {"run"})) /\ (Few("hook", {"run"})' <=> Few("hook", {"run"}))
              /\ Never("hook", {"compressed"})'
              /\ Few("hook", Results)' /\ ("lapse" \notin mishap' => ~Never("hook", Results)')
            BY <2>1, <2>2, <3>1
        <3> QED BY <1>1, <2>2, <2>4, <3>1, <3>2 DEF TallySound, Early, Late
    <2>5. ASSUME step' = "answer", due' = "compressed", Shrunk(reply'), Hooks!Count("hook", "size-reroute")
          PROVE  TallySound'
        <3> DEFINE label == "size-reroute"
        <3>1. /\ tally' \in Seq(Label) /\ ("lapse" \notin mishap' => "lapse" \notin mishap)
              /\ \A S : (Never("pipe", S)' <=> Never("pipe", S)) /\ (Few("pipe", S)' <=> Few("pipe", S))
              /\ \A S : label \notin S => (Never("hook", S)' <=> Never("hook", S)) /\ (Few("hook", S)' <=> Few("hook", S))
            BY <2>1, <2>2, <2>5, HookCounts
        <3>2. /\ (Never("hook", {"run"})' <=> Never("hook", {"run"})) /\ (Few("hook", {"run"})' <=> Few("hook", {"run"}))
              /\ Never("hook", {"compressed"})'
              /\ (Never("hook", Results)' <=> Never("hook", Results)) /\ (Few("hook", Results)' <=> Few("hook", Results))
            BY <2>1, <2>2, <3>1
        <3> QED BY <1>1, <2>1, <2>2, <2>5, <3>1, <3>2 DEF TallySound, Early, Late, Shrunk
    <2> QED BY <1>2, <2>1, <2>3, <2>4, <2>5
<1> QED BY <1>4, <1>5 DEF HooksInv

LEMMA AnswerStep ==
    ASSUME Hooks!HooksAssumption, HooksInv, Hooks!Answer
    PROVE  HooksInv'
<1>1. /\ step = "answer" /\ step' = "count"
      /\ UNCHANGED <<asked, setting, banner, command, captured, writing, shown, exit, mishap, visible, engine, tally>>
      /\ \/ UNCHANGED <<reply, due>>
         \/ reply' = None /\ due' = IF due = "none" THEN "none" ELSE "serialize-failed"
    BY DEF Hooks!Answer, Hooks!Unwritten
<1>2. "serialize-failed" \in Results
    BY DEF Results, Reasons, Hooks!Beside
<1>3. ShapeSound'
    <2>1. /\ visible = Responded /\ ShownSound /\ due \notin {"no-savings", "below-min-chars"}
          /\ reply # None => Intact(reply) /\ Clean(reply)
        BY <1>1 DEF HooksInv, ShapeSound
    <2>2. visible' = Responded' /\ ShownSound' /\ (reply' # None => Intact(reply)' /\ Clean(reply)')
        BY <1>1, <2>1, HookFrame
    <2>3. due' \notin {"no-savings", "below-min-chars"}
        BY <1>1, <2>1
    <2> QED BY <1>1, <2>2, <2>3 DEF HooksInv, ShapeSound, Stages, Early
<1>4. TallySound'
    BY <1>1, <1>2, TallyKept DEF HooksInv, TallySound, Early, Late, Shrunk
<1> QED BY <1>3, <1>4 DEF HooksInv

LEMMA CountStep ==
    ASSUME Hooks!HooksAssumption, HooksInv, Hooks!CountOutcome
    PROVE  HooksInv'
<1>1. /\ step = "count" /\ step' = "flush" /\ ShapeSound /\ TallySound
      /\ UNCHANGED <<asked, setting, banner, command, captured, writing, shown, exit, visible, engine, reply, due>>
      /\ IF due = "none" \/ engine = "absent" THEN UNCHANGED <<tally, mishap>> ELSE Hooks!Count("hook", due)
    BY DEF Hooks!CountOutcome, HooksInv
<1>2. /\ "lost" \in mishap' <=> "lost" \in mishap
      /\ "repeated" \in mishap' <=> "repeated" \in mishap
    BY <1>1 DEF Hooks!Count
<1>3. ShapeSound'
    <2>1. visible' = Responded' /\ ShownSound' /\ (reply' # None => Intact(reply)' /\ Clean(reply)')
        BY <1>1, <1>2, HookFrame DEF ShapeSound
    <2>2. reply' = None /\ engine' # "absent" /\ due' \in {"no-savings", "below-min-chars"} => Clean(visible)'
        BY <1>1, <1>2, HookFrame DEF ShapeSound
    <2> QED BY <1>1, <2>1, <2>2 DEF ShapeSound, Stages, Early
<1>4. CASE due = "none" \/ engine = "absent"
    <2>1. UNCHANGED <<tally, mishap>>
        BY <1>1, <1>4
    <2>2. TallySound'
        BY <1>1, <1>4, <2>1, TallyKept DEF TallySound, Early, Late, Shrunk
    <2> QED BY <1>3, <2>2 DEF HooksInv
<1>5. CASE due # "none" /\ engine # "absent"
    <2>1. /\ Hooks!Count("hook", due) /\ due \in Results /\ due \in Reasons /\ due # "run" /\ tally \in Seq(Label)
          /\ Never("hook", Results) /\ (due = "compressed" => Shrunk(reply))
          /\ Never("hook", {"compressed"})
          /\ "lapse" \notin mishap => (Never("hook", {"run"}) <=> engine = "absent")
        BY <1>1, <1>5 DEF TallySound, Late, Results, Hooks!Beside
    <2>2. /\ tally' \in Seq(Label) /\ ("lapse" \notin mishap' => "lapse" \notin mishap)
          /\ \A S : (Never("pipe", S)' <=> Never("pipe", S)) /\ (Few("pipe", S)' <=> Few("pipe", S))
          /\ \A S : due \notin S => (Never("hook", S)' <=> Never("hook", S)) /\ (Few("hook", S)' <=> Few("hook", S))
          /\ \A S : due \in S /\ Never("hook", S) => Few("hook", S)' /\ ("lapse" \notin mishap' => ~Never("hook", S)')
        BY <2>1, HookCounts
    <2>3. /\ (Never("hook", {"run"})' <=> Never("hook", {"run"})) /\ (Few("hook", {"run"})' <=> Few("hook", {"run"}))
          /\ Few("hook", Results)' /\ ("lapse" \notin mishap' => ~Never("hook", Results)')
        BY <2>1, <2>2
    <2>4. Never("hook", {"compressed"})' \/ Shrunk(reply)'
        <3>1. CASE due = "compressed"
            BY <1>1, <2>1, <3>1 DEF Shrunk
        <3>2. CASE due # "compressed"
            BY <2>1, <2>2, <3>2
        <3> QED BY <3>1, <3>2
    <2>5. TallySound'
        BY <1>1, <1>5, <2>1, <2>2, <2>3, <2>4 DEF TallySound, Early, Late
    <2> QED BY <1>3, <2>5 DEF HooksInv
<1> QED BY <1>4, <1>5

\* The response as it was keeps its fields.
LEMMA AsItWas ==
    ASSUME Hooks!HooksAssumption, ShapeSound, step \in Hooked \cup {"post"}
    PROVE  Intact(visible)
<1>1. visible = Responded /\ ShownSound /\ \E s \in Sessions : asked = s.call
    BY DEF ShapeSound, Hooked
<1>2. /\ visible.out = Hooks!Seen
      /\ visible.err = (IF asked.err = None THEN None ELSE Hooks!Text("err", "raw", "whole"))
    BY <1>1 DEF Responded
<1>3. Hooks!Text("err", "raw", "whole") \in Hooks!AnyText /\ None \notin Hooks!AnyText
    BY DEF Hooks!HooksAssumption, Hooks!AnyText, Hooks!Text, Hooks!Forms
<1>4. \/ shown = <<>> /\ Hooks!Seen = None
      \/ Hooks!Seen # None /\ Hooks!Seen.of = "out" /\ Hooks!Seen.form # "twice"
    <2>1. CASE shown = <<>>
        BY <2>1 DEF Hooks!Seen
    <2>2. ASSUME NEW x \in Piece, shown = <<x>>
          PROVE  Hooks!Seen # None /\ Hooks!Seen.of = "out" /\ Hooks!Seen.form # "twice"
        BY <1>3, <2>2 DEF Hooks!Seen, Piece
    <2>3. ASSUME NEW x \in Piece, NEW y \in Piece, shown = <<x, y>>
          PROVE  Hooks!Seen # None /\ Hooks!Seen.of = "out" /\ Hooks!Seen.form # "twice"
        <3>1. shown # <<>> /\ Len(shown) # 1
            BY <2>3
        <3>2. \E p \in {"cut", "stub"} : Hooks!Seen = Hooks!Text("out", "doubled", p)
            BY <3>1 DEF Hooks!Seen
        <3>3. \A p \in {"cut", "stub"} : Hooks!Text("out", "doubled", p) \in Hooks!AnyText
                /\ Hooks!Text("out", "doubled", p).of = "out" /\ Hooks!Text("out", "doubled", p).form = "doubled"
            BY DEF Hooks!Text, Hooks!AnyText, Hooks!Forms
        <3> QED BY <1>3, <3>2, <3>3
    <2> QED BY <1>1, <2>1, <2>2, <2>3 DEF ShownSound
<1> QED BY <1>2, <1>3, <1>4 DEF Intact

LEMMA EndSteps ==
    ASSUME Hooks!HooksAssumption, HooksInv, Hooks!Flush \/ Hooks!HookFails
    PROVE  HooksInv'
<1>1. /\ step \in Hooked \cup {"post"} /\ step' \in {"processed", "passed"} /\ ShapeSound /\ TallySound
      /\ UNCHANGED <<asked, setting, banner, command, captured, writing, shown, exit, engine, reply, due, tally>>
      /\ visible' \in {visible, reply} /\ (visible' = reply /\ reply = None => visible' = visible)
      /\ "lost" \in mishap' <=> "lost" \in mishap
      /\ "repeated" \in mishap' <=> "repeated" \in mishap
      /\ "lapse" \notin mishap' => step = "flush" /\ "lapse" \notin mishap
    BY DEF Hooks!Flush, Hooks!HookFails, HooksInv, Hooked
<1>2. Intact(visible) /\ (reply # None => Intact(reply) /\ Clean(reply)) /\ ShownSound
    BY <1>1, AsItWas DEF ShapeSound, Hooked
<1>3. Intact(visible')
    BY <1>1, <1>2
<1>4. ASSUME step' = "processed" PROVE Clean(visible')
    <2>1. /\ step = "flush"
          /\ \/ reply # None /\ visible' = reply
             \/ reply = None /\ visible' = visible /\ engine # "absent" /\ due \in {"no-savings", "below-min-chars"}
        BY <1>4 DEF Hooks!Flush, Hooks!HookFails
    <2> QED BY <1>1, <1>2, <2>1 DEF ShapeSound
<1>5. Intact(visible)' /\ (step' = "processed" => Clean(visible)') /\ ShownSound'
      /\ (reply' # None => Intact(reply)' /\ Clean(reply)')
    BY <1>1, <1>2, <1>3, <1>4, HookFrame
<1>6. ShapeSound'
    BY <1>1, <1>5 DEF ShapeSound, Stages, Early
<1>7. TallySound'
    <2>1. Never("hook", {"compressed"}) \/ Shrunk(reply)
        BY <1>1 DEF TallySound
    <2> QED BY <1>1, <2>1, TallyKept DEF TallySound, Early, Late, Shrunk, Hooked
<1> QED BY <1>6, <1>7 DEF HooksInv

LEMMA HooksStep ==
    ASSUME Hooks!HooksAssumption, HooksInv, [Hooks!Next]_(Hooks!vars)
    PROVE  HooksInv'
<1>1. CASE UNCHANGED Hooks!vars
    <2>1. ShapeSound'
        <3>1. /\ UNCHANGED <<asked, setting, banner, command, step, captured, writing, shown, exit, mishap, visible,
                             engine, reply, due>>
              /\ Hooks!Output' = Hooks!Output
            BY <1>1 DEF Hooks!vars, Hooks!Output
        <3>2. /\ ShownSound <=> ShownSound'
              /\ Responded' = Responded
              /\ Intact(reply) <=> Intact(reply)'
              /\ Clean(reply) <=> Clean(reply)'
              /\ Intact(visible) <=> Intact(visible)'
              /\ Clean(visible) <=> Clean(visible)'
            BY <3>1, HookFrame
        <3>3. BannerSound <=> BannerSound'
            BY <3>1 DEF BannerSound, Hooks!Finds, Hooks!Gated
        <3> QED BY <3>1, <3>2, <3>3 DEF HooksInv, ShapeSound
    <2>2. TallySound'
        BY <1>1, TallyKept DEF Hooks!vars, HooksInv, TallySound, Shrunk
    <2> QED BY <2>1, <2>2 DEF HooksInv
<1>2. CASE Hooks!Next
    BY <1>2, GateSteps, RunSteps, DecideStep, CompressorStep, RespondStep, StartsStep, GatesStep, AnswerStep, CountStep,
       EndSteps DEF Hooks!Next
<1> QED BY <1>1, <1>2

LEMMA HooksCardinality == \A S : Hooks!Cardinality(S) = Cardinality(S)
BY DEF Cardinality, Hooks!Cardinality

\* What was counted once or not at all, in numbers.
LEMMA FewOnes ==
    ASSUME NEW who, NEW labels, Few(who, labels)
    PROVE  /\ Cardinality(Hooks!Counted(who, labels)) \in {0, 1}
           /\ Cardinality(Hooks!Counted(who, labels)) = 0 <=> Never(who, labels)
<1>1. CASE Never(who, labels)
    <2>1. Hooks!Counted(who, labels) = {}
        BY <1>1 DEF Never
    <2>2. Cardinality(Hooks!Counted(who, labels)) = 0
        BY <2>1, FS_EmptySet
    <2> QED BY <1>1, <2>2
<1>2. CASE ~Never(who, labels)
    <2>1. PICK i : Hooks!Counted(who, labels) = {i}
        BY <1>2 DEF Few, Once
    <2>2. Cardinality(Hooks!Counted(who, labels)) = 1
        BY <2>1, FS_Singleton
    <2> QED BY <1>2, <2>2
<1> QED BY <1>1, <1>2

\* Every counted label is one of the two hooks'.
LEMMA OutcomesCounted ==
    ASSUME TallySound
    PROVE  \A who : Hooks!Outcomes(who) = Hooks!Counted(who, Results)
<1>1. ASSUME NEW i \in DOMAIN tally PROVE tally[i][2] \in Results <=> tally[i][2] \notin Hooks!Beside
    <2>1. tally[i] \in Label
        BY <1>1 DEF TallySound
    <2>2. tally[i][2] \in Reasons
        BY <2>1 DEF Label
    <2> QED BY <2>2 DEF Results
<1> QED BY <1>1 DEF Hooks!Outcomes, Hooks!Counted

HooksPart == part = "hooks" => HooksInv

\* A step is one of the tool call under the hooks while it runs, or changes nothing of it.
LEMMA HooksOnly ==
    ASSUME [Next]_vars
    PROVE  /\ part' = part
           /\ part = "hooks" => [Hooks!Next]_(Hooks!vars)
<1>1. CASE Next
    <2>1. part' = part
        BY <1>1 DEF Next
    <2>2. part = "hooks" => Hooks!Next
        BY <1>1 DEF Next
    <2> QED BY <2>1, <2>2
<1>2. CASE UNCHANGED vars
    <2>1. part' = part /\ UNCHANGED hookVars
        BY <1>2 DEF vars
    <2> QED BY <2>1 DEF hookVars, Hooks!vars
<1> QED BY <1>1, <1>2

LEMMA HooksAlways == Spec => []HooksPart
<1>1. Init => HooksPart
    BY HooksInit, CallsAssumption DEF Init, HooksPart
<1>2. HooksPart /\ [Next]_vars => HooksPart'
    <2> SUFFICES ASSUME HooksPart, [Next]_vars, part' = "hooks" PROVE HooksInv'
        BY DEF HooksPart
    <2>1. HooksInv /\ [Hooks!Next]_(Hooks!vars)
        BY HooksOnly DEF HooksPart
    <2> QED BY <2>1, HooksStep, CallsAssumption
<1> QED BY <1>1, <1>2, PTL DEF Spec

\* For any calls and settings, whatever fails and wherever a signal falls: a rooted session
\* whose settings are not edited never wraps a command under a banner that says the pipe is
\* off; a command that ends by itself has shown its whole output unless the compressor lied
\* about its write; what is cut off or repeated has a signal or a broken compressor behind it,
\* and what is repeated is raw; and a text is compressed twice only behind a stub.
THEOREM OutputAlwaysOnce ==
    Spec => []OutputOnce
<1>1. ASSUME HooksInv PROVE Hooks!OutputOnce
    <2>1. /\ ShapeSound
          /\ step = "run" /\ command = "wrapped" /\ setting.rooted /\ "edited" \notin mishap =>
                banner \notin {"off", "rules", "doubt"}
        BY <1>1 DEF HooksInv, ShapeSound
    <2>2. shown = <<>> \/ ShownSound
        BY <2>1 DEF ShapeSound
    <2>3. step = "shown" => ShownSound
        BY <2>1 DEF ShapeSound
    <2>4. \A i \in DOMAIN shown : shown[i].part = "whole" \/ exit = "signal" \/ mishap \cap {"lost", "repeated"} # {}
        BY <2>2 DEF ShownSound
    <2>5. Len(shown) > 1 => Len(shown) = 2 /\ "repeated" \in mishap /\ shown[2].form = "raw"
        <3>1. CASE shown = <<>> \/ \E x \in Piece : shown = <<x>>
            BY <3>1
        <3>2. ASSUME NEW x \in Piece, NEW y \in Piece, shown = <<x, y>>, y.form = "raw", "repeated" \in mishap
              PROVE  Len(shown) = 2 /\ "repeated" \in mishap /\ shown[2].form = "raw"
            BY <3>2
        <3> QED BY <2>2, <3>1, <3>2 DEF ShownSound
    <2>6. Hooks!Ended /\ visible.out # None /\ visible.out.form = "twice" => visible.out.part = "stub"
        BY <2>1 DEF ShapeSound, Hooks!Ended, Intact
    <2>7. step = "shown" /\ exit = "own" /\ "lost" \notin mishap /\ asked.out # None =>
            \E i \in DOMAIN shown : shown[i].part = "whole"
        BY <2>3 DEF ShownSound
    <2> QED BY <2>1, <2>4, <2>5, <2>6, <2>7 DEF Hooks!OutputOnce
<1>2. HooksPart => OutputOnce
    BY <1>1 DEF HooksPart, OutputOnce
<1> QED BY <1>2, HooksAlways, PTL

\* For any calls and settings, wherever the host's timeout or an exception ends the hook and
\* whichever increment is lost: the response the model sees keeps its fields, one that the hook
\* has processed holds nothing that a redaction pattern matches, no process counts two runs or
\* two outcomes, one without a lapse counts one outcome for each run, and a compression is
\* counted only if the hook's answer holds it.
THEOREM HookAlwaysAccounts ==
    Spec => []HookAccounts
<1>1. ASSUME HooksInv PROVE Hooks!HookAccounts
    <2>1. ShapeSound /\ TallySound
        BY <1>1 DEF HooksInv
    <2>2. Hooks!Ended =>
            /\ visible.err = None <=> asked.err = None
            /\ shown # <<>> => visible.out # None /\ visible.out.of = "out"
            /\ step = "processed" => \A x \in {visible.out, visible.err} \ {None} : ~Hooks!Dirty(x)
        BY <2>1 DEF ShapeSound, Hooks!Ended, Intact, Clean
    <2>3. ASSUME NEW who \in {"pipe", "hook"}
          PROVE  /\ Hooks!Cardinality(Hooks!Counted(who, {"run"})) <= 1 /\ Hooks!Cardinality(Hooks!Outcomes(who)) <= 1
                 /\ Hooks!Ended /\ "lapse" \notin mishap =>
                        Hooks!Cardinality(Hooks!Outcomes(who)) = Hooks!Cardinality(Hooks!Counted(who, {"run"}))
        <3>1. Few(who, {"run"}) /\ Few(who, Results)
            BY <2>1 DEF TallySound
        <3>2. Hooks!Ended /\ "lapse" \notin mishap => (Never(who, {"run"}) <=> Never(who, Results))
            BY <2>1 DEF TallySound, Hooks!Ended, Late
        <3>3. Hooks!Outcomes(who) = Hooks!Counted(who, Results)
            BY <2>1, OutcomesCounted
        <3> DEFINE n == Cardinality(Hooks!Counted(who, {"run"})) m == Cardinality(Hooks!Counted(who, Results))
        <3>4. n \in {0, 1} /\ m \in {0, 1} /\ (n = 0 <=> Never(who, {"run"})) /\ (m = 0 <=> Never(who, Results))
            BY <3>1, FewOnes
        <3>5. /\ Hooks!Cardinality(Hooks!Counted(who, {"run"})) = n
              /\ Hooks!Cardinality(Hooks!Outcomes(who)) = m
            BY <3>3, HooksCardinality
        <3> HIDE DEF n, m
        <3>6. n <= 1 /\ m <= 1
            BY <3>4
        <3>7. Hooks!Ended /\ "lapse" \notin mishap => m = n
            BY <3>2, <3>4
        <3> QED BY <3>5, <3>6, <3>7
    <2>4. Hooks!Counted("hook", {"compressed"}) # {} =>
            reply # None /\ \E x \in {reply.out, reply.err} \ {None} : x.form \in {"compressed", "twice"}
        BY <2>1 DEF TallySound, Never, Shrunk
    <2> QED BY <2>2, <2>3, <2>4 DEF Hooks!HookAccounts
<1>2. HooksPart => HookAccounts
    BY <1>1 DEF HooksPart, HookAccounts
<1> QED BY <1>2, HooksAlways, PTL

-----------------------------------------------------------------------------
(* MatchBudget: one match under a wall-clock budget.                         *)

\* A verdict is re's, or what RE2 may say for it.
Truthful ==
    /\ verdict \in {"match", "no_match"} =>
           verdict = Match!Verdict(hit) \/ (Match!Boundable /\ Match!Agrees(verdict))
    /\ verdict = "budget_exceeded" => clock >= Budget
    /\ statement \in {"disarm", "handler", "rearm", "set"} =>
           verdict \in {"match", "no_match", "budget_exceeded", "raised"}

\* The timer is the caller's: armed for its alarm, which is still to come, or expired with
\* the signal waiting for the handler.
TimerOfCaller ==
    /\ slip = 0
    /\ IF pending THEN timer = None /\ alarm # None
       ELSE timer = alarm /\ (timer # None => timer > clock)

\* The timer is ours: it expires when the budget has run out.
TimerOfOurs ==
    IF pending THEN timer = None /\ clock >= Budget
    ELSE timer # None /\ timer >= Budget

\* What was left of the caller's timer at some instant tells, but for the slip, when its
\* alarm is due.
Owed(instant) ==
    IF alarm = None THEN saved = 0 ELSE saved > 0 /\ alarm + slip = instant + saved

\* What each statement finds.
StatementSound ==
    /\ statement \in {"start", "install", "unbounded"} => handler = "caller" /\ TimerOfCaller
    /\ statement = "arm" => handler = "ours" /\ TimerOfCaller
    /\ statement = "clock" => handler = "ours" /\ TimerOfOurs /\ Owed(clock)
    /\ statement \in {"enter", "search", "except"} => handler = "ours" /\ TimerOfOurs /\ Owed(started)
    /\ statement = "disarm" => handler = "ours" /\ Owed(started)
    /\ statement = "handler" => handler = "ours" /\ Owed(started) /\ timer = None /\ ~pending
    /\ statement = "rearm" => handler = "caller" /\ Owed(started) /\ timer = None /\ ~pending
    /\ statement = "set" =>
        /\ handler = "caller" /\ timer = None /\ ~pending
        /\ alarm # None /\ alarm + slip = clock + restored
    /\ statement = "returned" => ~pending /\ Match!BudgetTransparent

MatchInv ==
    /\ {clock, saved, started, slip, work} \subseteq Nat /\ restored \in Int
    /\ {timer, alarm} \subseteq Nat \cup {None}
    /\ pending \in BOOLEAN
    /\ statement \in Match!Steps
    /\ Truthful
    /\ StatementSound

LEMMA MatchInit ==
    ASSUME Match!BudgetAssumption, Match!Init
    PROVE  MatchInv
<1>1. /\ clock = 0 /\ saved = 0 /\ started = 0 /\ restored = 0 /\ slip = 0 /\ work \in 0..LastTime
      /\ alarm \in {None} \cup 1..LastTime /\ timer = alarm /\ handler = "caller"
      /\ pending = FALSE /\ statement = "start" /\ verdict = None
    BY DEF Match!Init
<1>2. LastTime \in Nat /\ None \notin Nat
    BY DEF Match!BudgetAssumption
<1>3. /\ work \in Nat /\ alarm \in Nat \cup {None} /\ (alarm # None => alarm > 0)
    BY <1>1, <1>2
<1>4. TimerOfCaller
    BY <1>1, <1>3 DEF TimerOfCaller
<1>5. Truthful
    BY <1>1 DEF Truthful, Match!BudgetAssumption
<1>6. {timer, alarm} \subseteq Nat \cup {None} /\ {clock, saved, started, slip, work} \subseteq Nat /\ restored \in Int
    BY <1>1, <1>3
<1>7. StatementSound /\ statement \in Match!Steps
    BY <1>1, <1>4 DEF StatementSound, Match!Steps
<1>8. pending \in BOOLEAN
    BY <1>1
<1> QED BY <1>1, <1>5, <1>6, <1>7, <1>8 DEF MatchInv

\* Up to the search the caller's handler and timer are untouched but for our handler.
LEMMA MatchEnters ==
    ASSUME Match!BudgetAssumption, MatchInv, Match!Start \/ Match!Install \/ Match!Unbounded
    PROVE  MatchInv'
<1> USE DEF Match!BudgetAssumption, MatchInv, Match!settings
<1>1. CASE Match!Start
    <2>1. /\ handler = "caller" /\ TimerOfCaller /\ ~pending
          /\ UNCHANGED <<pattern, main, hit, clock, work, timer, handler, pending, saved, started, restored, slip, alarm>>
        BY <1>1 DEF Match!Start, StatementSound
    <2>2. CASE Match!Boundable
        <3>1. PICK said \in {"match", "no_match"} : Match!Agrees(said) /\ verdict' = said /\ statement' = "returned"
            BY <1>1, <2>2 DEF Match!Start
        <3>2. Match!Boundable' /\ Match!Agrees(verdict)'
            BY <2>1, <2>2, <3>1 DEF Match!Boundable, Match!Agrees
        <3>3. Truthful'
            BY <3>1, <3>2 DEF Truthful
        <3>4. Match!BudgetTransparent'
            BY <2>1, <3>1, <3>2 DEF Match!BudgetTransparent, TimerOfCaller
        <3> QED BY <2>1, <3>1, <3>3, <3>4 DEF Match!Steps, StatementSound
    <2>3. CASE ~Match!Boundable
        <3>1. statement' \in {"install", "unbounded"} /\ UNCHANGED verdict
            BY <1>1, <2>3 DEF Match!Start
        <3>2. Truthful' /\ TimerOfCaller'
            BY <2>1, <3>1 DEF Truthful, TimerOfCaller, Match!Boundable, Match!Agrees, Match!Verdict
        <3> QED BY <2>1, <3>1, <3>2 DEF Match!Steps, StatementSound
    <2> QED BY <2>2, <2>3
<1>2. CASE Match!Install
    BY <1>2 DEF Match!Install, Match!Steps, Truthful, TimerOfCaller, StatementSound, Match!Boundable,
       Match!Agrees, Match!Verdict
<1>3. CASE Match!Unbounded
    <2>1. /\ handler = "caller" /\ TimerOfCaller /\ ~pending
          /\ verdict' = Match!Verdict(hit) /\ statement' = "returned"
          /\ UNCHANGED <<pattern, main, hit, clock, work, timer, handler, pending, saved, started, restored, slip, alarm>>
        BY <1>3 DEF Match!Unbounded, StatementSound
    <2>2. verdict' = Match!Verdict(hit)' /\ verdict' \in {"match", "no_match"}
        BY <2>1 DEF Match!Verdict
    <2>3. Truthful' /\ Match!BudgetTransparent'
        BY <2>1, <2>2 DEF Truthful, Match!BudgetTransparent, TimerOfCaller
    <2> QED BY <2>1, <2>3 DEF Match!Steps, StatementSound
<1> QED BY <1>1, <1>2, <1>3

\* Our timer is armed over the caller's, and the clock read for it.
LEMMA MatchArms ==
    ASSUME Match!BudgetAssumption, MatchInv, Match!Arm \/ Match!Clock \/ Match!Enter
    PROVE  MatchInv'
<1> USE DEF Match!BudgetAssumption, MatchInv, Match!settings
<1>1. CASE Match!Arm
    <2>1. /\ timer = alarm /\ (timer # None => timer > clock) /\ handler = "ours" /\ ~pending /\ slip = 0
        BY <1>1 DEF Match!Arm, StatementSound, TimerOfCaller
    <2>2. /\ saved' = (IF alarm = None THEN 0 ELSE alarm - clock)
          /\ timer' = clock + Budget /\ statement' = "clock"
          /\ UNCHANGED <<pattern, main, hit, clock, work, handler, pending, started, restored, slip, alarm, verdict>>
        BY <1>1, <2>1 DEF Match!Arm
    <2>3. Owed(clock)' /\ TimerOfOurs' /\ {saved, timer}' \subseteq Nat
        BY <2>1, <2>2 DEF Owed, TimerOfOurs
    <2>4. Truthful'
        BY <2>2 DEF Truthful, Match!Verdict, Match!Boundable, Match!Agrees
    <2> QED BY <2>1, <2>2, <2>3, <2>4 DEF Match!Steps, StatementSound
<1>2. CASE Match!Clock
    BY <1>2 DEF Match!Clock, Match!Steps, Truthful, Match!Verdict, Match!Boundable, Match!Agrees, Owed,
       TimerOfOurs, StatementSound
<1>3. CASE Match!Enter
    BY <1>3 DEF Match!Enter, Match!Steps, Truthful, Match!Verdict, Match!Boundable, Match!Agrees, Owed,
       TimerOfOurs, StatementSound
<1> QED BY <1>1, <1>2, <1>3

LEMMA MatchSearches ==
    ASSUME Match!BudgetAssumption, MatchInv,
           Match!Search \/ Match!Except \/ Match!Disarm \/ Match!RestoreHandler
    PROVE  MatchInv'
<1> USE DEF Match!BudgetAssumption, MatchInv, Match!settings, Match!Verdict, Match!Boundable, Match!Agrees
<1>1. CASE Match!Search
    BY <1>1 DEF Match!Search, Match!Steps, Truthful, Owed, TimerOfOurs, StatementSound
<1>2. CASE Match!Except
    BY <1>2 DEF Match!Except, Match!Steps, Truthful, Owed, TimerOfOurs, StatementSound
<1>3. CASE Match!Disarm
    BY <1>3 DEF Match!Disarm, Match!Steps, Truthful, Owed, StatementSound
<1>4. CASE Match!RestoreHandler
    BY <1>4 DEF Match!RestoreHandler, Match!Steps, Truthful, Owed, StatementSound
<1> QED BY <1>1, <1>2, <1>3, <1>4

\* The caller's deadline is computed and armed again, or due at once.
LEMMA MatchRearms ==
    ASSUME Match!BudgetAssumption, MatchInv, Match!Rearm \/ Match!SetTimer
    PROVE  MatchInv'
<1> USE DEF Match!BudgetAssumption, MatchInv, Match!settings
<1>1. /\ statement \in {"rearm", "set"} /\ handler = "caller" /\ ~pending /\ timer = None
      /\ verdict \in {"match", "no_match", "budget_exceeded", "raised"}
      /\ UNCHANGED <<pattern, main, hit, clock, work, handler, pending, saved, started, slip, alarm, verdict>>
    BY DEF Match!Rearm, Match!SetTimer, StatementSound, Truthful
<1>2. Truthful'
    BY <1>1 DEF Truthful, Match!Verdict, Match!Boundable, Match!Agrees
<1>3. ASSUME Match!Leave,
             IF alarm = None THEN timer' = None
             ELSE timer' # None /\ alarm <= timer' /\ (timer' <= alarm + slip \/ timer' <= clock)
      PROVE  StatementSound' /\ statement' \in Match!Steps
    <2>1. CASE verdict = "raised"
        BY <1>3, <2>1 DEF Match!Leave, Match!Steps, StatementSound
    <2>2. CASE verdict # "raised"
        <3>1. statement' = "returned"
            BY <1>3, <2>2 DEF Match!Leave
        <3>2. verdict # "budget_exceeded" =>
                  verdict = Match!Verdict(hit) \/ (Match!Boundable /\ Match!Agrees(verdict))
            BY <1>1, <2>2 DEF Truthful
        <3>3. verdict' # "budget_exceeded" =>
                  verdict' = Match!Verdict(hit') \/ (Match!Boundable' /\ Match!Agrees(verdict)')
            BY <1>1, <3>2 DEF Match!Boundable, Match!Agrees, Match!Verdict
        <3>4. verdict' = "budget_exceeded" => clock' >= Budget
            BY <1>2 DEF Truthful
        <3>5. Match!BudgetTransparent'
            BY <1>1, <1>3, <3>3, <3>4 DEF Match!BudgetTransparent
        <3> QED BY <1>1, <3>1, <3>5 DEF Match!Steps, StatementSound
    <2> QED BY <2>1, <2>2
<1>4. CASE Match!Rearm
    <2>1. Owed(started)
        BY <1>4 DEF Match!Rearm, StatementSound
    <2>2. CASE saved = 0
        <3>1. Match!Leave /\ timer' = None /\ restored' = restored /\ alarm = None
            BY <1>1, <1>4, <2>1, <2>2 DEF Match!Rearm, Owed
        <3> QED BY <1>1, <1>2, <1>3, <3>1
    <2>3. CASE saved # 0
        <3>1. statement' = "set" /\ restored' = saved - (clock - started) /\ timer' = timer
            BY <1>4, <2>3 DEF Match!Rearm, Match!Left
        <3>2. alarm # None /\ alarm + slip = clock + restored' /\ restored' \in Int
            BY <2>1, <2>3, <3>1 DEF Owed
        <3> QED BY <1>1, <1>2, <3>1, <3>2 DEF Match!Steps, StatementSound
    <2> QED BY <2>2, <2>3
<1>5. CASE Match!SetTimer
    <2>1. alarm # None /\ alarm + slip = clock + restored
        BY <1>5 DEF Match!SetTimer, StatementSound
    <2>2. Match!Leave /\ restored' = restored /\ timer' = clock + (IF restored > 0 THEN restored ELSE 0)
        BY <1>5 DEF Match!SetTimer
    <2>3. timer' \in Nat /\ alarm <= timer' /\ (timer' <= alarm + slip \/ timer' <= clock)
        BY <2>1, <2>2
    <2>4. timer' # None
        BY <2>3
    <2> QED BY <1>1, <1>2, <1>3, <2>1, <2>2, <2>3, <2>4
<1> QED BY <1>4, <1>5

\* The signal of the budget ends the search; the signal of the caller is the caller's.
LEMMA MatchSignalled ==
    ASSUME Match!BudgetAssumption, MatchInv, Match!Signal
    PROVE  MatchInv'
<1> USE DEF Match!BudgetAssumption, MatchInv, Match!settings
<1>1. /\ pending /\ pending' = FALSE
      /\ UNCHANGED <<pattern, main, hit, clock, work, timer, handler, saved, started, restored, slip>>
    BY DEF Match!Signal
<1>2. CASE handler = "ours" /\ statement \in {"search", "except"}
    <2>1. verdict' \in {"budget_exceeded", "raised"} /\ statement' = "disarm" /\ UNCHANGED alarm
        BY <1>2 DEF Match!Signal, Match!Caught
    <2>2. Owed(started) /\ clock >= Budget
        BY <1>1, <1>2 DEF StatementSound, TimerOfOurs
    <2>3. Owed(started)' /\ Truthful'
        BY <1>1, <2>1, <2>2 DEF Owed, Truthful
    <2> QED BY <1>1, <1>2, <2>1, <2>3 DEF Match!Steps, StatementSound
<1>3. CASE handler = "ours" /\ statement \notin {"search", "except"}
    <2>1. statement' = "escaped" /\ UNCHANGED <<alarm, verdict>>
        BY <1>3 DEF Match!Signal, Match!Caught
    <2>2. Truthful'
        BY <1>1, <2>1 DEF Truthful, Match!Verdict, Match!Boundable, Match!Agrees
    <2> QED BY <1>1, <2>1, <2>2 DEF Match!Steps, StatementSound
<1>4. CASE handler # "ours"
    <2>1. alarm' = None /\ UNCHANGED <<statement, verdict>>
        BY <1>4 DEF Match!Signal
    <2>2. Truthful' /\ statement \in {"start", "install", "unbounded", "escaped"}
        BY <1>1, <1>4, <2>1 DEF Truthful, StatementSound, Match!Steps, Match!Verdict, Match!Boundable, Match!Agrees
    <2>3. CASE statement \in {"start", "install", "unbounded"}
        <3>1. handler = "caller" /\ timer = None /\ slip = 0
            BY <1>1, <2>3 DEF StatementSound, TimerOfCaller
        <3>2. TimerOfCaller'
            BY <1>1, <2>1, <3>1 DEF TimerOfCaller
        <3> QED BY <1>1, <2>1, <2>2, <2>3, <3>1, <3>2 DEF StatementSound
    <2>4. CASE statement = "escaped"
        BY <1>1, <2>1, <2>2, <2>4 DEF StatementSound
    <2> QED BY <2>2, <2>3, <2>4
<1> QED BY <1>2, <1>3, <1>4

\* Time passes, and an expired timer leaves its signal pending.
LEMMA MatchTicks ==
    ASSUME Match!BudgetAssumption, MatchInv, Match!Tick
    PROVE  MatchInv'
<1> USE DEF Match!BudgetAssumption, MatchInv, Match!settings
<1>1. /\ clock' = clock + 1 /\ ~pending /\ statement \notin {"returned", "escaped"}
      /\ pending' = (timer # None /\ clock' >= timer)
      /\ timer' = IF pending' THEN None ELSE timer
      /\ slip' = IF statement \in {"clock", "set"} THEN slip + 1 ELSE slip
      /\ UNCHANGED <<pattern, main, hit, handler, saved, started, restored, alarm, statement, verdict>>
    BY DEF Match!Tick
<1>2. work' \in Nat /\ clock' \in Nat /\ timer' \in Nat \cup {None} /\ pending' \in BOOLEAN /\ slip' \in Nat
    BY <1>1 DEF Match!Tick
<1>3. Truthful'
    BY <1>1, <1>2 DEF Truthful, Match!Verdict, Match!Boundable, Match!Agrees
<1>4. ASSUME TimerOfCaller, statement \notin {"clock", "set"} PROVE TimerOfCaller'
    <2>1. timer = alarm /\ slip' = 0
        BY <1>1, <1>4 DEF TimerOfCaller
    <2>2. CASE timer # None /\ clock' >= timer
        <3>1. pending' /\ timer' = None /\ alarm' # None
            BY <1>1, <2>1, <2>2
        <3> QED BY <2>1, <3>1 DEF TimerOfCaller
    <2>3. CASE ~(timer # None /\ clock' >= timer)
        <3>1. ~pending' /\ timer' = timer /\ alarm' = timer /\ (timer' # None => timer' > clock')
            BY <1>1, <1>2, <2>1, <2>3
        <3> QED BY <2>1, <3>1 DEF TimerOfCaller
    <2> QED BY <2>2, <2>3
<1>5. TimerOfOurs => TimerOfOurs'
    <2> SUFFICES ASSUME TimerOfOurs PROVE TimerOfOurs'
        OBVIOUS
    <2>1. timer # None /\ timer \in Nat /\ timer >= Budget
        BY <1>1 DEF TimerOfOurs
    <2>2. CASE clock' >= timer
        <3>1. pending' /\ timer' = None
            BY <1>1, <2>1, <2>2
        <3>2. clock' >= Budget
            BY <1>2, <2>1, <2>2
        <3> QED BY <3>1, <3>2 DEF TimerOfOurs
    <2>3. CASE ~(clock' >= timer)
        <3>1. ~pending' /\ timer' = timer
            BY <1>1, <2>3
        <3> QED BY <2>1, <3>1 DEF TimerOfOurs
    <2> QED BY <2>2, <2>3
<1>6. statement = "clock" => (Owed(clock) => Owed(clock)')
    BY <1>1 DEF Owed
<1>7. statement # "clock" /\ statement # "set" => (Owed(started) => Owed(started)')
    BY <1>1 DEF Owed
<1>8. statement = "set" => alarm' # None /\ alarm' + slip' = clock' + restored'
    BY <1>1 DEF StatementSound
<1>9. timer = None => timer' = None /\ ~pending'
    BY <1>1
<1> QED BY <1>1, <1>2, <1>3, <1>4, <1>5, <1>6, <1>7, <1>8, <1>9 DEF StatementSound

LEMMA MatchStep ==
    ASSUME Match!BudgetAssumption, MatchInv, [Match!Next]_(Match!vars)
    PROVE  MatchInv'
<1>1. CASE UNCHANGED Match!vars
    <2>1. Match!BudgetTransparent => Match!BudgetTransparent'
        BY <1>1 DEF Match!vars, Match!BudgetTransparent, Match!Verdict, Match!Boundable, Match!Agrees
    <2>2. Truthful'
        BY <1>1 DEF Match!vars, MatchInv, Truthful, Match!Verdict, Match!Boundable, Match!Agrees
    <2>3. StatementSound'
        BY <1>1, <2>1 DEF Match!vars, MatchInv, TimerOfCaller, TimerOfOurs, Owed, StatementSound
    <2> QED BY <1>1, <2>2, <2>3 DEF Match!vars, MatchInv
<1> QED BY <1>1, MatchEnters, MatchArms, MatchSearches, MatchRearms, MatchSignalled, MatchTicks DEF Match!Next

MatchPart == part = "match" => MatchInv

\* For any budget, clock, pattern, thread and alarm of the caller: a match that returns leaves
\* the caller's handler and its alarm due when it was, but for the time that passes between a
\* timer call and the clock reading beside it, wherever signals land between its statements;
\* and its verdict is re's, or RE2's where the two differ.
THEOREM BudgetAlwaysTransparent ==
    Spec => []BudgetTransparent
<1>1. Init => MatchPart
    BY MatchInit, CallsAssumption DEF Init, MatchPart
<1>2. MatchPart /\ [Next]_vars => MatchPart'
    <2> SUFFICES ASSUME MatchPart, [Next]_vars, part' = "match" PROVE MatchInv'
        BY DEF MatchPart
    <2>1. CASE Next
        <3>1. MatchInv /\ Match!Next
            BY <2>1 DEF Next, MatchPart
        <3> QED BY <3>1, MatchStep, CallsAssumption
    <2>2. CASE UNCHANGED vars
        <3>1. UNCHANGED part /\ UNCHANGED matchVars
            BY <2>2 DEF vars
        <3>2. MatchInv /\ UNCHANGED Match!vars
            BY <3>1 DEF MatchPart, matchVars, Match!vars
        <3> QED BY <3>2, MatchStep, CallsAssumption
    <2> QED BY <2>1, <2>2
<1>3. MatchPart => BudgetTransparent
    <2>1. ASSUME MatchInv PROVE Match!BudgetTransparent
        BY <2>1 DEF MatchInv, StatementSound, Match!BudgetTransparent
    <2> QED BY <2>1 DEF MatchPart, BudgetTransparent
<1> QED BY <1>1, <1>2, <1>3, PTL DEF Spec

-----------------------------------------------------------------------------
(* One content in the engine: the split of its lines *)

\* What the split makes of the lines from i on, given what it makes of those after.
SplitFrom(f, i) ==
    IF i > Len(lines) THEN <<>>
    ELSE LET s == Engine!Piece(i)[1] IN
         (IF s.kind = "text" /\ Engine!Tokens(s.from, s.to) = 0 THEN <<>> ELSE <<s>>) \o f[Engine!Piece(i)[2]]

LEMMA SplitIsOne ==
    ASSUME NEW f, f = [i \in 1..(Len(lines) + 2) |-> SplitFrom(f, i)]
    PROVE  \E c : c = [i \in 1..(Len(lines) + 2) |-> SplitFrom(c, i)] /\ Engine!Split = c[1]
<1>. DEFINE c == CHOOSE g : g = [i \in 1..(Len(lines) + 2) |-> SplitFrom(g, i)]
<1>1. c = [i \in 1..(Len(lines) + 2) |-> SplitFrom(c, i)]
  OBVIOUS
<1>2. Engine!Split = c[1]
  BY DEF Engine!Split, SplitFrom
<1>. QED
  BY <1>1, <1>2

LEMMA LeastOfNats ==
    ASSUME NEW S \in SUBSET Nat, NEW d
    PROVE  /\ S = {} => Engine!Least(S, d) = d
           /\ S # {} => Engine!Least(S, d) \in S /\ \A y \in S : Engine!Least(S, d) <= y
<1>1. ASSUME S # {}
      PROVE  Engine!Min(S) \in S /\ \A y \in S : Engine!Min(S) <= y
  <2>1. PICK x \in S : \A y \in S : ~(<<y, x>> \in OpToRel(<, Nat))
    BY <1>1, WFMin, NatLessThanWellFounded
  <2>2. ASSUME NEW y \in S
        PROVE  x <= y
    <3>1. y \in Nat /\ x \in Nat
      OBVIOUS
    <3>2. y < x => <<y, x>> \in OpToRel(<, Nat)
      BY <3>1 DEF OpToRel
    <3>3. ~(y < x)
      BY <2>1, <3>2
    <3>. QED
      BY <3>1, <3>3
  <2>. QED
    BY <2>2 DEF Engine!Min
<1>. QED
  BY <1>1 DEF Engine!Least

\* A property of the last position that each position has when the later ones do holds of all.
LEMMA Downwards ==
    ASSUME NEW n \in Nat, NEW S, \A k \in 1..n : (\A j \in (k + 1)..n : j \in S) => k \in S
    PROVE  \A k \in 1..n : k \in S
<1>. DEFINE T == {d \in 0..n : d < n /\ n - d \notin S}
<1>. SUFFICES ASSUME T # {}
     PROVE  FALSE
  <2>1. ASSUME NEW k \in 1..n, k \notin S
        PROVE  n - k \in T
    BY <2>1
  <2>. QED
    BY <2>1
<1>1. PICK d \in T : \A e \in T : d <= e
  <2>1. T \in SUBSET Nat
    OBVIOUS
  <2>2. Engine!Least(T, 0) \in T /\ \A e \in T : Engine!Least(T, 0) <= e
    BY <2>1, LeastOfNats
  <2>. QED
    BY <2>2
<1>2. \A j \in (n - d + 1)..n : j \in S
  <2>. SUFFICES ASSUME NEW j \in (n - d + 1)..n, j \notin S
       PROVE  FALSE
    OBVIOUS
  <2>1. n - j \in T /\ n - j < d
    OBVIOUS
  <2>. QED
    BY <1>1, <2>1
<1>3. n - d \in 1..n /\ n - d \notin S
  OBVIOUS
<1>. QED
  BY <1>2, <1>3

LEMMA Upwards ==
    ASSUME NEW n \in Nat, NEW S, 0 \in S, \A k \in 0..n : k < n /\ k \in S => k + 1 \in S
    PROVE  \A k \in 0..n : k \in S
<1>. DEFINE T == {k \in 0..n : k \notin S}
<1>. SUFFICES ASSUME T # {}
     PROVE  FALSE
  OBVIOUS
<1>1. PICK k \in T : \A e \in T : k <= e
  <2>1. T \in SUBSET Nat
    OBVIOUS
  <2>2. Engine!Least(T, 0) \in T /\ \A e \in T : Engine!Least(T, 0) <= e
    BY <2>1, LeastOfNats
  <2>. QED
    BY <2>2
<1>2. k # 0 /\ k - 1 \in 0..n /\ k - 1 < n
  OBVIOUS
<1>3. k - 1 \in S
  BY <1>1, <1>2
<1>4. k - 1 + 1 = k
  OBVIOUS
<1>. QED
  BY <1>2, <1>3, <1>4

\* The content is lines, at most MaxLines of them.
LEMMA LinesFit ==
    ASSUME Engine!EngineAssumption, lines \in Contents
    PROVE  /\ lines \in Seq(Engine!Lines) /\ Len(lines) \in Nat /\ DOMAIN lines = 1..Len(lines)
           /\ MaxLines \in Nat /\ Len(lines) <= MaxLines
<1>1. MaxLines \in Nat /\ lines \in UNION {[1..m -> Engine!Lines] : m \in 0..MaxLines}
  BY DEF Engine!EngineAssumption, Engine!BoundedSeq, Engine!SeqOf
<1>2. PICK m \in 0..MaxLines : lines \in [1..m -> Engine!Lines]
  BY <1>1
<1>3. m \in Nat /\ lines \in Seq(Engine!Lines) /\ Len(lines) = m
  BY <1>1, <1>2
<1>. QED
  BY <1>1, <1>2, <1>3

\* s begins at line i or after it and holds the lines before next, fences apart.
Reaches(i, s, next) ==
    /\ s \in Engine!Sections
    /\ next \in 1..(Len(lines) + 2) /\ i < next
    /\ i <= s.from /\ s.to < next /\ s.to <= Len(lines)
    /\ \A j \in i..Len(lines) : j < next /\ lines[j] # "fence" => j \in s.from..s.to

LEMMA SectionReaches ==
    ASSUME MaxLines \in Nat, Len(lines) \in Nat, Len(lines) <= MaxLines,
           NEW i \in 1..Len(lines), NEW from \in 1..(Len(lines) + 1), NEW to \in 1..Len(lines),
           NEW next \in 1..(Len(lines) + 2), NEW what \in Engine!Kinds, NEW fenced \in BOOLEAN,
           i < next, i <= from, to < next,
           \A j \in i..Len(lines) : j < next /\ lines[j] # "fence" => j \in from..to
    PROVE  Reaches(i, Engine!Section(from, to, what, fenced), next)
<1>1. from \in 1..(MaxLines + 1) /\ to \in 0..MaxLines
  OBVIOUS
<1>2. Engine!Section(from, to, what, fenced) \in Engine!Sections
  BY <1>1 DEF Engine!Section, Engine!Sections
<1>. QED
  BY <1>2 DEF Reaches, Engine!Section

LEMMA FenceReaches ==
    ASSUME Engine!EngineAssumption, lines \in Contents, NEW i \in 1..Len(lines), lines[i] = "fence"
    PROVE  Reaches(i, Engine!Fence(i)[1], Engine!Fence(i)[2])
<1>. DEFINE L == Len(lines)
            S == {j \in (i + 1)..L : lines[j] = "fence"}
<1>1. L \in Nat /\ MaxLines \in Nat /\ L <= MaxLines
  BY LinesFit
<1>2. PICK e : e = Engine!Least(S, L + 1)
  OBVIOUS
<1>3. e \in (i + 1)..(L + 1) /\ (\A j \in S : e <= j) /\ (e <= L => lines[e] = "fence")
  <2>1. S \in SUBSET Nat
    BY <1>1
  <2>2. S = {} => e = L + 1
    BY <2>1, <1>2, LeastOfNats
  <2>3. S # {} => e \in S /\ \A j \in S : e <= j
    BY <2>1, <1>2, LeastOfNats
  <2>. QED
    BY <1>1, <2>2, <2>3
<1>4. Engine!Fence(i) = <<Engine!Section(i + 1, e - 1, "code", TRUE), e + 1>>
  BY <1>2 DEF Engine!Fence
<1>5. \A j \in i..L : j < e + 1 /\ lines[j] # "fence" => j \in (i + 1)..(e - 1)
  BY <1>1, <1>3
<1>6. Reaches(i, Engine!Section(i + 1, e - 1, "code", TRUE), e + 1)
  <2>1. i + 1 \in 1..(L + 1) /\ e - 1 \in 1..L /\ e + 1 \in 1..(L + 2) /\ i < e + 1 /\ i <= i + 1 /\ e - 1 < e + 1
    BY <1>1, <1>3
  <2>2. "code" \in Engine!Kinds
    BY DEF Engine!Kinds
  <2>. QED
    BY <1>1, <1>5, <2>1, <2>2, SectionReaches
<1>7. Engine!Fence(i)[1] = Engine!Section(i + 1, e - 1, "code", TRUE) /\ Engine!Fence(i)[2] = e + 1
  BY <1>4
<1>. QED
  BY <1>6, <1>7

LEMMA SearchReaches ==
    ASSUME Engine!EngineAssumption, lines \in Contents, NEW i \in 1..Len(lines), lines[i] = "search"
    PROVE  Reaches(i, Engine!Search(i)[1], Engine!Search(i)[2])
<1>. DEFINE L == Len(lines)
            S == {j \in i..L : lines[j] # "search"}
<1>1. L \in Nat /\ MaxLines \in Nat /\ L <= MaxLines
  BY LinesFit
<1>2. PICK e : e = Engine!Least(S, L + 1)
  OBVIOUS
<1>3. e \in (i + 1)..(L + 1)
  <2>1. S \in SUBSET Nat /\ i \notin S
    BY <1>1
  <2>2. S = {} => e = L + 1
    BY <2>1, <1>2, LeastOfNats
  <2>3. S # {} => e \in S
    BY <2>1, <1>2, LeastOfNats
  <2>. QED
    BY <1>1, <2>1, <2>2, <2>3
<1>4. Engine!Search(i) = <<Engine!Section(i, e - 1, "search", FALSE), e>>
  BY <1>2 DEF Engine!Search
<1>5. \A j \in i..L : j < e /\ lines[j] # "fence" => j \in i..(e - 1)
  BY <1>1, <1>3
<1>6. Reaches(i, Engine!Section(i, e - 1, "search", FALSE), e)
  <2>1. i \in 1..(L + 1) /\ e - 1 \in 1..L /\ e \in 1..(L + 2) /\ i < e /\ i <= i /\ e - 1 < e
    BY <1>1, <1>3
  <2>2. "search" \in Engine!Kinds
    BY DEF Engine!Kinds
  <2>. QED
    BY <1>1, <1>5, <2>1, <2>2, SectionReaches
<1>7. Engine!Search(i)[1] = Engine!Section(i, e - 1, "search", FALSE) /\ Engine!Search(i)[2] = e
  BY <1>4
<1>. QED
  BY <1>6, <1>7

LEMMA ProseReaches ==
    ASSUME Engine!EngineAssumption, lines \in Contents, NEW i \in 1..Len(lines)
    PROVE  Reaches(i, Engine!Prose(i)[1], Engine!Prose(i)[2])
<1>. DEFINE L == Len(lines)
            S == {j \in (i + 1)..L : Engine!Special(j)}
<1>1. L \in Nat /\ MaxLines \in Nat /\ L <= MaxLines
  BY LinesFit
<1>2. PICK e : e = Engine!Least(S, L + 1)
  OBVIOUS
<1>3. e \in (i + 1)..(L + 1)
  <2>1. S \in SUBSET Nat
    BY <1>1
  <2>2. S = {} => e = L + 1
    BY <2>1, <1>2, LeastOfNats
  <2>3. S # {} => e \in S
    BY <2>1, <1>2, LeastOfNats
  <2>. QED
    BY <1>1, <2>2, <2>3
<1>4. Engine!Prose(i) = <<Engine!Section(i, e - 1, "text", FALSE), e>>
  BY <1>2 DEF Engine!Prose
<1>5. \A j \in i..L : j < e /\ lines[j] # "fence" => j \in i..(e - 1)
  BY <1>1, <1>3
<1>6. Reaches(i, Engine!Section(i, e - 1, "text", FALSE), e)
  <2>1. i \in 1..(L + 1) /\ e - 1 \in 1..L /\ e \in 1..(L + 2) /\ i < e /\ i <= i /\ e - 1 < e
    BY <1>1, <1>3
  <2>2. "text" \in Engine!Kinds
    BY DEF Engine!Kinds
  <2>. QED
    BY <1>1, <1>5, <2>1, <2>2, SectionReaches
<1>7. Engine!Prose(i)[1] = Engine!Section(i, e - 1, "text", FALSE) /\ Engine!Prose(i)[2] = e
  BY <1>4
<1>. QED
  BY <1>6, <1>7

\* A section starts at its line or after it, and the next piece after the section; the lines
\* between the two starts that the section leaves out are fences.
LEMMA PieceReaches ==
    ASSUME Engine!EngineAssumption, lines \in Contents, NEW i \in 1..Len(lines)
    PROVE  Reaches(i, Engine!Piece(i)[1], Engine!Piece(i)[2])
<1>. DEFINE L == Len(lines)
            b == Engine!BlockEnd(i)
<1>1. L \in Nat /\ MaxLines \in Nat /\ L <= MaxLines
  BY LinesFit
<1>2. CASE lines[i] = "fence"
  <2>1. Engine!Piece(i) = Engine!Fence(i)
    BY <1>2 DEF Engine!Piece, Engine!StartsJson
  <2>. QED
    BY <1>2, <2>1, FenceReaches
<1>3. CASE lines[i] # "fence" /\ Engine!StartsJson(i) /\ b # 0
  <2>1. b \in i..L
    <3>. DEFINE S == {j \in i..L : Engine!Depth(i, j)[1] <= Engine!Depth(i, j)[2]}
    <3>1. S \in SUBSET Nat
      BY <1>1
    <3>2. b = Engine!Least(S, 0)
      BY DEF Engine!BlockEnd
    <3>3. S # {}
      BY <3>1, <3>2, <1>3, LeastOfNats
    <3>4. Engine!Least(S, 0) \in S
      BY <3>1, <3>3, LeastOfNats
    <3>. QED
      BY <3>2, <3>4
  <2>2. Engine!Piece(i) = <<Engine!Section(i, b, "json", FALSE), b + 1>>
    BY <1>3 DEF Engine!Piece, Engine!StartsJson
  <2>3. i \in 1..(L + 1) /\ b \in 1..L /\ b + 1 \in 1..(L + 2) /\ i < b + 1 /\ i <= i /\ b < b + 1
    BY <1>1, <2>1
  <2>4. "json" \in Engine!Kinds
    BY DEF Engine!Kinds
  <2>5. \A j \in i..L : j < b + 1 /\ lines[j] # "fence" => j \in i..b
    BY <1>1, <2>1
  <2>6. Reaches(i, Engine!Section(i, b, "json", FALSE), b + 1)
    <3>. HIDE DEF b
    <3>. QED
      BY <1>1, <2>3, <2>4, <2>5, SectionReaches
  <2>7. Engine!Piece(i)[1] = Engine!Section(i, b, "json", FALSE) /\ Engine!Piece(i)[2] = b + 1
    BY <2>2
  <2>. QED
    BY <2>6, <2>7
<1>4. CASE lines[i] = "search"
  <2>1. Engine!Piece(i) = Engine!Search(i)
    BY <1>4 DEF Engine!Piece, Engine!StartsJson
  <2>. QED
    BY <1>4, <2>1, SearchReaches
<1>5. CASE lines[i] # "fence" /\ ~(Engine!StartsJson(i) /\ b # 0) /\ lines[i] # "search"
  <2>1. Engine!Piece(i) = Engine!Prose(i)
    BY <1>5 DEF Engine!Piece, Engine!StartsJson
  <2>. QED
    BY <2>1, ProseReaches
<1>. QED
  BY <1>2, <1>3, <1>4, <1>5

-----------------------------------------------------------------------------
(* The sections of a content *)

\* The instance counts as this module does.
LEMMA EngineCardinality == \A S : Engine!Cardinality(S) = Cardinality(S)
BY DEF Cardinality, Engine!Cardinality

\* The lines of a range that are not blank.
Said(from, to) == {i \in from..to : lines[i] # "blank"}

LEMMA TokensCount ==
    ASSUME NEW from \in Int, NEW to \in Int
    PROVE  /\ IsFiniteSet(Said(from, to)) /\ Engine!Tokens(from, to) = Cardinality(Said(from, to))
           /\ Engine!Tokens(from, to) \in Nat
           /\ Engine!Tokens(from, to) = 0 => Said(from, to) = {}
<1>1. IsFiniteSet(from..to)
  BY FS_Interval
<1>2. Said(from, to) \in SUBSET (from..to)
  BY DEF Said
<1>3. IsFiniteSet(Said(from, to))
  BY <1>1, <1>2, FS_Subset
<1>4. Engine!Tokens(from, to) = Cardinality(Said(from, to))
  BY EngineCardinality DEF Engine!Tokens, Said
<1>. QED
  BY <1>3, <1>4, FS_CardinalityType, FS_EmptySet

LEMMA SectionsNumbered ==
    ASSUME NEW q \in Seq(Engine!Sections)
    PROVE  \A n \in DOMAIN q : q[n] \in Engine!Sections /\ q[n].from \in Int /\ q[n].to \in Int
<1>1. \A s \in Engine!Sections : s.from \in Int /\ s.to \in Int
  BY DEF Engine!Sections
<1>2. \A n \in DOMAIN q : q[n] \in Engine!Sections
  OBVIOUS
<1>. QED
  BY <1>1, <1>2

\* Each section ends before the later ones begin.
Apart(q) == \A m, n \in DOMAIN q : m < n => q[m].to < q[n].from

\* The sections between two lines.
Between(q, i, last) == \A n \in DOMAIN q : i <= q[n].from /\ q[n].to <= last

\* The sections hold line j.
Holds(q, j) == \E n \in DOMAIN q : j \in q[n].from..q[n].to

\* q is the lines from i on: in order, and each that says something is in one of them.
Splits(q, i) ==
    /\ q \in Seq(Engine!Sections)
    /\ Apart(q) /\ Between(q, i, Len(lines))
    /\ \A j \in i..Len(lines) : lines[j] \notin {"blank", "fence"} => Holds(q, j)

LEMMA ConsPlaces ==
    ASSUME NEW S, NEW s \in S, NEW rest \in Seq(S)
    PROVE  /\ <<s>> \o rest \in Seq(S) /\ (<<s>> \o rest)[1] = s
           /\ DOMAIN (<<s>> \o rest) = 1..(Len(rest) + 1)
           /\ \A n \in 1..Len(rest) : (<<s>> \o rest)[n + 1] = rest[n]
           /\ \A n \in 2..(Len(rest) + 1) : (<<s>> \o rest)[n] = rest[n - 1]
<1>. DEFINE q == <<s>> \o rest
<1>1. <<s>> \in Seq(S) /\ Len(<<s>>) = 1 /\ <<s>>[1] = s /\ Len(rest) \in Nat
  OBVIOUS
<1>2. q \in Seq(S) /\ Len(q) = Len(rest) + 1
  BY <1>1
<1>3. q[1] = s
  BY <1>1
<1>4. \A n \in 1..Len(rest) : q[n + 1] = rest[n]
  BY <1>1
<1>5. \A n \in 2..(Len(rest) + 1) : n - 1 \in 1..Len(rest) /\ n - 1 + 1 = n
  BY <1>1
<1>6. \A n \in 2..(Len(rest) + 1) : q[n] = rest[n - 1]
  BY <1>4, <1>5
<1>7. DOMAIN q = 1..(Len(rest) + 1)
  BY <1>2
<1>. QED
  BY <1>2, <1>3, <1>4, <1>6, <1>7

LEMMA ConsSplits ==
    ASSUME Len(lines) \in Nat, NEW i \in 1..Len(lines), NEW s, NEW next, Reaches(i, s, next),
           NEW rest, Splits(rest, next)
    PROVE  Splits(<<s>> \o rest, i)
<1>. DEFINE L == Len(lines)
            q == <<s>> \o rest
<1>1. s \in Engine!Sections /\ rest \in Seq(Engine!Sections) /\ Len(rest) \in Nat
  BY DEF Reaches, Splits
<1>2. /\ q \in Seq(Engine!Sections) /\ q[1] = s /\ DOMAIN q = 1..(Len(rest) + 1)
      /\ \A n \in 1..Len(rest) : q[n + 1] = rest[n]
      /\ \A n \in 2..(Len(rest) + 1) : q[n] = rest[n - 1]
  BY <1>1, ConsPlaces
<1>. HIDE DEF q
<1>3. next \in Int /\ i < next /\ i <= s.from /\ s.to < next /\ s.to <= L /\ s.from \in Int /\ s.to \in Int
  BY <1>1 DEF Reaches, Engine!Sections
<1>4. \A n \in 1..Len(rest) : next <= rest[n].from /\ rest[n].to <= L /\ rest[n].from \in Int
  <2>1. \A n \in DOMAIN rest : next <= rest[n].from /\ rest[n].to <= L
    BY DEF Splits, Between
  <2>2. \A n \in 1..Len(rest) : n \in DOMAIN rest
    BY <1>1
  <2>3. \A n \in DOMAIN rest : rest[n].from \in Int
    BY <1>1, SectionsNumbered
  <2>. QED
    BY <2>1, <2>2, <2>3
<1>5. \A n \in 2..(Len(rest) + 1) : n - 1 \in 1..Len(rest)
  BY <1>1
<1>6. Between(q, i, L)
  <2>. SUFFICES ASSUME NEW n \in DOMAIN q
       PROVE  i <= q[n].from /\ q[n].to <= L
    BY DEF Between
  <2>1. CASE n = 1
    BY <2>1, <1>2, <1>3
  <2>2. CASE n \in 2..(Len(rest) + 1)
    <3>1. q[n] = rest[n - 1] /\ n - 1 \in 1..Len(rest)
      BY <2>2, <1>2, <1>5
    <3>2. next <= rest[n - 1].from /\ rest[n - 1].to <= L /\ rest[n - 1].from \in Int
      BY <3>1, <1>4
    <3>. QED
      BY <3>1, <3>2, <1>3
  <2>. QED
    BY <2>1, <2>2, <1>1, <1>2
<1>7. Apart(q)
  <2>. SUFFICES ASSUME NEW m \in DOMAIN q, NEW n \in DOMAIN q, m < n
       PROVE  q[m].to < q[n].from
    BY DEF Apart
  <2>1. n \in 2..(Len(rest) + 1)
    BY <1>1, <1>2
  <2>2. q[n] = rest[n - 1] /\ n - 1 \in 1..Len(rest)
    BY <2>1, <1>2, <1>5
  <2>3. CASE m = 1
    <3>1. next <= rest[n - 1].from /\ rest[n - 1].from \in Int
      BY <2>2, <1>4
    <3>. QED
      BY <2>2, <2>3, <3>1, <1>2, <1>3
  <2>4. CASE m \in 2..(Len(rest) + 1)
    <3>1. q[m] = rest[m - 1] /\ m - 1 \in 1..Len(rest)
      BY <2>4, <1>2, <1>5
    <3>2. m - 1 < n - 1
      BY <2>1, <2>4
    <3>3. rest[m - 1].to < rest[n - 1].from
      BY <1>1, <2>2, <3>1, <3>2 DEF Splits, Apart
    <3>. QED
      BY <2>2, <3>1, <3>3
  <2>. QED
    BY <2>3, <2>4, <1>1, <1>2
<1>8. ASSUME NEW j \in i..L, lines[j] \notin {"blank", "fence"}
      PROVE  Holds(q, j)
  <2>1. CASE j < next
    <3>1. j \in s.from..s.to
      BY <1>8, <2>1 DEF Reaches
    <3>2. 1 \in DOMAIN q
      BY <1>1, <1>2
    <3>. QED
      BY <3>1, <3>2, <1>2 DEF Holds
  <2>2. CASE ~(j < next)
    <3>1. j \in next..L
      BY <2>2, <1>3
    <3>2. PICK n \in DOMAIN rest : j \in rest[n].from..rest[n].to
      BY <3>1, <1>8 DEF Splits, Holds
    <3>3. n \in 1..Len(rest) /\ n + 1 \in DOMAIN q
      BY <1>1, <1>2
    <3>4. q[n + 1] = rest[n]
      BY <3>3, <1>2
    <3>. QED
      BY <3>2, <3>3, <3>4 DEF Holds
  <2>. QED
    BY <2>1, <2>2
<1>9. Splits(q, i)
  BY <1>2, <1>6, <1>7, <1>8 DEF Splits
<1>. QED
  BY <1>9 DEF q

\* A section with nothing to say can be left out.
LEMMA SkipSplits ==
    ASSUME Len(lines) \in Nat, NEW i \in 1..Len(lines), NEW s, NEW next, Reaches(i, s, next),
           NEW rest, Splits(rest, next), Engine!Tokens(s.from, s.to) = 0
    PROVE  Splits(rest, i)
<1>. DEFINE L == Len(lines)
<1>1. s.from \in Int /\ s.to \in Int /\ next \in Int /\ i < next
  BY DEF Reaches, Engine!Sections
<1>2. Said(s.from, s.to) = {}
  BY <1>1, TokensCount
<1>3. \A n \in DOMAIN rest : i <= rest[n].from /\ rest[n].to <= L
  <2>1. \A n \in DOMAIN rest : next <= rest[n].from /\ rest[n].to <= L
    BY DEF Splits, Between
  <2>2. \A n \in DOMAIN rest : rest[n].from \in Int
    BY SectionsNumbered DEF Splits
  <2>. QED
    BY <1>1, <2>1, <2>2
<1>4. \A j \in i..L : lines[j] \notin {"blank", "fence"} => Holds(rest, j)
  <2>. SUFFICES ASSUME NEW j \in i..L, lines[j] \notin {"blank", "fence"}
       PROVE  Holds(rest, j)
    OBVIOUS
  <2>1. ~(j < next)
    <3>. SUFFICES ASSUME j < next
         PROVE  FALSE
      OBVIOUS
    <3>1. j \in s.from..s.to
      BY DEF Reaches
    <3>. QED
      BY <3>1, <1>2 DEF Said
  <2>2. j \in next..L
    BY <2>1, <1>1
  <2>. QED
    BY <2>2 DEF Splits
<1>. QED
  BY <1>3, <1>4 DEF Splits, Between

\* One step of the split.
LEMMA SplitFromSplits ==
    ASSUME Engine!EngineAssumption, lines \in Contents, NEW i \in 1..(Len(lines) + 2), NEW f,
           i <= Len(lines) => Splits(f[Engine!Piece(i)[2]], Engine!Piece(i)[2])
    PROVE  Splits(SplitFrom(f, i), i)
<1>1. Len(lines) \in Nat
  BY LinesFit
<1>2. CASE i > Len(lines)
  <2>1. SplitFrom(f, i) = <<>>
    BY <1>2 DEF SplitFrom
  <2>2. \A j \in i..Len(lines) : FALSE
    BY <1>1, <1>2
  <2>. QED
    BY <2>1, <2>2 DEF Splits, Apart, Between
<1>3. CASE i <= Len(lines)
  <2>1. i \in 1..Len(lines) /\ ~(i > Len(lines))
    BY <1>1, <1>3
  <2>2. PICK s, next : s = Engine!Piece(i)[1] /\ next = Engine!Piece(i)[2]
    OBVIOUS
  <2>3. Reaches(i, s, next)
    BY <2>1, <2>2, PieceReaches
  <2>4. PICK rest : rest = f[next]
    OBVIOUS
  <2>5. Splits(rest, next)
    BY <1>3, <2>2, <2>4
  <2>6. SplitFrom(f, i) =
            (IF s.kind = "text" /\ Engine!Tokens(s.from, s.to) = 0 THEN <<>> ELSE <<s>>) \o rest
    BY <2>1, <2>2, <2>4 DEF SplitFrom
  <2>7. CASE s.kind = "text" /\ Engine!Tokens(s.from, s.to) = 0
    <3>1. SplitFrom(f, i) = <<>> \o rest /\ rest \in Seq(Engine!Sections)
      BY <2>5, <2>6, <2>7 DEF Splits
    <3>2. <<>> \o rest = rest
      BY <3>1
    <3>. QED
      BY <3>1, <3>2, <1>1, <2>1, <2>3, <2>5, <2>7, SkipSplits
  <2>8. CASE ~(s.kind = "text" /\ Engine!Tokens(s.from, s.to) = 0)
    <3>1. SplitFrom(f, i) = <<s>> \o rest
      BY <2>6, <2>8
    <3>2. Splits(<<s>> \o rest, i)
      BY <1>1, <2>1, <2>3, <2>5, ConsSplits
    <3>. QED
      BY <3>1, <3>2
  <2>. QED
    BY <2>7, <2>8
<1>. QED
  BY <1>1, <1>2, <1>3

\* The split is a function of where it starts.
LEMMA SplitExists ==
    ASSUME Engine!EngineAssumption, lines \in Contents
    PROVE  \E c : c = [i \in 1..(Len(lines) + 2) |-> SplitFrom(c, i)] /\ Engine!Split = c[1]
<1>. DEFINE N == Len(lines) + 2
            S == {k \in 1..N : \E f : f = [i \in k..N |-> SplitFrom(f, i)]}
<1>1. Len(lines) \in Nat /\ N \in Nat /\ 1 \in 1..N
  BY LinesFit
<1>2. ASSUME NEW k \in 1..N, \A j \in (k + 1)..N : j \in S
      PROVE  k \in S
  <2>1. PICK f : k + 1 <= N => f = [i \in (k + 1)..N |-> SplitFrom(f, i)]
    <3>1. CASE k + 1 <= N
      <4>1. k + 1 \in S
        BY <1>1, <1>2, <3>1
      <4>. QED
        BY <4>1
    <3>. QED
      BY <3>1
  <2>. DEFINE g == [i \in k..N |-> IF i = k THEN SplitFrom(f, k) ELSE f[i]]
  <2>2. ASSUME NEW i \in k..N
        PROVE  SplitFrom(g, i) = SplitFrom(f, i)
    <3>1. CASE i > Len(lines)
      BY <3>1 DEF SplitFrom
    <3>2. CASE ~(i > Len(lines))
      <4>1. i \in 1..Len(lines)
        BY <1>1, <3>2
      <4>2. PICK next : next = Engine!Piece(i)[2]
        OBVIOUS
      <4>3. next \in 1..N /\ i < next
        BY <4>1, <4>2, PieceReaches DEF Reaches
      <4>4. next \in k..N /\ next # k
        BY <1>1, <4>3
      <4>5. g[next] = f[next]
        BY <4>4
      <4>. HIDE DEF g
      <4>. QED
        BY <4>2, <4>5 DEF SplitFrom
    <3>. QED
      BY <3>1, <3>2
  <2>3. ASSUME NEW i \in k..N
        PROVE  g[i] = SplitFrom(f, i)
    <3>1. CASE i = k
      BY <3>1
    <3>2. CASE i # k
      <4>1. k + 1 <= N /\ i \in (k + 1)..N
        BY <1>1, <3>2
      <4>2. f = [x \in (k + 1)..N |-> SplitFrom(f, x)]
        BY <2>1, <4>1
      <4>3. f[i] = SplitFrom(f, i)
        BY <4>1, <4>2
      <4>. QED
        BY <3>2, <4>3
    <3>. QED
      BY <3>1, <3>2
  <2>4. g = [i \in k..N |-> SplitFrom(g, i)]
    <3>1. \A i \in k..N : g[i] = SplitFrom(g, i)
      BY <2>2, <2>3
    <3>2. g = [i \in k..N |-> g[i]]
      OBVIOUS
    <3>. HIDE DEF g
    <3>. QED
      BY <3>1, <3>2
  <2>. HIDE DEF g
  <2>. QED
    BY <2>4
<1>3. \A k \in 1..N : k \in S
  <2>. HIDE DEF S, N
  <2>. QED
    BY <1>1, <1>2, Downwards
<1>4. PICK f : f = [i \in 1..N |-> SplitFrom(f, i)]
  BY <1>1, <1>3
<1>. QED
  BY <1>4, SplitIsOne

\* The sections of a content are in order, and each line that says something is in one,
\* fences apart.
LEMMA SplitSplits ==
    ASSUME Engine!EngineAssumption, lines \in Contents
    PROVE  Splits(Engine!Split, 1)
<1>. DEFINE N == Len(lines) + 2
<1>1. Len(lines) \in Nat /\ N \in Nat /\ 1 \in 1..N
  BY LinesFit
<1>2. PICK c : c = [i \in 1..N |-> SplitFrom(c, i)] /\ Engine!Split = c[1]
  BY SplitExists
<1>. DEFINE S == {i \in 1..N : Splits(c[i], i)}
<1>3. ASSUME NEW k \in 1..N, \A j \in (k + 1)..N : j \in S
      PROVE  k \in S
  <2>1. c[k] = SplitFrom(c, k)
    BY <1>2
  <2>2. ASSUME k <= Len(lines)
        PROVE  Splits(c[Engine!Piece(k)[2]], Engine!Piece(k)[2])
    <3>1. k \in 1..Len(lines)
      BY <1>1, <2>2
    <3>2. PICK next : next = Engine!Piece(k)[2]
      OBVIOUS
    <3>3. next \in 1..N /\ k < next
      BY <3>1, <3>2, PieceReaches DEF Reaches
    <3>4. next \in S
      BY <1>1, <1>3, <3>3
    <3>. QED
      BY <3>2, <3>4
  <2>3. Splits(SplitFrom(c, k), k)
    BY <2>2, SplitFromSplits
  <2>. QED
    BY <2>1, <2>3
<1>4. \A k \in 1..N : k \in S
  <2>. HIDE DEF S, N
  <2>. QED
    BY <1>1, <1>3, Downwards
<1>. QED
  BY <1>1, <1>2, <1>4

-----------------------------------------------------------------------------
(* The sizes the engine reports *)

\* s[n] is the sum of a field over the first n of q.
SumsTo(s, q, field) == s = [n \in 0..Len(q) |-> IF n = 0 THEN 0 ELSE s[n - 1] + q[n][field]]

LEMMA SumsExist ==
    ASSUME NEW q, NEW field, Len(q) \in Nat
    PROVE  \E s : SumsTo(s, q, field)
<1>. DEFINE N == Len(q)
            S == {k \in 0..N : \E s : s = [n \in 0..k |-> IF n = 0 THEN 0 ELSE s[n - 1] + q[n][field]]}
<1>1. 0 \in S
  <2>. DEFINE s == [n \in 0..0 |-> 0]
  <2>1. s = [n \in 0..0 |-> IF n = 0 THEN 0 ELSE s[n - 1] + q[n][field]]
    <3>1. \A n \in 0..0 : n = 0
      OBVIOUS
    <3>. QED
      BY <3>1
  <2>. HIDE DEF s
  <2>. QED
    BY <2>1
<1>2. ASSUME NEW k \in 0..N, k < N, k \in S
      PROVE  k + 1 \in S
  <2>1. PICK s : s = [n \in 0..k |-> IF n = 0 THEN 0 ELSE s[n - 1] + q[n][field]]
    BY <1>2
  <2>. DEFINE t == [n \in 0..(k + 1) |-> IF n = k + 1 THEN s[k] + q[k + 1][field] ELSE s[n]]
  <2>2. ASSUME NEW n \in 0..(k + 1)
        PROVE  t[n] = IF n = 0 THEN 0 ELSE t[n - 1] + q[n][field]
    <3>1. CASE n = k + 1
      <4>1. n - 1 = k /\ k \in 0..(k + 1) /\ k # k + 1 /\ n # 0
        BY <3>1
      <4>2. t[k] = s[k]
        BY <4>1
      <4>3. t[n] = s[k] + q[k + 1][field]
        BY <3>1
      <4>. HIDE DEF t
      <4>. QED
        BY <3>1, <4>1, <4>2, <4>3
    <3>2. CASE n = 0
      <4>1. n # k + 1 /\ n \in 0..k
        BY <3>2
      <4>2. s[n] = 0
        BY <2>1, <3>2, <4>1
      <4>3. t[n] = s[n]
        BY <4>1
      <4>. HIDE DEF t
      <4>. QED
        BY <3>2, <4>2, <4>3
    <3>3. CASE n \in 1..k
      <4>1. n \in 0..k /\ n - 1 \in 0..(k + 1) /\ n - 1 # k + 1 /\ n # k + 1 /\ n # 0
        BY <3>3
      <4>2. t[n] = s[n] /\ t[n - 1] = s[n - 1]
        BY <4>1
      <4>3. s[n] = s[n - 1] + q[n][field]
        BY <2>1, <4>1
      <4>. HIDE DEF t
      <4>. QED
        BY <4>1, <4>2, <4>3
    <3>. QED
      BY <3>1, <3>2, <3>3
  <2>3. t = [n \in 0..(k + 1) |-> t[n]]
    OBVIOUS
  <2>4. t = [n \in 0..(k + 1) |-> IF n = 0 THEN 0 ELSE t[n - 1] + q[n][field]]
    <3>. HIDE DEF t
    <3>. QED
      BY <2>2, <2>3
  <2>5. k + 1 \in 0..N
    BY <1>2
  <2>. HIDE DEF t
  <2>. QED
    BY <2>4, <2>5
<1>3. \A k \in 0..N : k \in S
  <2>. HIDE DEF S
  <2>. QED
    BY <1>1, <1>2, Upwards
<1>4. N \in S
  BY <1>3
<1>. QED
  BY <1>4 DEF SumsTo

\* The sum of a field over q.
SumOf(q, field) == (CHOOSE s : SumsTo(s, q, field))[Len(q)]

LEMMA TotalIsSum ==
    ASSUME NEW field
    PROVE  Engine!Total(field) = SumOf(outs, field) /\ Engine!Total(field)' = SumOf(outs', field)
BY DEF Engine!Total, SumOf, SumsTo

LEMMA SumOfSums ==
    ASSUME NEW q, NEW field, Len(q) \in Nat
    PROVE  \E s : SumsTo(s, q, field) /\ SumOf(q, field) = s[Len(q)]
<1>1. PICK s : SumsTo(s, q, field)
  BY SumsExist
<1>2. SumsTo(CHOOSE t : SumsTo(t, q, field), q, field)
  BY <1>1
<1>. QED
  BY <1>2 DEF SumOf

LEMMA SumPlaces ==
    ASSUME NEW s, NEW q, NEW field, Len(q) \in Nat, SumsTo(s, q, field)
    PROVE  s[0] = 0 /\ \A n \in 1..Len(q) : s[n] = s[n - 1] + q[n][field]
BY DEF SumsTo

LEMMA SumIsNat ==
    ASSUME NEW s, NEW q, NEW field, Len(q) \in Nat, SumsTo(s, q, field),
           \A n \in 1..Len(q) : q[n][field] \in Nat
    PROVE  \A n \in 0..Len(q) : s[n] \in Nat
<1>. DEFINE S == {n \in 0..Len(q) : s[n] \in Nat}
<1>1. 0 \in S
  BY SumPlaces
<1>2. ASSUME NEW k \in 0..Len(q), k < Len(q), k \in S
      PROVE  k + 1 \in S
  <2>1. k + 1 \in 1..Len(q) /\ k + 1 - 1 = k /\ k + 1 \in 0..Len(q)
    BY <1>2
  <2>2. s[k + 1] = s[k] + q[k + 1][field]
    <3>1. s[k + 1] = s[k + 1 - 1] + q[k + 1][field]
      BY <2>1, SumPlaces
    <3>. QED
      BY <2>1, <3>1
  <2>. QED
    BY <1>2, <2>1, <2>2
<1>3. \A n \in 0..Len(q) : n \in S
  <2>. HIDE DEF S
  <2>. QED
    BY <1>1, <1>2, Upwards
<1>. QED
  BY <1>3

\* The sums of two sequences agree as far as the sequences do.
LEMMA SumsAgree ==
    ASSUME NEW s, NEW q, NEW t, NEW r, NEW field, Len(q) \in Nat, Len(r) \in Nat, Len(q) <= Len(r),
           SumsTo(s, q, field), SumsTo(t, r, field), \A n \in 1..Len(q) : q[n] = r[n]
    PROVE  \A n \in 0..Len(q) : s[n] = t[n]
<1>. DEFINE S == {n \in 0..Len(q) : s[n] = t[n]}
<1>1. 0 \in S
  BY SumPlaces
<1>2. ASSUME NEW k \in 0..Len(q), k < Len(q), k \in S
      PROVE  k + 1 \in S
  <2>1. k + 1 \in 1..Len(q) /\ k + 1 \in 1..Len(r) /\ k + 1 - 1 = k /\ k + 1 \in 0..Len(q)
    BY <1>2
  <2>2. s[k + 1] = s[k] + q[k + 1][field]
    <3>1. s[k + 1] = s[k + 1 - 1] + q[k + 1][field]
      BY <2>1, SumPlaces
    <3>. QED
      BY <2>1, <3>1
  <2>3. t[k + 1] = t[k] + r[k + 1][field]
    <3>1. t[k + 1] = t[k + 1 - 1] + r[k + 1][field]
      BY <2>1, SumPlaces
    <3>. QED
      BY <2>1, <3>1
  <2>4. q[k + 1] = r[k + 1]
    BY <2>1
  <2>. QED
    BY <1>2, <2>1, <2>2, <2>3, <2>4
<1>3. \A n \in 0..Len(q) : n \in S
  <2>. HIDE DEF S
  <2>. QED
    BY <1>1, <1>2, Upwards
<1>. QED
  BY <1>3

LEMMA SumOfNone ==
    ASSUME NEW q, NEW field, q = <<>>
    PROVE  SumOf(q, field) = 0
<1>1. Len(q) = 0
  OBVIOUS
<1>2. PICK s : SumsTo(s, q, field) /\ SumOf(q, field) = s[0]
  <2>1. Len(q) \in Nat
    BY <1>1
  <2>. QED
    BY <1>1, <2>1, SumOfSums
<1>. QED
  BY <1>1, <1>2, SumPlaces

LEMMA SumOfNats ==
    ASSUME NEW q, NEW field, Len(q) \in Nat, \A n \in 1..Len(q) : q[n][field] \in Nat
    PROVE  SumOf(q, field) \in Nat
<1>1. PICK s : SumsTo(s, q, field) /\ SumOf(q, field) = s[Len(q)]
  BY SumOfSums
<1>2. s[Len(q)] \in Nat
  BY <1>1, SumIsNat
<1>. QED
  BY <1>1, <1>2

LEMMA SumOfLonger ==
    ASSUME NEW q, NEW r, NEW field, Len(q) \in Nat, Len(r) = Len(q) + 1, \A n \in 1..Len(q) : r[n] = q[n]
    PROVE  SumOf(r, field) = SumOf(q, field) + r[Len(q) + 1][field]
<1>1. Len(r) \in Nat /\ Len(q) <= Len(r) /\ Len(r) \in 1..Len(r) /\ Len(r) - 1 = Len(q) /\ Len(q) \in 0..Len(q)
  OBVIOUS
<1>2. PICK s : SumsTo(s, q, field) /\ SumOf(q, field) = s[Len(q)]
  BY SumOfSums
<1>3. PICK t : SumsTo(t, r, field) /\ SumOf(r, field) = t[Len(r)]
  BY <1>1, SumOfSums
<1>4. s[Len(q)] = t[Len(q)]
  BY <1>1, <1>2, <1>3, SumsAgree
<1>5. t[Len(r)] = t[Len(r) - 1] + r[Len(r)][field]
  BY <1>1, <1>3, SumPlaces
<1>. QED
  BY <1>1, <1>2, <1>3, <1>4, <1>5

-----------------------------------------------------------------------------
(* One section at a time *)

LEMMA AppendPlaces ==
    ASSUME NEW S, NEW q \in Seq(S), NEW x \in S
    PROVE  /\ Append(q, x) \in Seq(S) /\ Len(Append(q, x)) = Len(q) + 1 /\ Append(q, x)[Len(q) + 1] = x
           /\ DOMAIN Append(q, x) = 1..(Len(q) + 1) /\ DOMAIN q = 1..Len(q) /\ Len(q) \in Nat
           /\ \A n \in 1..Len(q) : Append(q, x)[n] = q[n]
OBVIOUS

LEMMA TailPlaces ==
    ASSUME NEW S, NEW q \in Seq(S), q # <<>>
    PROVE  /\ Head(q) = q[1] /\ Tail(q) \in Seq(S) /\ DOMAIN q = 1..Len(q) /\ Len(q) \in Nat /\ Len(q) >= 1
           /\ DOMAIN Tail(q) = 1..(Len(q) - 1) /\ \A n \in 1..(Len(q) - 1) : Tail(q)[n] = q[n + 1]
OBVIOUS

\* What became of the sections is numbered as they are.
LEMMA OutsNumbered ==
    ASSUME NEW q \in Seq(Engine!Outs)
    PROVE  \A n \in DOMAIN q : q[n] \in Engine!Outs /\ q[n].from \in Int /\ q[n].to \in Int
<1>1. \A s \in Engine!Outs : s.from \in Int /\ s.to \in Int
  BY DEF Engine!Outs
<1>2. \A n \in DOMAIN q : q[n] \in Engine!Outs
  OBVIOUS
<1>. QED
  BY <1>1, <1>2

\* The sections dispatched and those left are in order, and each line that says something is
\* in one of them, fences apart.
Covering(done, left) ==
    /\ Apart(done) /\ Apart(left)
    /\ Between(done, 1, Len(lines)) /\ Between(left, 1, Len(lines))
    /\ \A m \in DOMAIN done, n \in DOMAIN left : done[m].to < left[n].from
    /\ \A j \in 1..Len(lines) : lines[j] \notin {"blank", "fence"} => Holds(done, j) \/ Holds(left, j)

LEMMA DispatchCovers ==
    ASSUME NEW done \in Seq(Engine!Outs), NEW left \in Seq(Engine!Sections), left # <<>>,
           Covering(done, left), NEW out \in Engine!Outs, out.from = Head(left).from, out.to = Head(left).to
    PROVE  Covering(Append(done, out), Tail(left))
<1>1. PICK q : q = Append(done, out)
  OBVIOUS
<1>2. PICK r : r = Tail(left)
  OBVIOUS
<1>3. /\ DOMAIN q = 1..(Len(done) + 1) /\ DOMAIN done = 1..Len(done) /\ Len(done) \in Nat
      /\ q[Len(done) + 1] = out /\ \A n \in 1..Len(done) : q[n] = done[n]
  BY <1>1, AppendPlaces
<1>4. /\ Head(left) = left[1] /\ DOMAIN left = 1..Len(left) /\ Len(left) \in Nat /\ Len(left) >= 1
      /\ DOMAIN r = 1..(Len(left) - 1) /\ \A n \in 1..(Len(left) - 1) : r[n] = left[n + 1]
  BY <1>2, TailPlaces
<1>5. out.from = left[1].from /\ out.to = left[1].to
  BY <1>4
<1>6. \A n \in DOMAIN q : (n \in DOMAIN done /\ q[n] = done[n]) \/ (n = Len(done) + 1 /\ q[n] = out)
  <2>1. \A n \in DOMAIN q : n \in 1..Len(done) \/ n = Len(done) + 1
    BY <1>3
  <2>. QED
    BY <1>3, <2>1
<1>7. \A n \in DOMAIN r : n + 1 \in DOMAIN left /\ 1 < n + 1 /\ r[n] = left[n + 1]
  <2>1. \A n \in 1..(Len(left) - 1) : n + 1 \in 1..Len(left) /\ 1 < n + 1
    BY <1>4
  <2>. QED
    BY <1>4, <2>1
<1>8. 1 \in DOMAIN left
  BY <1>4
<1>9. Apart(q)
  <2>. SUFFICES ASSUME NEW m \in DOMAIN q, NEW n \in DOMAIN q, m < n
       PROVE  q[m].to < q[n].from
    BY DEF Apart
  <2>1. m \in DOMAIN done /\ q[m] = done[m]
    BY <1>3, <1>6
  <2>2. CASE n \in DOMAIN done /\ q[n] = done[n]
    BY <2>1, <2>2 DEF Covering, Apart
  <2>3. CASE q[n] = out
    BY <2>1, <2>3, <1>5, <1>8 DEF Covering
  <2>. QED
    BY <2>2, <2>3, <1>6
<1>10. Apart(r)
  <2>. SUFFICES ASSUME NEW m \in DOMAIN r, NEW n \in DOMAIN r, m < n
       PROVE  r[m].to < r[n].from
    BY DEF Apart
  <2>1. m + 1 < n + 1
    BY <1>4
  <2>. QED
    BY <2>1, <1>7 DEF Covering, Apart
<1>11. Between(q, 1, Len(lines))
  BY <1>5, <1>6, <1>8 DEF Covering, Between
<1>12. Between(r, 1, Len(lines))
  BY <1>7 DEF Covering, Between
<1>13. ASSUME NEW m \in DOMAIN q, NEW n \in DOMAIN r
       PROVE  q[m].to < r[n].from
  <2>1. n + 1 \in DOMAIN left /\ 1 < n + 1 /\ r[n] = left[n + 1]
    BY <1>7
  <2>2. CASE m \in DOMAIN done /\ q[m] = done[m]
    BY <2>1, <2>2 DEF Covering
  <2>3. CASE q[m] = out
    <3>1. left[1].to < left[n + 1].from
      BY <2>1, <1>8 DEF Covering, Apart
    <3>. QED
      BY <2>1, <2>3, <3>1, <1>5
  <2>. QED
    BY <2>2, <2>3, <1>6
<1>14. ASSUME NEW j \in 1..Len(lines), lines[j] \notin {"blank", "fence"}
       PROVE  Holds(q, j) \/ Holds(r, j)
  <2>1. CASE Holds(done, j)
    <3>1. PICK n \in DOMAIN done : j \in done[n].from..done[n].to
      BY <2>1 DEF Holds
    <3>2. n \in DOMAIN q /\ q[n] = done[n]
      BY <1>3
    <3>. QED
      BY <3>1, <3>2 DEF Holds
  <2>2. CASE Holds(left, j)
    <3>1. PICK n \in DOMAIN left : j \in left[n].from..left[n].to
      BY <2>2 DEF Holds
    <3>2. CASE n = 1
      <4>1. Len(done) + 1 \in DOMAIN q
        BY <1>3
      <4>. QED
        BY <3>1, <3>2, <4>1, <1>3, <1>5 DEF Holds
    <3>3. CASE n # 1
      <4>1. n - 1 \in DOMAIN r /\ n - 1 + 1 = n
        BY <3>3, <1>4
      <4>2. r[n - 1] = left[n]
        BY <4>1, <1>7
      <4>. QED
        BY <3>1, <4>1, <4>2 DEF Holds
    <3>. QED
      BY <3>2, <3>3
  <2>. QED
    BY <1>14, <2>1, <2>2 DEF Covering
<1>. QED
  BY <1>1, <1>2, <1>9, <1>10, <1>11, <1>12, <1>13, <1>14 DEF Covering

\* The lines that say something in the sections of q.
Heard(q) == {j \in 1..Len(lines) : lines[j] # "blank" /\ Holds(q, j)}

LEMMA HeardFinite ==
    ASSUME Len(lines) \in Nat, NEW q
    PROVE  IsFiniteSet(Heard(q)) /\ Cardinality(Heard(q)) <= Engine!AllTokens /\ Cardinality(Heard(q)) \in Nat
           /\ Engine!AllTokens \in Nat
<1>1. 1 \in Int /\ Len(lines) \in Int
  OBVIOUS
<1>2. IsFiniteSet(Said(1, Len(lines))) /\ Engine!AllTokens = Cardinality(Said(1, Len(lines)))
  BY <1>1, TokensCount DEF Engine!AllTokens
<1>3. Heard(q) \in SUBSET Said(1, Len(lines))
  BY DEF Heard, Said
<1>. QED
  BY <1>2, <1>3, FS_Subset, FS_CardinalityType

\* A section dispatched adds its own tokens to those heard.
LEMMA DispatchHears ==
    ASSUME Len(lines) \in Nat, NEW done \in Seq(Engine!Outs), NEW out \in Engine!Outs,
           1 <= out.from, out.to <= Len(lines), \A n \in DOMAIN done : done[n].to < out.from
    PROVE  Cardinality(Heard(Append(done, out))) = Cardinality(Heard(done)) + Engine!Tokens(out.from, out.to)
<1>. DEFINE T == Said(out.from, out.to)
<1>1. out.from \in Int /\ out.to \in Int
  BY DEF Engine!Outs
<1>2. IsFiniteSet(T) /\ Engine!Tokens(out.from, out.to) = Cardinality(T) /\ Cardinality(T) \in Nat
  BY <1>1, TokensCount
<1>3. PICK q : q = Append(done, out)
  OBVIOUS
<1>4. /\ DOMAIN q = 1..(Len(done) + 1) /\ DOMAIN done = 1..Len(done) /\ Len(done) \in Nat
      /\ q[Len(done) + 1] = out /\ \A n \in 1..Len(done) : q[n] = done[n]
  BY <1>3, AppendPlaces
<1>5. \A j : Holds(q, j) <=> Holds(done, j) \/ j \in out.from..out.to
  <2>1. \A n \in DOMAIN q : (n \in DOMAIN done /\ q[n] = done[n]) \/ q[n] = out
    <3>1. \A n \in DOMAIN q : n \in 1..Len(done) \/ n = Len(done) + 1
      BY <1>4
    <3>. QED
      BY <1>4, <3>1
  <2>2. \A n \in DOMAIN done : n \in DOMAIN q /\ q[n] = done[n]
    BY <1>4
  <2>3. Len(done) + 1 \in DOMAIN q
    BY <1>4
  <2>. QED
    BY <2>1, <2>2, <2>3, <1>4 DEF Holds
<1>6. Heard(q) = Heard(done) \cup T
  <2>1. \A j \in out.from..out.to : j \in 1..Len(lines)
    BY <1>1
  <2>. QED
    BY <1>5, <2>1 DEF Heard, Said
<1>7. Heard(done) \cap T = {}
  <2>. SUFFICES ASSUME NEW j \in T, j \in Heard(done)
       PROVE  FALSE
    OBVIOUS
  <2>1. PICK n \in DOMAIN done : j \in done[n].from..done[n].to
    BY DEF Heard, Holds
  <2>2. j \in out.from..out.to
    BY DEF Said
  <2>3. done[n].to < out.from /\ done[n].to \in Int /\ done[n].from \in Int
    BY OutsNumbered
  <2>. QED
    BY <2>1, <2>2, <2>3, <1>1
<1>8. IsFiniteSet(Heard(done)) /\ Cardinality(Heard(done)) \in Nat
  BY HeardFinite
<1>9. Cardinality(Heard(done) \cup T) = Cardinality(Heard(done)) + Cardinality(T) - Cardinality(Heard(done) \cap T)
  BY <1>2, <1>8, FS_Union
<1>10. Cardinality(Heard(done) \cap T) = 0
  BY <1>7, FS_EmptySet
<1>. QED
  BY <1>2, <1>3, <1>6, <1>8, <1>9, <1>10

\* Every arm reports the tokens it was given, at most one more than them, and keeps the text
\* in the strict mode.
ArmOut(out, n) ==
    /\ out.form \in Engine!Forms /\ out.before = n /\ out.after \in 0..(n + 1)
    /\ strict => out.form \notin Engine!Ingested \cup {"lossy"}

LEMMA SizedOut ==
    ASSUME NEW n \in Nat, NEW form \in Engine!Forms, NEW sizes \in SUBSET (0..(n + 1)),
           strict => form \notin Engine!Ingested \cup {"lossy"}
    PROVE  \A out \in Engine!Sized(form, n, sizes) : ArmOut(out, n)
BY DEF Engine!Sized, ArmOut

LEMMA LooseOut ==
    ASSUME NEW n \in Nat, NEW form \in Engine!Forms, NEW sizes \in SUBSET (0..(n + 1))
    PROVE  \A out \in Engine!Loose(Engine!Sized(form, n, sizes)) : ArmOut(out, n)
<1>1. CASE strict
  BY <1>1 DEF Engine!Loose
<1>2. CASE ~strict
  <2>1. \A out \in Engine!Sized(form, n, sizes) : ArmOut(out, n)
    BY <1>2, SizedOut
  <2>. QED
    BY <1>2, <2>1 DEF Engine!Loose
<1>. QED
  BY <1>1, <1>2

LEMMA ArmOuts ==
    ASSUME NEW n \in Nat, NEW what \in Engine!Kinds, NEW out \in Engine!Arm(what, n)
    PROVE  ArmOut(out, n)
<1>1. {"same", "crushed", "template", "lossy", "csv", "envelope", "html"} \subseteq Engine!Forms
  BY DEF Engine!Forms
<1>2. 0..(n - 1) \in SUBSET (0..(n + 1)) /\ 0..n \in SUBSET (0..(n + 1)) /\ 0..(n + 1) \in SUBSET (0..(n + 1))
  OBVIOUS
<1>3. ArmOut(Engine!Same(n), n)
  BY DEF Engine!Same, ArmOut, Engine!Forms, Engine!Ingested
<1>4. \A x \in Engine!Tabular(n) : ArmOut(x, n)
  BY <1>1, <1>2, LooseOut DEF Engine!Tabular
<1>5. \A x \in Engine!Envelope(n) : ArmOut(x, n)
  BY <1>1, <1>2, LooseOut DEF Engine!Envelope
<1>6. \A x \in Engine!Extracted(n) : ArmOut(x, n)
  BY <1>1, <1>2, LooseOut DEF Engine!Extracted
<1>7. \A x \in Engine!NoSavings(n) : ArmOut(x, n)
  BY <1>1, <1>2, LooseOut DEF Engine!NoSavings
<1>8. \A x \in Engine!Loose(Engine!Dropped(n)) : ArmOut(x, n)
  BY <1>1, <1>2, LooseOut DEF Engine!Dropped
<1>9. "crushed" \notin Engine!Ingested \cup {"lossy"} /\ "template" \notin Engine!Ingested \cup {"lossy"}
  BY DEF Engine!Ingested
<1>10. \A x \in Engine!Sized("crushed", n, 0..n) : ArmOut(x, n)
  BY <1>1, <1>2, <1>9, SizedOut
<1>11. \A x \in Engine!Sized("template", n, 0..(n - 1)) : ArmOut(x, n)
  BY <1>1, <1>2, <1>9, SizedOut
<1>12. \A x \in Engine!Json(n) : ArmOut(x, n)
  BY <1>4, <1>5, <1>7, <1>10 DEF Engine!Json
<1>13. \A x \in Engine!Log(n) : ArmOut(x, n)
  BY <1>8, <1>11 DEF Engine!Log
<1>14. \A x \in Engine!Text(n) : ArmOut(x, n)
  BY <1>6, <1>8 DEF Engine!Text
<1>15. \/ out = Engine!Same(n) \/ out \in Engine!Json(n) \/ out \in Engine!Log(n)
       \/ out \in Engine!Text(n) \/ out \in Engine!Loose(Engine!Dropped(n))
  <2>1. CASE what = "json"
    BY <2>1 DEF Engine!Arm
  <2>2. CASE what = "log"
    BY <2>2 DEF Engine!Arm
  <2>3. CASE what = "text"
    BY <2>3 DEF Engine!Arm
  <2>4. CASE what \notin {"json", "log", "text"}
    BY <2>4 DEF Engine!Arm
  <2>. QED
    BY <2>1, <2>2, <2>3, <2>4
<1>. QED
  BY <1>3, <1>8, <1>12, <1>13, <1>14, <1>15

LEMMA ShippedOut ==
    ASSUME NEW n \in Nat, NEW out, ArmOut(out, n), NEW lands \in BOOLEAN
    PROVE  /\ ArmOut(Engine!Shipped(out, lands), n)
           /\ Engine!Shipped(out, lands).form \in Engine!Ingested => lands
<1>1. ArmOut(Engine!Same(n), n) /\ Engine!Same(n).form \notin Engine!Ingested
  BY DEF Engine!Same, ArmOut, Engine!Forms, Engine!Ingested
<1>2. Engine!Same(out.before) = Engine!Same(n)
  BY DEF ArmOut
<1>3. CASE out.form \in Engine!Ingested /\ ~lands
  <2>1. Engine!Shipped(out, lands) = Engine!Same(n)
    BY <1>2, <1>3 DEF Engine!Shipped
  <2>. QED
    BY <1>1, <2>1
<1>4. CASE ~(out.form \in Engine!Ingested /\ ~lands)
  <2>1. Engine!Shipped(out, lands) = out
    BY <1>4 DEF Engine!Shipped
  <2>. QED
    BY <1>4, <2>1
<1>. QED
  BY <1>3, <1>4

-----------------------------------------------------------------------------
(* The invariant of the engine *)

\* The sections of a mixed content cover it while they are dispatched and when they ship.
Planned == phase = "dispatch" \/ sent.text = "outs" => Covering(outs, todo)

\* What the phases have done.
Phased ==
    /\ phase = "route" => outs = <<>> /\ todo = <<>>
    /\ phase \in {"route", "dispatch"} => sent.text = "none"
    /\ sent.text = "outs" => todo = <<>>

\* The sizes reported are those of the sections, whose tokens are those of their lines.
Sized ==
    /\ SumOf(outs, "before") = Cardinality(Heard(outs))
    /\ sent.text = "outs" => sent.before = SumOf(outs, "before") /\ sent.after = SumOf(outs, "after")
    /\ sent.text = "original" => sent.before = sent.after
    /\ phase \in {"offload", "shipped"} /\ sent.text = "outs" => SumOf(outs, "after") # 0

\* What the strict mode keeps, and the originals that the views need.
Kept ==
    /\ strict => \A n \in DOMAIN outs : outs[n].form \notin Engine!Ingested \cup {"lossy"}
    /\ \A n \in DOMAIN outs : outs[n].form \in Engine!Ingested => <<outs[n].from, outs[n].to>> \in offloaded
    /\ sent.text = "preview" => ~strict /\ Engine!Whole \in offloaded

EngineInv == Engine!TypeOK /\ Planned /\ Phased /\ Sized /\ Kept

\* The new state of the parts, when only the report and the store change.
LEMMA ReportKeeps ==
    ASSUME UNCHANGED <<lines, array, kind, size, strict, todo, outs>>
    PROVE  /\ (Covering(outs, todo))' <=> Covering(outs, todo)
           /\ (Cardinality(Heard(outs)))' = Cardinality(Heard(outs))
           /\ (SumOf(outs, "before"))' = SumOf(outs, "before") /\ (SumOf(outs, "after"))' = SumOf(outs, "after")
<1>1. (Covering(outs, todo))' <=> Covering(outs, todo)
  BY DEF Covering, Apart, Between, Holds
<1>2. (Heard(outs))' = Heard(outs)
  BY DEF Heard, Holds
<1>3. (SumOf(outs, "before"))' = SumOf(outs, "before") /\ (SumOf(outs, "after"))' = SumOf(outs, "after")
  BY DEF SumOf, SumsTo
<1>. QED
  BY <1>1, <1>2, <1>3

LEMMA NothingHeard ==
    ASSUME outs = <<>>
    PROVE  SumOf(outs, "before") = Cardinality(Heard(outs))
<1>1. Heard(outs) = {}
  BY DEF Heard, Holds
<1>2. Cardinality(Heard(outs)) = 0
  BY <1>1, FS_EmptySet
<1>. QED
  BY <1>2, SumOfNone

LEMMA EngineInit ==
    ASSUME Engine!EngineAssumption, Engine!Init
    PROVE  EngineInv
<1>1. lines \in Contents /\ strict \in BOOLEAN /\ phase = "route" /\ todo = <<>> /\ outs = <<>> /\ offloaded = {}
  BY DEF Engine!Init
<1>2. sent = [text |-> "none", before |-> 0, after |-> 0]
  BY DEF Engine!Init
<1>3. array \in BOOLEAN /\ kind \in Engine!Kinds /\ size \in {"small", "large", "huge"}
  BY DEF Engine!Init
<1>4. Engine!TypeOK
  <2>1. todo \in Seq(Engine!Sections) /\ outs \in Seq(Engine!Outs)
    BY <1>1
  <2>2. sent \in [text : Engine!Texts, before : Nat, after : Nat]
    BY <1>2 DEF Engine!Texts
  <2>3. offloaded \subseteq (1..(MaxLines + 1)) \X (0..MaxLines)
    BY <1>1
  <2>. QED
    BY <1>1, <1>3, <2>1, <2>2, <2>3 DEF Engine!TypeOK
<1>5. Planned /\ Phased
  BY <1>1, <1>2 DEF Planned, Phased
<1>6. Sized
  BY <1>1, <1>2, NothingHeard DEF Sized
<1>7. Kept
  BY <1>1, <1>2 DEF Kept
<1>. QED
  BY <1>4, <1>5, <1>6, <1>7 DEF EngineInv

\* A content taken whole is one section.
LEMMA WholeSplits ==
    ASSUME Engine!EngineAssumption, lines \in Contents, kind \in Engine!Kinds, Len(lines) # 0
    PROVE  Splits(<<Engine!Section(1, Len(lines), kind, FALSE)>>, 1)
<1>. DEFINE L == Len(lines)
<1>1. PICK s : s = Engine!Section(1, L, kind, FALSE)
  OBVIOUS
<1>2. L \in Nat /\ MaxLines \in Nat /\ L <= MaxLines /\ 1 \in 1..L
  BY LinesFit
<1>3. Reaches(1, s, L + 1)
  <2>1. 1 \in 1..(L + 1) /\ L \in 1..L /\ L + 1 \in 1..(L + 2) /\ 1 < L + 1 /\ 1 <= 1 /\ L < L + 1 /\ FALSE \in BOOLEAN
    BY <1>2
  <2>2. \A j \in 1..L : j < L + 1 /\ lines[j] # "fence" => j \in 1..L
    OBVIOUS
  <2>3. Reaches(1, Engine!Section(1, L, kind, FALSE), L + 1)
    BY <1>2, <2>1, <2>2, SectionReaches
  <2>. QED
    BY <1>1, <2>3
<1>4. Splits(<<>>, L + 1)
  <2>1. \A j \in (L + 1)..L : FALSE
    BY <1>2
  <2>. QED
    BY <2>1 DEF Splits, Apart, Between
<1>5. Splits(<<s>> \o <<>>, 1)
  BY <1>2, <1>3, <1>4, ConsSplits
<1>6. <<s>> \o <<>> = <<s>>
  OBVIOUS
<1>. QED
  BY <1>1, <1>5, <1>6

LEMMA RouteKeeps ==
    ASSUME Engine!EngineAssumption, EngineInv, Engine!Route
    PROVE  EngineInv'
<1>1. /\ lines \in Contents /\ kind \in Engine!Kinds
      /\ phase = "route" /\ outs = <<>> /\ todo = <<>> /\ sent.text = "none"
      /\ Engine!TypeOK
  BY DEF EngineInv, Phased, Engine!TypeOK, Engine!Route
<1>2. UNCHANGED <<lines, array, kind, size, strict, outs, offloaded>>
  BY DEF Engine!Route, Engine!content
<1>3. Len(lines) \in Nat
  BY <1>1, LinesFit
<1>4. /\ todo' = <<>> \/ Splits(todo', 1)
      /\ phase' = (IF todo' = <<>> THEN "offload" ELSE "dispatch")
      /\ sent' = (IF todo' = <<>> THEN Engine!Original(0, 0) ELSE sent)
  <2>1. phase' = (IF todo' = <<>> THEN "offload" ELSE "dispatch")
    BY DEF Engine!Route
  <2>2. sent' = (IF todo' = <<>> THEN Engine!Original(0, 0) ELSE sent)
    BY DEF Engine!Route
  <2>3. \/ todo' = <<>> \/ todo' = Engine!Split
        \/ todo' = <<Engine!Section(1, Len(lines), kind, FALSE)>> /\ Engine!AllTokens # 0
    BY DEF Engine!Route
  <2>4. Engine!AllTokens # 0 => Len(lines) # 0
    <3>. SUFFICES ASSUME Len(lines) = 0
         PROVE  Engine!AllTokens = 0
      OBVIOUS
    <3>1. 1 \in Int /\ Len(lines) \in Int
      BY <1>3
    <3>2. Said(1, Len(lines)) = {}
      <4>1. \A i \in 1..0 : FALSE
        OBVIOUS
      <4>. QED
        BY <4>1 DEF Said
    <3>3. Engine!AllTokens = Cardinality(Said(1, Len(lines)))
      BY <3>1, TokensCount DEF Engine!AllTokens
    <3>. QED
      BY <3>2, <3>3, FS_EmptySet
  <2>5. todo' = Engine!Split => Splits(todo', 1)
    BY <1>1, SplitSplits
  <2>6. todo' = <<Engine!Section(1, Len(lines), kind, FALSE)>> /\ Len(lines) # 0 => Splits(todo', 1)
    BY <1>1, WholeSplits
  <2>. QED
    BY <2>1, <2>2, <2>3, <2>4, <2>5, <2>6
<1>5. Engine!TypeOK'
  <2>1. todo' \in Seq(Engine!Sections)
    <3>1. Splits(todo', 1) => todo' \in Seq(Engine!Sections)
      BY DEF Splits
    <3>2. todo' = <<>> => todo' \in Seq(Engine!Sections)
      OBVIOUS
    <3>. QED
      BY <1>4, <3>1, <3>2
  <2>2. sent' \in [text : Engine!Texts, before : Nat, after : Nat]
    BY <1>1, <1>4 DEF Engine!TypeOK, Engine!Original, Engine!Texts
  <2>3. phase' \in {"route", "dispatch", "guard", "offload", "shipped"}
    BY <1>4
  <2>. QED
    BY <1>1, <1>2, <2>1, <2>2, <2>3 DEF Engine!TypeOK
<1>6. sent'.text = (IF todo' = <<>> THEN "original" ELSE "none") /\ sent'.text # "outs"
  BY <1>1, <1>4 DEF Engine!Original
<1>7. Phased'
  BY <1>4, <1>6 DEF Phased
<1>8. Planned'
  <2>. SUFFICES ASSUME phase' = "dispatch"
       PROVE  (Covering(outs, todo))'
    BY <1>6 DEF Planned
  <2>1. Splits(todo', 1)
    BY <1>4
  <2>. QED
    BY <1>1, <1>2, <2>1 DEF Splits, Covering, Apart, Between, Holds
<1>9. Sized'
  <2>1. SumOf(outs', "before") = Cardinality((Heard(outs))')
    <3>1. (Heard(outs))' = Heard(outs)
      BY <1>2 DEF Heard, Holds
    <3>. QED
      BY <1>1, <1>2, <3>1, NothingHeard
  <2>2. sent'.text = "original" => sent'.before = sent'.after
    BY <1>4, <1>6 DEF Engine!Original
  <2>. QED
    BY <1>6, <2>1, <2>2 DEF Sized
<1>10. Kept'
  BY <1>1, <1>2, <1>6 DEF Kept
<1>. QED
  BY <1>5, <1>7, <1>8, <1>9, <1>10 DEF EngineInv

\* What a dispatch adds: a section of the content, as it was placed, with the tokens it held.
LEMMA DispatchOut ==
    ASSUME Engine!EngineAssumption, EngineInv, NEW lands \in BOOLEAN, Engine!Dispatch(lands)
    PROVE  \E out \in Engine!Outs :
               /\ todo # <<>> /\ out.from = Head(todo).from /\ out.to = Head(todo).to
               /\ out.before = Engine!Tokens(out.from, out.to)
               /\ strict => out.form \notin Engine!Ingested \cup {"lossy"}
               /\ outs' = Append(outs, out) /\ todo' = Tail(todo)
               /\ offloaded' = IF out.form \in Engine!Ingested THEN offloaded \cup {<<out.from, out.to>>} ELSE offloaded
<1>1. todo # <<>> /\ todo \in Seq(Engine!Sections) /\ lines \in Contents
  BY DEF Engine!Dispatch, EngineInv, Engine!TypeOK
<1>2. Covering(outs, todo)
  BY DEF EngineInv, Planned, Engine!Dispatch
<1>3. PICK s : s = Head(todo)
  OBVIOUS
<1>4. MaxLines \in Nat /\ Len(lines) \in Nat /\ Len(lines) <= MaxLines
  BY <1>1, LinesFit
<1>5. s \in Engine!Sections /\ 1 <= s.from /\ s.to <= Len(lines) /\ s.from \in Int /\ s.to \in Int
  <2>1. s = todo[1] /\ 1 \in DOMAIN todo
    BY <1>1, <1>3
  <2>2. todo[1] \in Engine!Sections /\ todo[1].from \in Int /\ todo[1].to \in Int
    BY <1>1, <2>1, SectionsNumbered
  <2>. QED
    BY <1>2, <2>1, <2>2 DEF Covering, Between
<1>6. PICK n : n = Engine!Tokens(s.from, s.to)
  OBVIOUS
<1>7. n \in 0..MaxLines
  <2>1. n = Cardinality(Said(s.from, s.to)) /\ n \in Nat
    BY <1>5, <1>6, TokensCount
  <2>2. 1 \in Int /\ Len(lines) \in Int
    BY <1>4
  <2>3. IsFiniteSet(1..Len(lines)) /\ Cardinality(1..Len(lines)) = IF 1 > Len(lines) THEN 0 ELSE Len(lines) - 1 + 1
    BY <2>2, FS_Interval
  <2>4. Said(s.from, s.to) \in SUBSET (1..Len(lines))
    BY <1>4, <1>5 DEF Said
  <2>5. Cardinality(Said(s.from, s.to)) <= Cardinality(1..Len(lines))
    BY <2>3, <2>4, FS_Subset
  <2>. QED
    BY <1>4, <2>1, <2>3, <2>5
<1>8. PICK fences : fences = IF s.fenced THEN 2 ELSE 0
  OBVIOUS
<1>9. fences \in 0..2
  BY <1>8
<1>10. PICK got \in Engine!Arm(s.kind, n) :
         /\ outs' = Append(outs, [from |-> s.from, to |-> s.to, fenced |-> s.fenced,
                                  form |-> Engine!Shipped(got, lands).form,
                                  before |-> Engine!Shipped(got, lands).before,
                                  after |-> Engine!Shipped(got, lands).after + fences])
         /\ offloaded' = IF Engine!Shipped(got, lands).form \in Engine!Ingested /\ lands
                         THEN offloaded \cup {<<s.from, s.to>>} ELSE offloaded
  BY <1>3, <1>6, <1>8 DEF Engine!Dispatch
<1>11. todo' = Tail(todo)
  BY DEF Engine!Dispatch
<1>12. PICK now : now = Engine!Shipped(got, lands)
  OBVIOUS
<1>13. ArmOut(now, n) /\ (now.form \in Engine!Ingested => lands)
  <2>1. s.kind \in Engine!Kinds
    BY <1>5 DEF Engine!Sections
  <2>2. n \in Nat
    BY <1>7
  <2>3. ArmOut(got, n)
    BY <2>1, <2>2, ArmOuts
  <2>. QED
    BY <1>12, <2>2, <2>3, ShippedOut
<1>14. PICK out : out = [from |-> s.from, to |-> s.to, fenced |-> s.fenced, form |-> now.form,
                         before |-> now.before, after |-> now.after + fences]
  OBVIOUS
<1>15. outs' = Append(outs, out)
  BY <1>10, <1>12, <1>14
<1>16. /\ out.from = s.from /\ out.to = s.to /\ out.fenced = s.fenced /\ out.form = now.form
       /\ out.before = now.before /\ out.after = now.after + fences
  BY <1>14
<1>17. now.form \in Engine!Forms /\ now.before = n /\ now.after \in 0..(n + 1)
       /\ (strict => now.form \notin Engine!Ingested \cup {"lossy"})
  BY <1>13 DEF ArmOut
<1>18. out \in Engine!Outs
  <2>1. now.before \in 0..MaxLines /\ now.after + fences \in 0..(MaxLines + 3)
    BY <1>4, <1>7, <1>9, <1>17
  <2>2. s.from \in 1..(MaxLines + 1) /\ s.to \in 0..MaxLines /\ s.fenced \in BOOLEAN
    BY <1>5 DEF Engine!Sections
  <2>. QED
    BY <1>14, <1>17, <2>1, <2>2 DEF Engine!Outs
<1>19. offloaded' = IF out.form \in Engine!Ingested THEN offloaded \cup {<<out.from, out.to>>} ELSE offloaded
  <2>1. offloaded' = IF now.form \in Engine!Ingested /\ lands THEN offloaded \cup {<<s.from, s.to>>} ELSE offloaded
    BY <1>10, <1>12
  <2>2. now.form \in Engine!Ingested => lands
    BY <1>13
  <2>3. CASE now.form \in Engine!Ingested
    BY <1>16, <2>1, <2>2, <2>3
  <2>4. CASE now.form \notin Engine!Ingested
    BY <1>16, <2>1, <2>4
  <2>. QED
    BY <2>3, <2>4
<1>20. out.before = Engine!Tokens(out.from, out.to)
  BY <1>6, <1>16, <1>17
<1>. QED
  BY <1>1, <1>3, <1>11, <1>15, <1>16, <1>17, <1>18, <1>19, <1>20

LEMMA DispatchKeeps ==
    ASSUME Engine!EngineAssumption, EngineInv, NEW lands \in BOOLEAN, Engine!Dispatch(lands)
    PROVE  EngineInv'
<1>1. PICK out \in Engine!Outs :
               /\ todo # <<>> /\ out.from = Head(todo).from /\ out.to = Head(todo).to
               /\ out.before = Engine!Tokens(out.from, out.to)
               /\ strict => out.form \notin Engine!Ingested \cup {"lossy"}
               /\ outs' = Append(outs, out) /\ todo' = Tail(todo)
               /\ offloaded' = IF out.form \in Engine!Ingested THEN offloaded \cup {<<out.from, out.to>>} ELSE offloaded
  BY DispatchOut
<1>2. UNCHANGED <<lines, array, kind, size, strict, phase, sent>> /\ phase = "dispatch"
  BY DEF Engine!Dispatch, Engine!content
<1>3. Engine!TypeOK /\ Phased /\ Sized /\ Kept /\ Covering(outs, todo)
  BY <1>2 DEF EngineInv, Planned
<1>4. outs \in Seq(Engine!Outs) /\ todo \in Seq(Engine!Sections) /\ lines \in Contents
  BY <1>3 DEF Engine!TypeOK
<1>5. Len(lines) \in Nat
  BY <1>4, LinesFit
<1>6. sent.text = "none"
  BY <1>2, <1>3 DEF Phased
<1>7. /\ outs' \in Seq(Engine!Outs) /\ DOMAIN outs' = 1..(Len(outs) + 1) /\ DOMAIN outs = 1..Len(outs)
      /\ Len(outs) \in Nat /\ Len(outs') = Len(outs) + 1 /\ outs'[Len(outs) + 1] = out
      /\ \A n \in 1..Len(outs) : outs'[n] = outs[n]
  BY <1>1, <1>4, AppendPlaces
<1>8. Head(todo) = todo[1] /\ todo' \in Seq(Engine!Sections) /\ 1 \in DOMAIN todo
  <2>1. Head(todo) = todo[1] /\ Tail(todo) \in Seq(Engine!Sections) /\ DOMAIN todo = 1..Len(todo)
        /\ Len(todo) \in Nat /\ Len(todo) >= 1
    BY <1>1, <1>4, TailPlaces
  <2>. QED
    BY <1>1, <2>1
<1>9. Engine!TypeOK'
  <2>1. <<out.from, out.to>> \in (1..(MaxLines + 1)) \X (0..MaxLines)
    BY DEF Engine!Outs
  <2>2. offloaded' \subseteq (1..(MaxLines + 1)) \X (0..MaxLines)
    BY <1>1, <1>3, <2>1 DEF Engine!TypeOK
  <2>. QED
    BY <1>2, <1>3, <1>7, <1>8, <2>2 DEF Engine!TypeOK
<1>10. Planned'
  <2>1. Covering(Append(outs, out), Tail(todo))
    BY <1>1, <1>3, <1>4, DispatchCovers
  <2>2. Covering(outs', todo')
    BY <1>1, <2>1
  <2>3. (Covering(outs, todo))'
    BY <1>2, <2>2 DEF Covering, Apart, Between, Holds
  <2>. QED
    BY <2>3 DEF Planned
<1>11. Phased'
  BY <1>2, <1>6 DEF Phased
<1>12. Sized'
  <2>1. 1 <= out.from /\ out.to <= Len(lines)
    BY <1>1, <1>3, <1>8 DEF Covering, Between
  <2>2. \A n \in DOMAIN outs : outs[n].to < out.from
    BY <1>1, <1>3, <1>8 DEF Covering
  <2>3. Cardinality(Heard(Append(outs, out))) = Cardinality(Heard(outs)) + Engine!Tokens(out.from, out.to)
    BY <1>4, <1>5, <2>1, <2>2, DispatchHears
  <2>4. SumOf(outs', "before") = SumOf(outs, "before") + outs'[Len(outs) + 1]["before"]
    BY <1>7, SumOfLonger
  <2>5. outs'[Len(outs) + 1]["before"] = Engine!Tokens(out.from, out.to)
    BY <1>1, <1>7
  <2>6. (Heard(outs))' = Heard(outs')
    BY <1>2 DEF Heard, Holds
  <2>7. Heard(outs') = Heard(Append(outs, out))
    BY <1>1
  <2>8. (SumOf(outs, "before"))' = SumOf(outs', "before")
    BY DEF SumOf, SumsTo
  <2>9. SumOf(outs, "before") = Cardinality(Heard(outs))
    BY <1>3 DEF Sized
  <2>10. SumOf(outs', "before") = Cardinality((Heard(outs))')
    BY <2>3, <2>4, <2>5, <2>6, <2>7, <2>9
  <2>. QED
    BY <1>2, <1>6, <2>10 DEF Sized
<1>13. Kept'
  <2>1. \A n \in DOMAIN outs' : (n \in DOMAIN outs /\ outs'[n] = outs[n]) \/ outs'[n] = out
    <3>1. \A n \in DOMAIN outs' : n \in 1..Len(outs) \/ n = Len(outs) + 1
      BY <1>7
    <3>. QED
      BY <1>7, <3>1
  <2>2. strict' => \A n \in DOMAIN outs' : outs'[n].form \notin Engine!Ingested \cup {"lossy"}
    BY <1>1, <1>2, <1>3, <2>1 DEF Kept
  <2>3. offloaded \subseteq offloaded'
    BY <1>1
  <2>4. \A n \in DOMAIN outs' : outs'[n].form \in Engine!Ingested => <<outs'[n].from, outs'[n].to>> \in offloaded'
    <3>. SUFFICES ASSUME NEW n \in DOMAIN outs', outs'[n].form \in Engine!Ingested
         PROVE  <<outs'[n].from, outs'[n].to>> \in offloaded'
      OBVIOUS
    <3>1. CASE n \in DOMAIN outs /\ outs'[n] = outs[n]
      BY <1>3, <2>3, <3>1 DEF Kept
    <3>2. CASE outs'[n] = out
      BY <1>1, <3>2
    <3>. QED
      BY <2>1, <3>1, <3>2
  <2>. QED
    BY <1>2, <1>6, <2>2, <2>4 DEF Kept, Engine!Ingested
<1>. QED
  BY <1>9, <1>10, <1>11, <1>12, <1>13 DEF EngineInv

\* The sizes of the sections are numbers.
LEMMA TotalsAreSums ==
    ASSUME EngineInv
    PROVE  /\ Engine!Total("before") = SumOf(outs, "before") /\ Engine!Total("after") = SumOf(outs, "after")
           /\ SumOf(outs, "before") \in Nat /\ SumOf(outs, "after") \in Nat
<1>1. outs \in Seq(Engine!Outs)
  BY DEF EngineInv, Engine!TypeOK
<1>2. Len(outs) \in Nat /\ \A n \in 1..Len(outs) : outs[n] \in Engine!Outs
  BY <1>1
<1>3. \A out \in Engine!Outs : out["before"] \in Nat /\ out["after"] \in Nat
  BY DEF Engine!Outs
<1>4. \A n \in 1..Len(outs) : outs[n]["before"] \in Nat /\ outs[n]["after"] \in Nat
  BY <1>2, <1>3
<1>5. SumOf(outs, "before") \in Nat
  BY <1>2, <1>4, SumOfNats
<1>6. SumOf(outs, "after") \in Nat
  BY <1>2, <1>4, SumOfNats
<1>. QED
  BY <1>5, <1>6, TotalIsSum

LEMMA JoinKeeps ==
    ASSUME Engine!EngineAssumption, EngineInv, Engine!Join
    PROVE  EngineInv'
<1>1. UNCHANGED <<lines, array, kind, size, strict, todo, outs, offloaded>>
  BY DEF Engine!Join, Engine!content
<1>2. phase = "dispatch" /\ todo = <<>> /\ phase' = "guard"
  BY DEF Engine!Join
<1>3. PICK b, a : b = SumOf(outs, "before") /\ a = SumOf(outs, "after")
  OBVIOUS
<1>4. b \in Nat /\ a \in Nat /\ Engine!Total("before") = b /\ Engine!Total("after") = a
  BY <1>3, TotalsAreSums
<1>5. sent' = Engine!Original(b, b) \/ sent' = [text |-> "outs", before |-> b, after |-> a]
  BY <1>4 DEF Engine!Join
<1>6. /\ sent' \in [text : Engine!Texts, before : Nat, after : Nat]
      /\ sent'.text \in {"original", "outs"}
      /\ sent'.text = "outs" => sent'.before = b /\ sent'.after = a
      /\ sent'.text = "original" => sent'.before = sent'.after
  <2>1. CASE sent' = Engine!Original(b, b)
    BY <1>4, <2>1 DEF Engine!Original, Engine!Texts
  <2>2. CASE sent' = [text |-> "outs", before |-> b, after |-> a]
    BY <1>4, <2>2 DEF Engine!Texts
  <2>. QED
    BY <1>5, <2>1, <2>2
<1>7. Engine!TypeOK'
  BY <1>1, <1>2, <1>6 DEF Engine!TypeOK, EngineInv
<1>8. Planned'
  <2>1. Covering(outs, todo)
    BY <1>2 DEF EngineInv, Planned
  <2>. QED
    BY <1>1, <2>1, ReportKeeps DEF Planned
<1>9. Phased'
  BY <1>1, <1>2 DEF Phased
<1>10. Sized'
  BY <1>1, <1>2, <1>3, <1>6, ReportKeeps DEF Sized, EngineInv
<1>11. Kept'
  BY <1>1, <1>6 DEF Kept, EngineInv, Engine!Ingested
<1>. QED
  BY <1>7, <1>8, <1>9, <1>10, <1>11 DEF EngineInv

LEMMA GuardKeeps ==
    ASSUME Engine!EngineAssumption, EngineInv, Engine!Guard
    PROVE  EngineInv'
<1>1. UNCHANGED <<lines, array, kind, size, strict, todo, outs, offloaded>>
  BY DEF Engine!Guard, Engine!content
<1>2. phase = "guard" /\ phase' = "offload"
  BY DEF Engine!Guard
<1>3. sent' = IF sent.text = "outs" /\ SumOf(outs, "after") = 0 THEN Engine!Original(sent.before, sent.before) ELSE sent
  BY TotalsAreSums DEF Engine!Guard, Engine!ShippedTokens, Engine!Restored
<1>4. sent \in [text : Engine!Texts, before : Nat, after : Nat]
  BY DEF EngineInv, Engine!TypeOK
<1>5. CASE sent.text = "outs" /\ SumOf(outs, "after") = 0
  <2>1. sent' = [text |-> "original", before |-> sent.before, after |-> sent.before]
    BY <1>3, <1>5 DEF Engine!Original
  <2>2. sent' \in [text : Engine!Texts, before : Nat, after : Nat] /\ sent'.text = "original" /\ sent'.before = sent'.after
    BY <1>4, <2>1 DEF Engine!Texts
  <2>3. Engine!TypeOK'
    BY <1>1, <1>2, <2>2 DEF Engine!TypeOK, EngineInv
  <2>4. Planned'
    BY <1>2, <2>2 DEF Planned
  <2>5. Phased'
    BY <1>1, <1>2, <2>2 DEF Phased
  <2>6. Sized'
    BY <1>1, <2>2, ReportKeeps DEF Sized, EngineInv
  <2>7. Kept'
    BY <1>1, <2>2 DEF Kept, EngineInv, Engine!Ingested
  <2>. QED
    BY <2>3, <2>4, <2>5, <2>6, <2>7 DEF EngineInv
<1>6. CASE ~(sent.text = "outs" /\ SumOf(outs, "after") = 0)
  <2>1. sent' = sent
    BY <1>3, <1>6
  <2>2. Engine!TypeOK'
    BY <1>1, <1>2, <2>1 DEF Engine!TypeOK, EngineInv
  <2>3. Planned'
    BY <1>1, <1>2, <2>1, ReportKeeps DEF Planned, EngineInv
  <2>4. Phased'
    BY <1>1, <1>2, <2>1 DEF Phased, EngineInv
  <2>5. Sized'
    BY <1>1, <1>2, <1>6, <2>1, ReportKeeps DEF Sized, EngineInv
  <2>6. Kept'
    <3>1. (Engine!Whole)' = Engine!Whole
      BY <1>1 DEF Engine!Whole
    <3>. QED
      BY <1>1, <2>1, <3>1 DEF Kept, EngineInv, Engine!Ingested
  <2>. QED
    BY <2>2, <2>3, <2>4, <2>5, <2>6 DEF EngineInv
<1>. QED
  BY <1>5, <1>6

LEMMA OffloadKeeps ==
    ASSUME Engine!EngineAssumption, EngineInv, NEW marked \in BOOLEAN, NEW lands \in BOOLEAN,
           NEW length \in {1, MaxLines}, Engine!Offload(marked, lands, length)
    PROVE  EngineInv'
<1>1. UNCHANGED <<lines, array, kind, size, strict, todo, outs>>
  BY DEF Engine!Offload, Engine!content
<1>2. phase = "offload" /\ phase' = "shipped"
  BY DEF Engine!Offload
<1>3. lines \in Contents /\ sent \in [text : Engine!Texts, before : Nat, after : Nat]
  BY DEF EngineInv, Engine!TypeOK
<1>4. MaxLines \in Nat /\ Len(lines) \in Nat /\ Len(lines) <= MaxLines
  BY <1>3, LinesFit
<1>5. (Engine!Whole)' = Engine!Whole
  BY <1>1 DEF Engine!Whole
<1>6. CASE Engine!Offloadable(marked) /\ lands
  <2>1. offloaded' = offloaded \cup {Engine!Whole}
        /\ sent' = [text |-> "preview", before |-> Engine!AllTokens, after |-> length]
    BY <1>6 DEF Engine!Offload
  <2>2. ~strict
    BY <1>6 DEF Engine!Offloadable
  <2>3. sent' \in [text : Engine!Texts, before : Nat, after : Nat] /\ sent'.text = "preview"
    <3>1. Engine!AllTokens \in Nat /\ length \in Nat
      BY <1>4, HeardFinite
    <3>. QED
      BY <2>1, <3>1 DEF Engine!Texts
  <2>4. Engine!Whole \in (1..(MaxLines + 1)) \X (0..MaxLines)
    BY <1>4 DEF Engine!Whole
  <2>5. Engine!TypeOK'
    BY <1>1, <1>2, <2>1, <2>3, <2>4 DEF Engine!TypeOK, EngineInv
  <2>6. Planned'
    BY <1>2, <2>3 DEF Planned
  <2>7. Phased'
    BY <1>1, <1>2, <2>3 DEF Phased
  <2>8. Sized'
    BY <1>1, <2>3, ReportKeeps DEF Sized, EngineInv
  <2>9. Kept'
    BY <1>1, <1>5, <2>1, <2>2 DEF Kept, EngineInv, Engine!Ingested
  <2>. QED
    BY <2>5, <2>6, <2>7, <2>8, <2>9 DEF EngineInv
<1>7. CASE ~(Engine!Offloadable(marked) /\ lands)
  <2>1. sent' = sent /\ offloaded' = offloaded
    BY <1>7 DEF Engine!Offload
  <2>2. Engine!TypeOK'
    BY <1>1, <1>2, <2>1 DEF Engine!TypeOK, EngineInv
  <2>3. Planned'
    BY <1>1, <1>2, <2>1, ReportKeeps DEF Planned, EngineInv
  <2>4. Phased'
    BY <1>1, <1>2, <2>1 DEF Phased, EngineInv
  <2>5. Sized'
    BY <1>1, <1>2, <2>1, ReportKeeps DEF Sized, EngineInv
  <2>6. Kept'
    BY <1>1, <1>5, <2>1 DEF Kept, EngineInv, Engine!Ingested
  <2>. QED
    BY <2>2, <2>3, <2>4, <2>5, <2>6 DEF EngineInv
<1>. QED
  BY <1>6, <1>7

LEMMA EngineStep ==
    ASSUME Engine!EngineAssumption, EngineInv, [Engine!Next]_(Engine!vars)
    PROVE  EngineInv'
<1>1. CASE UNCHANGED Engine!vars
  <2>1. UNCHANGED <<lines, array, kind, size, strict, phase, todo, outs, offloaded, sent>>
    BY <1>1 DEF Engine!vars, Engine!content
  <2>2. Engine!TypeOK'
    BY <2>1 DEF Engine!TypeOK, EngineInv
  <2>3. Planned' /\ Phased' /\ Sized'
    BY <2>1, ReportKeeps DEF Planned, Phased, Sized, EngineInv
  <2>4. Kept'
    BY <2>1 DEF Kept, EngineInv, Engine!Ingested, Engine!Whole
  <2>. QED
    BY <2>2, <2>3, <2>4 DEF EngineInv
<1>. QED
  BY <1>1, RouteKeeps, JoinKeeps, GuardKeeps, DispatchKeeps, OffloadKeeps DEF Engine!Next

EnginePart == part = "engine" => EngineInv

LEMMA EngineAlways == Spec => []EnginePart
<1>1. Init => EnginePart
    BY EngineInit, CallsAssumption DEF Init, EnginePart
<1>2. EnginePart /\ [Next]_vars => EnginePart'
    <2> SUFFICES ASSUME EnginePart, [Next]_vars, part' = "engine" PROVE EngineInv'
        BY DEF EnginePart
    <2>1. CASE Next
        <3>1. EngineInv /\ Engine!Next
            BY <2>1 DEF Next, EnginePart
        <3> QED BY <3>1, EngineStep, CallsAssumption
    <2>2. CASE UNCHANGED vars
        <3>1. UNCHANGED part /\ UNCHANGED engineVars
            BY <2>2 DEF vars
        <3>2. EngineInv /\ UNCHANGED Engine!vars
            BY <3>1 DEF EnginePart, engineVars, Engine!vars, Engine!content
        <3> QED BY <3>2, EngineStep, CallsAssumption
    <2> QED BY <2>1, <2>2
<1> QED BY <1>1, <1>2, PTL DEF Spec

LEMMA CoverHolds ==
    ASSUME EngineInv
    PROVE  Engine!TypeOK /\ Engine!SectionsCover
<1>. SUFFICES ASSUME phase = "guard", sent.text = "outs"
     PROVE  /\ \A i \in Engine!Indices : lines[i] \notin {"blank", "fence"} => Engine!Covered(i) = 1
            /\ \A n \in 2..Len(outs) : outs[n - 1].to < outs[n].from
  BY DEF EngineInv, Engine!SectionsCover
<1>1. Covering(outs, todo) /\ todo = <<>> /\ outs \in Seq(Engine!Outs) /\ lines \in Contents
  BY DEF EngineInv, Planned, Phased, Engine!TypeOK
<1>2. DOMAIN lines = 1..Len(lines)
  BY <1>1, LinesFit, CallsAssumption
<1>3. DOMAIN outs = 1..Len(outs) /\ Len(outs) \in Nat
  BY <1>1
<1>4. ASSUME NEW i \in Engine!Indices, lines[i] \notin {"blank", "fence"}
      PROVE  Engine!Covered(i) = 1
  <2>1. i \in 1..Len(lines)
    BY <1>2 DEF Engine!Indices
  <2>2. Holds(outs, i)
    BY <1>1, <1>4, <2>1 DEF Covering, Holds
  <2>3. PICK n \in DOMAIN outs : i \in outs[n].from..outs[n].to
    BY <2>2 DEF Holds
  <2>4. ASSUME NEW m \in DOMAIN outs, i \in outs[m].from..outs[m].to
        PROVE  m = n
    <3>1. \A k \in DOMAIN outs : outs[k].from \in Int /\ outs[k].to \in Int
      BY <1>1, OutsNumbered
    <3>2. m < n => outs[m].to < outs[n].from
      BY <1>1 DEF Covering, Apart
    <3>3. n < m => outs[n].to < outs[m].from
      BY <1>1 DEF Covering, Apart
    <3>4. ~(m < n) /\ ~(n < m)
      BY <2>3, <2>4, <3>1, <3>2, <3>3
    <3>5. m \in Int /\ n \in Int
      BY <1>3
    <3>. QED
      BY <3>4, <3>5
  <2>5. {k \in DOMAIN outs : i \in outs[k].from..outs[k].to} = {n}
    BY <2>3, <2>4
  <2>6. Engine!Covered(i) = Cardinality({k \in DOMAIN outs : i \in outs[k].from..outs[k].to})
    BY EngineCardinality DEF Engine!Covered
  <2>7. Cardinality({n}) = 1
    BY FS_Singleton
  <2>. QED
    BY <2>5, <2>6, <2>7
<1>5. ASSUME NEW n \in 2..Len(outs)
      PROVE  outs[n - 1].to < outs[n].from
  <2>1. n - 1 \in DOMAIN outs /\ n \in DOMAIN outs /\ n - 1 < n
    BY <1>3
  <2>. QED
    BY <1>1, <2>1 DEF Covering, Apart
<1>. QED
  BY <1>4, <1>5

LEMMA SoundHolds ==
    ASSUME EngineInv
    PROVE  Engine!ResultSound
<1>. SUFFICES ASSUME phase = "shipped"
     PROVE  /\ sent.text = "outs" => Engine!ShippedTokens > 0
            /\ sent.text = "original" => sent.before <= sent.after
            /\ sent.text = "outs" => sent.before + Engine!ShippedTokens <= Engine!AllTokens + sent.after
            /\ strict => Engine!Shipping(Engine!Ingested \cup {"lossy"}) = {} /\ sent.text # "preview"
            /\ sent.text = "preview" => Engine!Whole \in offloaded
            /\ \A out \in Engine!Shipping(Engine!Ingested) : <<out.from, out.to>> \in offloaded
  BY DEF Engine!ResultSound
<1>1. Engine!ShippedTokens = SumOf(outs, "after") /\ SumOf(outs, "before") \in Nat /\ SumOf(outs, "after") \in Nat
  BY TotalsAreSums DEF Engine!ShippedTokens
<1>2. sent.before \in Nat /\ sent.after \in Nat /\ lines \in Contents
  BY DEF EngineInv, Engine!TypeOK
<1>3. Sized /\ Kept
  BY DEF EngineInv
<1>4. sent.text = "outs" => Engine!ShippedTokens > 0
  BY <1>1, <1>3 DEF Sized
<1>5. sent.text = "original" => sent.before <= sent.after
  BY <1>2, <1>3 DEF Sized
<1>6. sent.text = "outs" => sent.before + Engine!ShippedTokens <= Engine!AllTokens + sent.after
  <2>1. Cardinality(Heard(outs)) <= Engine!AllTokens /\ Engine!AllTokens \in Nat
    BY <1>2, LinesFit, HeardFinite, CallsAssumption
  <2>. QED
    BY <1>1, <1>2, <1>3, <2>1 DEF Sized
<1>7. strict => Engine!Shipping(Engine!Ingested \cup {"lossy"}) = {} /\ sent.text # "preview"
  BY <1>3 DEF Kept, Engine!Shipping
<1>8. \A out \in Engine!Shipping(Engine!Ingested) : <<out.from, out.to>> \in offloaded
  BY <1>3 DEF Kept, Engine!Shipping
<1>9. sent.text = "preview" => Engine!Whole \in offloaded
  BY <1>3 DEF Kept
<1>. QED
  BY <1>4, <1>5, <1>6, <1>7, <1>8, <1>9

\* For any content, detector, size and compressors: the state of the engine is well formed,
\* and when every section of a mixed content is dispatched, each line that says something is
\* in exactly one section, fences apart, and the sections are in the order of the lines
\* (router_split.py, split_into_sections).
THEOREM SectionsAlwaysCover ==
    Spec => []SectionsCover
<1>1. EnginePart => SectionsCover
    BY CoverHolds DEF EnginePart, SectionsCover
<1> QED BY <1>1, EngineAlways, PTL

\* For any content, detector, size, compressors and durable writes that fail: what the engine
\* ships says something, claims no saving that the text does not show, loses nothing in the
\* strict mode, and holds no view whose original is not durable (router_engine.py,
\* ContentCompressionEngine.compress).
THEOREM ResultAlwaysSound ==
    Spec => []ResultSound
<1>1. EnginePart => ResultSound
    BY SoundHolds DEF EnginePart, ResultSound
<1> QED BY <1>1, EngineAlways, PTL

-----------------------------------------------------------------------------
(* The counts of a histogram *)

\* g[T] is the sum of the counts of the values of T, taken in any order.
Folds(g, rows, f, S) ==
    g = [T \in SUBSET S |->
            IF T = {} THEN 0
            ELSE Views!Count(rows, f, CHOOSE x \in T : TRUE) + g[T \ {CHOOSE x \in T : TRUE}]]

\* The values of the histogram that print as t.
Printed(rows, f, t) == {v \in Views!Top(rows, f) : Views!Text(v) = t}

LEMMA HistogramFolds ==
    ASSUME NEW rows, NEW f, NEW t \in {Views!Text(v) : v \in Views!Top(rows, f)}
    PROVE  Views!Histogram(rows, f)[t] =
               (CHOOSE g : Folds(g, rows, f, Printed(rows, f, t)))[Printed(rows, f, t)]
BY DEF Views!Histogram, Printed, Folds, Views!MapThenSumSet, Views!MapThenFoldSet

\* The instance counts as this module does.
LEMMA ViewsCardinality == \A S : Views!Cardinality(S) = Cardinality(S)
BY DEF Cardinality, Views!Cardinality

\* A finite set has such a sum.
LEMMA FoldExists ==
    ASSUME NEW rows, NEW f, NEW S, IsFiniteSet(S)
    PROVE  \E g : Folds(g, rows, f, S)
<1>. DEFINE N == Cardinality(S)
            Upto(k) == {T \in SUBSET S : Cardinality(T) <= k}
            Part(g, k) == g = [T \in Upto(k) |->
                IF T = {} THEN 0
                ELSE Views!Count(rows, f, CHOOSE x \in T : TRUE) + g[T \ {CHOOSE x \in T : TRUE}]]
            R == {k \in 0..N : \E g : Part(g, k)}
<1>1. N \in Nat /\ \A T \in SUBSET S : IsFiniteSet(T) /\ Cardinality(T) \in Nat /\ Cardinality(T) <= N
  BY FS_CardinalityType, FS_Subset
<1>2. \A T \in SUBSET S : Cardinality(T) = 0 <=> T = {}
  BY <1>1, FS_EmptySet
<1>3. ASSUME NEW T \in SUBSET S, T # {}
      PROVE  T \ {CHOOSE x \in T : TRUE} \in SUBSET S
             /\ Cardinality(T \ {CHOOSE x \in T : TRUE}) = Cardinality(T) - 1
  <2>1. (CHOOSE x \in T : TRUE) \in T
    BY <1>3
  <2>. QED
    BY <1>1, <2>1, FS_RemoveElement
<1>4. 0 \in R
  <2>. DEFINE g == [T \in Upto(0) |-> 0]
  <2>1. \A T \in Upto(0) : T = {}
    BY <1>1, <1>2
  <2>2. g = [T \in Upto(0) |->
                IF T = {} THEN 0
                ELSE Views!Count(rows, f, CHOOSE x \in T : TRUE) + g[T \ {CHOOSE x \in T : TRUE}]]
    <3>1. \A T \in Upto(0) : g[T] = 0
      OBVIOUS
    <3>2. g = [T \in Upto(0) |-> g[T]]
      OBVIOUS
    <3>. HIDE DEF g, Upto
    <3>. QED
      BY <2>1, <3>1, <3>2
  <2>3. 0 \in 0..N
    BY <1>1
  <2>4. \E c : Part(c, 0)
    <3>. HIDE DEF g
    <3>. QED
      BY <2>2
  <2>. HIDE DEF Part
  <2>. QED
    BY <2>3, <2>4
<1>5. ASSUME NEW k \in 0..N, k < N, k \in R
      PROVE  k + 1 \in R
  <2>1. PICK g : Part(g, k)
    BY <1>5
  <2>. DEFINE e == [T \in Upto(k + 1) |->
                IF T = {} THEN 0
                ELSE Views!Count(rows, f, CHOOSE x \in T : TRUE) + g[T \ {CHOOSE x \in T : TRUE}]]
  <2>2. \A T \in Upto(k) : T \in Upto(k + 1) /\ e[T] = g[T]
    <3>1. \A T \in Upto(k) : T \in Upto(k + 1)
      BY <1>1
    <3>2. \A T \in Upto(k + 1) :
              e[T] = IF T = {} THEN 0
                     ELSE Views!Count(rows, f, CHOOSE x \in T : TRUE) + g[T \ {CHOOSE x \in T : TRUE}]
      OBVIOUS
    <3>3. \A T \in Upto(k) :
              g[T] = IF T = {} THEN 0
                     ELSE Views!Count(rows, f, CHOOSE x \in T : TRUE) + g[T \ {CHOOSE x \in T : TRUE}]
      <4>. HIDE DEF Upto
      <4>. QED
        BY <2>1
    <3>. HIDE DEF Upto, e
    <3>. QED
      BY <3>1, <3>2, <3>3
  <2>3. ASSUME NEW T \in Upto(k + 1), T # {}
        PROVE  e[T] = Views!Count(rows, f, CHOOSE x \in T : TRUE) + e[T \ {CHOOSE x \in T : TRUE}]
    <3>1. T \ {CHOOSE x \in T : TRUE} \in Upto(k)
      BY <1>1, <1>3, <2>3
    <3>2. e[T \ {CHOOSE x \in T : TRUE}] = g[T \ {CHOOSE x \in T : TRUE}]
      BY <2>2, <3>1
    <3>3. e[T] = Views!Count(rows, f, CHOOSE x \in T : TRUE) + g[T \ {CHOOSE x \in T : TRUE}]
      BY <2>3
    <3>. QED
      BY <3>2, <3>3
  <2>4. ASSUME NEW T \in Upto(k + 1), T = {}
        PROVE  e[T] = 0
    BY <2>4
  <2>5. Part(e, k + 1)
    <3>1. e = [T \in Upto(k + 1) |-> e[T]]
      OBVIOUS
    <3>. HIDE DEF e
    <3>. QED
      BY <2>3, <2>4, <3>1
  <2>6. k + 1 \in 0..N
    BY <1>1, <1>5
  <2>. HIDE DEF Part, e
  <2>. QED
    BY <2>5, <2>6
<1>6. \A k \in 0..N : k \in R
  <2>. HIDE DEF R, N
  <2>. QED
    BY <1>1, <1>4, <1>5, Upwards
<1>7. PICK g : Part(g, N)
  <2>. HIDE DEF Part
  <2>. QED
    BY <1>1, <1>6
<1>8. Upto(N) = SUBSET S
  BY <1>1
<1>. QED
  BY <1>7, <1>8 DEF Folds

\* The sum is at least the count of each value, and that of the value when it is the only one.
Bounds(total, rows, f, S) ==
    /\ total \in Nat
    /\ \A v \in S : Views!Count(rows, f, v) <= total
    /\ \A v : S = {v} => total = Views!Count(rows, f, v)

LEMMA FoldBounds ==
    ASSUME NEW rows, NEW f, NEW S, IsFiniteSet(S), NEW g, Folds(g, rows, f, S),
           \A v \in S : Views!Count(rows, f, v) \in Nat
    PROVE  Bounds(g[S], rows, f, S)
<1>. DEFINE N == Cardinality(S)
            R == {k \in 0..N : \A T \in SUBSET S : Cardinality(T) <= k =>
                    g[T] \in Nat /\ \A v \in T : Views!Count(rows, f, v) <= g[T]}
<1>1. N \in Nat /\ \A T \in SUBSET S : IsFiniteSet(T) /\ Cardinality(T) \in Nat /\ Cardinality(T) <= N
  BY FS_CardinalityType, FS_Subset
<1>2. \A T \in SUBSET S : Cardinality(T) = 0 <=> T = {}
  BY <1>1, FS_EmptySet
<1>3. g[{}] = 0
  BY DEF Folds
<1>4. ASSUME NEW T \in SUBSET S, T # {}
      PROVE  \E x \in T : /\ T \ {x} \in SUBSET S /\ Cardinality(T \ {x}) = Cardinality(T) - 1
                          /\ g[T] = Views!Count(rows, f, x) + g[T \ {x}]
  <2>1. PICK x : x = CHOOSE y \in T : TRUE
    OBVIOUS
  <2>2. x \in T
    BY <1>4, <2>1
  <2>3. g[T] = Views!Count(rows, f, x) + g[T \ {x}]
    BY <1>4, <2>1 DEF Folds
  <2>. QED
    BY <1>1, <2>2, <2>3, FS_RemoveElement
<1>5. 0 \in R
  <2>1. \A T \in SUBSET S : Cardinality(T) <= 0 => T = {}
    BY <1>1, <1>2
  <2>. QED
    BY <1>1, <1>3, <2>1
<1>6. ASSUME NEW k \in 0..N, k < N, k \in R
      PROVE  k + 1 \in R
  <2>. SUFFICES ASSUME NEW T \in SUBSET S, Cardinality(T) <= k + 1
       PROVE  g[T] \in Nat /\ \A v \in T : Views!Count(rows, f, v) <= g[T]
    BY <1>1, <1>6
  <2>1. CASE T = {}
    BY <1>3, <2>1
  <2>2. CASE T # {}
    <3>1. PICK x \in T : /\ T \ {x} \in SUBSET S /\ Cardinality(T \ {x}) = Cardinality(T) - 1
                         /\ g[T] = Views!Count(rows, f, x) + g[T \ {x}]
      BY <1>4, <2>2
    <3>2. Cardinality(T \ {x}) <= k
      BY <1>1, <3>1
    <3>3. g[T \ {x}] \in Nat /\ \A v \in T \ {x} : Views!Count(rows, f, v) <= g[T \ {x}]
      BY <1>6, <3>1, <3>2
    <3>4. Views!Count(rows, f, x) \in Nat
      OBVIOUS
    <3>5. \A v \in T : v = x \/ v \in T \ {x}
      OBVIOUS
    <3>6. \A v \in T : Views!Count(rows, f, v) \in Nat
      OBVIOUS
    <3>. QED
      BY <3>1, <3>3, <3>4, <3>5, <3>6
  <2>. QED
    BY <2>1, <2>2
<1>7. \A k \in 0..N : k \in R
  <2>. HIDE DEF R, N
  <2>. QED
    BY <1>1, <1>5, <1>6, Upwards
<1>8. g[S] \in Nat /\ \A v \in S : Views!Count(rows, f, v) <= g[S]
  <2>1. N \in R
    BY <1>1, <1>7
  <2>. QED
    BY <1>1, <2>1
<1>9. ASSUME NEW v, S = {v}
      PROVE  g[S] = Views!Count(rows, f, v)
  <2>1. PICK x \in S : g[S] = Views!Count(rows, f, x) + g[S \ {x}]
    BY <1>4, <1>9
  <2>2. x = v /\ S \ {x} = {}
    BY <1>9
  <2>3. Views!Count(rows, f, v) \in Nat
    BY <1>9
  <2>. QED
    BY <1>3, <2>1, <2>2, <2>3
<1>. QED
  BY <1>8, <1>9 DEF Bounds

-----------------------------------------------------------------------------
(* The runs of lines *)

LEMMA MinOfNats ==
    ASSUME NEW S \in SUBSET Nat, S # {}
    PROVE  Views!Min(S) \in S /\ \A y \in S : Views!Min(S) <= y
<1>1. PICK x \in S : \A y \in S : x <= y
  BY LeastOfNats
<1>. QED
  BY <1>1 DEF Views!Min

\* The lines where a run starts, and the line where the run that starts at i stops.
Starts(include) ==
    {i \in DOMAIN doc.lines :
        i = 1 \/ ~(Views!Eligible(doc.lines[i - 1], include) = Views!Eligible(doc.lines[i], include))}

Stop(include, i) == Views!Min({j - 1 : j \in {j \in Starts(include) : j > i}} \cup {Len(doc.lines)})

LEMMA PartitionRuns ==
    ASSUME NEW include \in BOOLEAN
    PROVE  Views!Partition(include) =
               {[from |-> i, to |-> Stop(include, i), eligible |-> Views!Eligible(doc.lines[i], include)] :
                   i \in Starts(include)}
BY DEF Views!Partition, Starts, Stop

LEMMA LinesOfDoc ==
    ASSUME Views!ViewsAssumption, doc \in Documents
    PROVE  /\ doc.lines \in Seq(Views!TextLines) /\ DOMAIN doc.lines = 1..Len(doc.lines) /\ Len(doc.lines) \in Nat
           /\ \A i \in DOMAIN doc.lines : doc.lines[i] \in Views!TextLines
<1>1. doc.lines \in Seq(Views!TextLines)
  BY DEF Views!ViewsAssumption
<1>. QED
  BY <1>1

\* A run stops before the next one starts, and holds lines of one kind.
LEMMA RunStops ==
    ASSUME Views!ViewsAssumption, doc \in Documents, NEW include \in BOOLEAN, NEW i \in Starts(include)
    PROVE  /\ i \in 1..Len(doc.lines) /\ Stop(include, i) \in i..Len(doc.lines)
           /\ \A j \in Starts(include) : j > i => Stop(include, i) <= j - 1
           /\ Stop(include, i) = Len(doc.lines) \/ Stop(include, i) + 1 \in Starts(include)
           /\ \A j \in i..Stop(include, i) :
                Views!Eligible(doc.lines[j], include) = Views!Eligible(doc.lines[i], include)
<1>. DEFINE L == Len(doc.lines)
            later == {j - 1 : j \in {j \in Starts(include) : j > i}}
            e(j) == Views!Eligible(doc.lines[j], include)
<1>1. DOMAIN doc.lines = 1..L /\ L \in Nat
  BY LinesOfDoc
<1>2. i \in 1..L /\ \A j \in Starts(include) : j \in 1..L
  BY <1>1 DEF Starts
<1>3. PICK to : to = Stop(include, i)
  OBVIOUS
<1>4. to \in later \cup {L} /\ \A y \in later \cup {L} : to <= y
  <2>1. later \cup {L} \in SUBSET Nat
    BY <1>1, <1>2
  <2>2. to = Views!Min(later \cup {L})
    BY <1>3 DEF Stop
  <2>. HIDE DEF later
  <2>. QED
    BY <2>1, <2>2, MinOfNats
<1>5. to \in i..L
  BY <1>1, <1>2, <1>4
<1>6. \A j \in Starts(include) : j > i => to <= j - 1
  BY <1>4
<1>7. to = L \/ to + 1 \in Starts(include)
  <2>1. \A y \in later : y + 1 \in Starts(include)
    BY <1>2
  <2>. QED
    BY <1>4, <2>1
<1>8. \A j \in i..to : e(j) = e(i)
  <2>. DEFINE n == to - i
              R == {k \in 0..n : e(i + k) = e(i)}
  <2>1. n \in Nat
    BY <1>2, <1>5
  <2>2. 0 \in R
    <3>1. i + 0 = i
      BY <1>2
    <3>. QED
      BY <2>1, <3>1
  <2>3. ASSUME NEW k \in 0..n, k < n, k \in R
        PROVE  k + 1 \in R
    <3>1. i + (k + 1) \in 1..L /\ i + (k + 1) > i /\ i + (k + 1) <= to /\ (i + (k + 1)) - 1 = i + k /\ k + 1 \in 0..n
          /\ i + (k + 1) # 1
      BY <1>2, <1>5, <2>1, <2>3
    <3>2. i + (k + 1) \notin Starts(include)
      <4>. SUFFICES ASSUME i + (k + 1) \in Starts(include)
           PROVE  FALSE
        OBVIOUS
      <4>1. to <= i + (k + 1) - 1
        BY <1>6, <3>1
      <4>. QED
        BY <1>5, <3>1, <4>1
    <3>3. e((i + (k + 1)) - 1) = e(i + (k + 1))
      BY <1>1, <3>1, <3>2 DEF Starts
    <3>4. e(i + k) = e(i)
      BY <2>3
    <3>5. e(i + (k + 1)) = e(i)
      BY <3>1, <3>3, <3>4
    <3>. QED
      BY <3>1, <3>5
  <2>4. \A k \in 0..n : k \in R
    <3>. HIDE DEF R, n
    <3>. QED
      BY <2>1, <2>2, <2>3, Upwards
  <2>5. \A j \in i..to : j - i \in 0..n /\ i + (j - i) = j
    BY <1>2, <1>5
  <2>. QED
    BY <2>4, <2>5
<1>. QED
  BY <1>2, <1>3, <1>5, <1>6, <1>7, <1>8

\* Each line is in the run of the last start before it.
LEMMA RunOfLine ==
    ASSUME Views!ViewsAssumption, doc \in Documents, NEW include \in BOOLEAN, NEW i \in DOMAIN doc.lines
    PROVE  \E s \in Starts(include) : i \in s..Stop(include, s)
<1>. DEFINE L == Len(doc.lines)
            S == {i - s : s \in {s \in Starts(include) : s <= i}}
<1>1. DOMAIN doc.lines = 1..L /\ L \in Nat /\ i \in 1..L
  BY LinesOfDoc
<1>2. Starts(include) \subseteq 1..L /\ 1 \in Starts(include)
  BY <1>1 DEF Starts
<1>3. S \in SUBSET Nat /\ S # {}
  BY <1>1, <1>2
<1>4. PICK d \in S : \A e \in S : d <= e
  BY <1>3, MinOfNats
<1>5. PICK s \in Starts(include) : s <= i /\ d = i - s
  OBVIOUS
<1>6. \A t \in Starts(include) : t <= i => t <= s
  <2>. SUFFICES ASSUME NEW t \in Starts(include), t <= i
       PROVE  t <= s
    OBVIOUS
  <2>1. i - t \in S /\ t \in Int /\ s \in Int
    BY <1>2
  <2>2. d <= i - t
    BY <1>4, <2>1
  <2>. QED
    BY <1>1, <1>5, <2>1, <2>2
<1>7. /\ Stop(include, s) \in s..L
      /\ Stop(include, s) = L \/ Stop(include, s) + 1 \in Starts(include)
  BY RunStops
<1>8. i <= Stop(include, s)
  <2>1. CASE Stop(include, s) = L
    BY <1>1, <2>1
  <2>2. CASE Stop(include, s) + 1 \in Starts(include)
    <3>1. Stop(include, s) + 1 > s
      BY <1>1, <1>2, <1>7
    <3>2. ~(Stop(include, s) + 1 <= i)
      BY <1>2, <1>6, <1>7, <2>2, <3>1
    <3>. QED
      BY <1>1, <1>7, <3>2
  <2>. QED
    BY <1>7, <2>1, <2>2
<1>. QED
  BY <1>1, <1>2, <1>5, <1>7, <1>8

LEMMA PartitionTiles ==
    ASSUME Views!ViewsAssumption, doc \in Documents, NEW include \in BOOLEAN,
           NEW parts, parts = Views!Partition(include)
    PROVE  /\ \A i \in DOMAIN doc.lines : Views!Cardinality({p \in parts : i \in p.from..p.to}) = 1
           /\ \A p, q \in parts : p.to + 1 = q.from => p.eligible # q.eligible
           /\ \A p \in parts : p.eligible =>
                \A i \in p.from..p.to : ~doc.lines[i].long /\ (doc.lines[i].severe => doc.lines[i].slow)
<1>. DEFINE L == Len(doc.lines)
            e(j) == Views!Eligible(doc.lines[j], include)
<1>1. DOMAIN doc.lines = 1..L /\ L \in Nat
  BY LinesOfDoc
<1>2. \A p \in parts : p.from \in Starts(include) /\ p.to = Stop(include, p.from) /\ p.eligible = e(p.from)
  BY PartitionRuns
<1>3. ASSUME NEW s \in Starts(include)
      PROVE  \E p \in parts : p.from = s
  <2>1. PICK p : p = [from |-> s, to |-> Stop(include, s), eligible |-> e(s)]
    OBVIOUS
  <2>2. p \in parts
    BY <2>1, PartitionRuns
  <2>. QED
    BY <2>1, <2>2
<1>4. \A p, q \in parts : p.from = q.from => p = q
  <2>. SUFFICES ASSUME NEW p \in parts, NEW q \in parts, p.from = q.from
       PROVE  p = q
    OBVIOUS
  <2>1. PICK i \in Starts(include) : p = [from |-> i, to |-> Stop(include, i), eligible |-> e(i)]
    BY PartitionRuns
  <2>2. PICK j \in Starts(include) : q = [from |-> j, to |-> Stop(include, j), eligible |-> e(j)]
    BY PartitionRuns
  <2>3. i = j
    BY <2>1, <2>2
  <2>. QED
    BY <2>1, <2>2, <2>3
<1>5. \A s \in Starts(include) : s \in 1..L /\ Stop(include, s) \in s..L
  BY RunStops
<1>6. ASSUME NEW i \in DOMAIN doc.lines
      PROVE  Views!Cardinality({p \in parts : i \in p.from..p.to}) = 1
  <2>1. PICK s \in Starts(include) : i \in s..Stop(include, s)
    BY <1>6, RunOfLine
  <2>2. PICK p \in parts : p.from = s
    BY <1>3
  <2>3. p.to = Stop(include, s)
    BY <1>2, <2>2
  <2>4. ASSUME NEW q \in parts, i \in q.from..q.to
        PROVE  q = p
    <3>1. q.from \in Starts(include) /\ q.to = Stop(include, q.from)
      BY <1>2
    <3>2. PICK t \in Starts(include) : t = q.from
      BY <3>1
    <3>3. i \in t..Stop(include, t)
      BY <2>4, <3>1, <3>2
    <3>4. s \in 1..L /\ t \in 1..L /\ Stop(include, s) \in s..L /\ Stop(include, t) \in t..L
      BY <1>5
    <3>5. t > s => Stop(include, s) <= t - 1
      BY RunStops
    <3>6. s > t => Stop(include, t) <= s - 1
      BY RunStops
    <3>7. s = t
      BY <1>1, <2>1, <3>3, <3>4, <3>5, <3>6
    <3>. QED
      BY <1>4, <2>2, <3>2, <3>7
  <2>5. {q \in parts : i \in q.from..q.to} = {p}
    BY <2>1, <2>2, <2>3, <2>4
  <2>6. Cardinality({p}) = 1
    BY FS_Singleton
  <2>. QED
    BY <2>5, <2>6, ViewsCardinality
<1>7. ASSUME NEW p \in parts, NEW q \in parts, p.to + 1 = q.from
      PROVE  p.eligible # q.eligible
  <2>1. PICK s \in Starts(include) : s = p.from
    BY <1>2
  <2>2. PICK t \in Starts(include) : t = q.from
    BY <1>2
  <2>3. p.to = Stop(include, s) /\ p.eligible = e(s) /\ q.eligible = e(t)
    BY <1>2, <2>1, <2>2
  <2>4. s \in 1..L /\ Stop(include, s) \in s..L /\ t = Stop(include, s) + 1
    BY <1>5, <1>7, <2>2, <2>3
  <2>5. t # 1 /\ t - 1 = Stop(include, s) /\ t - 1 \in s..Stop(include, s)
    BY <1>1, <2>4
  <2>6. ~(e(t - 1) = e(t))
    BY <2>5 DEF Starts
  <2>7. e(t - 1) = e(s)
    BY <2>5, RunStops
  <2>. QED
    BY <2>3, <2>6, <2>7
<1>8. ASSUME NEW p \in parts, p.eligible, NEW i \in p.from..p.to
      PROVE  ~doc.lines[i].long /\ (doc.lines[i].severe => doc.lines[i].slow)
  <2>1. PICK s \in Starts(include) : s = p.from
    BY <1>2
  <2>2. p.to = Stop(include, s) /\ p.eligible = e(s)
    BY <1>2, <2>1
  <2>3. e(i) = e(s)
    BY <1>8, <2>1, <2>2, RunStops
  <2>4. e(i)
    BY <1>8, <2>2, <2>3
  <2>. QED
    BY <2>4 DEF Views!Eligible
<1>. QED
  BY <1>6, <1>7, <1>8

-----------------------------------------------------------------------------
(* The rows of an original, and the answers about them *)

LEMMA OnlyMember ==
    ASSUME NEW n \in Nat, NEW S \in SUBSET (1..n), Views!Cardinality(S) = 1
    PROVE  S = {Views!Max(S)} /\ Views!Max(S) \in 1..n
<1>1. IsFiniteSet(1..n)
  <2>1. 1 \in Int /\ n \in Int
    OBVIOUS
  <2>. QED
    BY <2>1, FS_Interval
<1>2. IsFiniteSet(S) /\ Cardinality(S) = 1
  BY <1>1, FS_Subset, ViewsCardinality
<1>3. PICK x : S = {x}
  BY <1>2, FS_Singleton
<1>4. x \in 1..n /\ x <= x
  BY <1>3
<1>5. Views!Max(S) \in S
  BY <1>3, <1>4 DEF Views!Max
<1>. QED
  BY <1>3, <1>4, <1>5

\* The members of the object that hold rows.
WithRows == {i \in Views!Effective(doc.members) : Views!HasRows(doc.members, i)}

LEMMA MembersOfDoc ==
    ASSUME Views!ViewsAssumption, doc \in Documents
    PROVE  /\ doc.shape \in {"lines", "array", "object"}
           /\ DOMAIN doc.members = 1..Len(doc.members) /\ Len(doc.members) \in Nat
           /\ doc.shape = "array" => Len(doc.members) = 1
           /\ \A i \in 1..Len(doc.members) :
                /\ doc.members[i].value # None
                /\ Len(doc.members[i].value) \in Nat
                /\ DOMAIN doc.members[i].value = 1..Len(doc.members[i].value)
BY DEF Views!ViewsAssumption, Views!Listed, Views!Table

\* The rows of an original are those of one of its members.
LEMMA RowsOfDoc ==
    ASSUME Views!ViewsAssumption, doc \in Documents
    PROVE  /\ doc.shape = "array" => Views!RowsAt = doc.members[1].value /\ 1 \in 1..Len(doc.members)
           /\ doc.shape = "object" /\ Views!Cardinality(WithRows) = 1 =>
                /\ Views!RowsAt = doc.members[Views!Max(WithRows)].value
                /\ WithRows = {Views!Max(WithRows)} /\ Views!Max(WithRows) \in 1..Len(doc.members)
           /\ doc.shape = "object" /\ Views!Cardinality(WithRows) # 1 => Views!RowsAt = None
           /\ doc.shape = "lines" => Views!RowsAt = None
<1>1. DOMAIN doc.members = 1..Len(doc.members) /\ Len(doc.members) \in Nat
  BY MembersOfDoc
<1>2. WithRows \in SUBSET (1..Len(doc.members))
  BY <1>1 DEF WithRows, Views!Effective
<1>3. Views!Cardinality(WithRows) = 1 =>
          WithRows = {Views!Max(WithRows)} /\ Views!Max(WithRows) \in 1..Len(doc.members)
  BY <1>1, <1>2, OnlyMember
<1>4. doc.shape = "array" => 1 \in 1..Len(doc.members)
  BY <1>1, MembersOfDoc
<1>5. doc.shape = "array" => Views!RowsAt = doc.members[1].value
  BY DEF Views!RowsAt
<1>6. doc.shape = "object" => Views!RowsAt = IF Views!Cardinality(WithRows) = 1
                                            THEN doc.members[Views!Max(WithRows)].value ELSE None
  BY DEF Views!RowsAt, WithRows
<1>7. doc.shape = "lines" => Views!RowsAt = None
  BY DEF Views!RowsAt
<1>. QED
  BY <1>3, <1>4, <1>5, <1>6, <1>7

LEMMA RowsAreListed ==
    ASSUME Views!ViewsAssumption, doc \in Documents, Views!RowsAt # None
    PROVE  Len(Views!RowsAt) \in Nat /\ DOMAIN Views!RowsAt = 1..Len(Views!RowsAt)
<1>1. \E k \in 1..Len(doc.members) : Views!RowsAt = doc.members[k].value
  BY MembersOfDoc, RowsOfDoc
<1>. QED
  BY <1>1, MembersOfDoc

\* The rows that a raw selection quotes are those it selects from.
LEMMA SpansAreRows ==
    ASSUME Views!ViewsAssumption, doc \in Documents, Views!RowsAt # None, Views!Spans # None
    PROVE  Views!Spans = Views!RowsAt
<1>. DEFINE S == {i \in DOMAIN doc.members : Views!HasRows(doc.members, i)}
<1>1. DOMAIN doc.members = 1..Len(doc.members) /\ Len(doc.members) \in Nat
  BY MembersOfDoc
<1>2. Views!Cardinality(S) = 1 /\ Views!Spans = doc.members[Views!Max(S)].value
  BY DEF Views!Spans
<1>3. S \in SUBSET (1..Len(doc.members))
  BY <1>1
<1>4. S = {Views!Max(S)} /\ Views!Max(S) \in 1..Len(doc.members)
  <2>. HIDE DEF S
  <2>. QED
    BY <1>1, <1>2, <1>3, OnlyMember
<1>5. CASE doc.shape = "array"
  <2>1. Len(doc.members) = 1 /\ Views!RowsAt = doc.members[1].value
    BY <1>5, MembersOfDoc, RowsOfDoc
  <2>2. Views!Max(S) = 1
    BY <1>4, <2>1
  <2>. QED
    BY <1>2, <2>1, <2>2
<1>6. CASE doc.shape = "object"
  <2>1. Views!Cardinality(WithRows) = 1
    BY <1>6, RowsOfDoc
  <2>2. Views!RowsAt = doc.members[Views!Max(WithRows)].value /\ WithRows = {Views!Max(WithRows)}
    BY <1>6, <2>1, RowsOfDoc
  <2>3. WithRows \subseteq S
    BY DEF WithRows, Views!Effective
  <2>4. Views!Max(WithRows) = Views!Max(S)
    <3>. HIDE DEF S
    <3>. QED
      BY <1>4, <2>2, <2>3
  <2>. QED
    BY <1>2, <2>2, <2>4
<1>7. CASE doc.shape = "lines"
  BY <1>7, RowsOfDoc
<1>. QED
  BY <1>5, <1>6, <1>7, MembersOfDoc

\* The answer to a filtered retrieve.
Response(r) ==
    IF Views!Refused(r) THEN Views!Error
    ELSE IF r.field # None THEN Views!Select(r)
    ELSE IF r.fields # {} THEN Views!Project(r)
    ELSE Views!Filter(r)

\* The rows that r keeps.
KeptRows(rows, r) ==
    IF r.field = None THEN DOMAIN rows ELSE {i \in DOMAIN rows : Views!Keeps(rows[i], r)}

\* An answer of rows is about the rows of the original.
LEMMA RowsAnswer ==
    ASSUME Views!ViewsAssumption, doc \in Documents, NEW r, Response(r).kind = "rows"
    PROVE  /\ ~Views!Refused(r) /\ Views!RowsAt # None
           /\ Response(r) = Views!Rows(Views!RowsAt, KeptRows(Views!RowsAt, r), r)
           /\ r.field # None /\ r.raw => Views!Spans = Views!RowsAt
<1>1. Views!Error.kind # "rows"
  BY DEF Views!Error
<1>2. ~Views!Refused(r)
  BY <1>1 DEF Response
<1>3. CASE r.field # None
  <2>1. Response(r) = Views!Select(r)
    BY <1>2, <1>3 DEF Response
  <2>2. ~(Views!RowsAt = None \/ (r.raw /\ (Views!Spans = None \/ Len(Views!Spans) # Len(Views!RowsAt))))
    BY <1>1, <2>1 DEF Views!Select
  <2>3. Response(r) = Views!Rows(Views!RowsAt, {i \in DOMAIN Views!RowsAt : Views!Keeps(Views!RowsAt[i], r)}, r)
    BY <2>1, <2>2 DEF Views!Select
  <2>4. KeptRows(Views!RowsAt, r) = {i \in DOMAIN Views!RowsAt : Views!Keeps(Views!RowsAt[i], r)}
    BY <1>3 DEF KeptRows
  <2>5. r.raw => Views!Spans = Views!RowsAt
    BY <2>2, SpansAreRows
  <2>. QED
    BY <1>2, <2>2, <2>3, <2>4, <2>5
<1>4. CASE r.field = None /\ r.fields # {}
  <2>1. Response(r) = Views!Project(r)
    BY <1>2, <1>4 DEF Response
  <2>2. doc.shape = "array"
    BY <1>1, <2>1 DEF Views!Project
  <2>3. Response(r) = Views!Rows(doc.members[1].value, DOMAIN doc.members[1].value, r)
    BY <2>1, <2>2 DEF Views!Project
  <2>4. Views!RowsAt = doc.members[1].value /\ Views!RowsAt # None
    BY <2>2, RowsOfDoc, MembersOfDoc
  <2>5. KeptRows(Views!RowsAt, r) = DOMAIN doc.members[1].value
    BY <1>4, <2>4 DEF KeptRows
  <2>6. Response(r) = Views!Rows(Views!RowsAt, KeptRows(Views!RowsAt, r), r)
    BY <2>3, <2>4, <2>5
  <2>. QED
    BY <1>2, <1>4, <2>4, <2>6
<1>5. CASE r.field = None /\ r.fields = {}
  <2>1. Response(r) = Views!Filter(r)
    BY <1>2, <1>5 DEF Response
  <2>2. Response(r).kind = "lines"
    BY <2>1 DEF Views!Filter
  <2>. QED
    BY <2>2
<1>. QED
  BY <1>3, <1>4, <1>5

\* Every kept row is shown when no more are kept than the limit.
LEMMA TakesAll ==
    ASSUME NEW n \in Nat, NEW S \in SUBSET (1..n), NEW limit,
           limit = None \/ (limit \in Nat /\ Views!Cardinality(S) <= limit)
    PROVE  Views!Take(S, limit) = S
<1>. SUFFICES ASSUME NEW i \in S, limit # None
     PROVE  Views!Cardinality({j \in S : j < i}) < limit
  BY DEF Views!Take
<1>1. IsFiniteSet(1..n)
  <2>1. 1 \in Int /\ n \in Int
    OBVIOUS
  <2>. QED
    BY <2>1, FS_Interval
<1>2. IsFiniteSet(S)
  BY <1>1, FS_Subset
<1>3. {j \in S : j < i} \in SUBSET S /\ i \notin {j \in S : j < i}
  OBVIOUS
<1>4. Cardinality({j \in S : j < i}) <= Cardinality(S) /\ Cardinality({j \in S : j < i}) # Cardinality(S)
  BY <1>2, <1>3, FS_Subset
<1>5. Cardinality(S) \in Nat /\ Cardinality({j \in S : j < i}) \in Nat
  BY <1>2, <1>3, FS_Subset, FS_CardinalityType
<1>. QED
  BY <1>4, <1>5, ViewsCardinality

LEMMA RowsHonest ==
    ASSUME Views!ViewsAssumption, doc \in Documents, request \in Filters, answer = Response(request), answer.kind = "rows"
    PROVE  /\ \A i \in answer.shown : request.field # None => request.field \in DOMAIN Views!RowsAt[i]
           /\ request.equals # None /\ ~Views!HasRange(request) =>
                \A i \in DOMAIN Views!RowsAt :
                    (i \in answer.shown) => Views!RowsAt[i][request.field].type = request.equals.type
           /\ ~answer.marked /\ request.equals # None =>
                \A i \in Views!With(Views!RowsAt, request.field) :
                    Views!RowsAt[i][request.field] = request.equals => i \in answer.shown
           /\ answer.matched = 0 /\ request.field # None =>
                (answer.noted <=> \A i \in DOMAIN Views!RowsAt : request.field \notin DOMAIN Views!RowsAt[i])
           /\ request.raw => \A i \in answer.shown : Views!Spans[i] = Views!RowsAt[i]
<1>. DEFINE r == request
            rows == Views!RowsAt
            kept == KeptRows(rows, r)
<1>1. /\ ~Views!Refused(r) /\ rows # None
      /\ answer = Views!Rows(rows, kept, r)
      /\ r.field # None /\ r.raw => Views!Spans = rows
  BY RowsAnswer
<1>2. Len(rows) \in Nat /\ DOMAIN rows = 1..Len(rows)
  BY <1>1, RowsAreListed
<1>3. r.equals # None => r.field # None /\ ~Views!HasRange(r)
  BY <1>1 DEF Views!Refused
<1>4. r.raw => r.field # None
  BY <1>1 DEF Views!Refused
<1>5. /\ answer.shown = Views!Take(kept, r.limit) /\ answer.matched = Views!Cardinality(kept)
      /\ answer.marked = (r.limit # None /\ Views!Cardinality(kept) > r.limit)
      /\ answer.noted = (r.field # None /\ kept = {} /\ Views!With(rows, r.field) = {})
  BY <1>1 DEF Views!Rows
<1>6. kept \in SUBSET (1..Len(rows)) /\ answer.shown \subseteq kept
  BY <1>2, <1>5 DEF KeptRows, Views!Take
<1>7. r.field # None => kept = {i \in DOMAIN rows : Views!Keeps(rows[i], r)}
  BY DEF KeptRows
<1>8. IsFiniteSet(kept) /\ Cardinality(kept) \in Nat
  <2>1. 1 \in Int /\ Len(rows) \in Int
    BY <1>2
  <2>2. IsFiniteSet(1..Len(rows))
    BY <2>1, FS_Interval
  <2>. QED
    BY <1>6, <2>2, FS_Subset, FS_CardinalityType
<1>. HIDE DEF kept, rows
<1>9. \A i \in answer.shown : r.field # None => r.field \in DOMAIN rows[i]
  BY <1>6, <1>7 DEF Views!Keeps
<1>10. r.equals # None => \A i \in answer.shown : rows[i][r.field] = r.equals
  <2>. SUFFICES ASSUME r.equals # None, NEW i \in answer.shown
       PROVE  rows[i][r.field] = r.equals
    OBVIOUS
  <2>1. Views!Keeps(rows[i], r) /\ ~Views!HasRange(r)
    BY <1>3, <1>6, <1>7
  <2>. QED
    BY <2>1 DEF Views!Keeps, Views!Equals
<1>11. ASSUME ~answer.marked, r.equals # None, NEW i \in Views!With(rows, r.field), rows[i][r.field] = r.equals
       PROVE  i \in answer.shown
  <2>1. i \in DOMAIN rows /\ r.field \in DOMAIN rows[i] /\ r.field # None /\ ~Views!HasRange(r)
    BY <1>3, <1>11 DEF Views!With
  <2>2. Views!Keeps(rows[i], r)
    BY <1>11, <2>1 DEF Views!Keeps, Views!Equals
  <2>3. i \in kept
    BY <1>7, <2>1, <2>2
  <2>4. r.limit = None \/ r.limit \in Nat
    BY DEF Views!ViewsAssumption
  <2>5. r.limit = None \/ (r.limit \in Nat /\ Views!Cardinality(kept) <= r.limit)
    <3>1. ~(r.limit # None /\ Views!Cardinality(kept) > r.limit)
      BY <1>5, <1>11
    <3>2. Views!Cardinality(kept) \in Nat
      BY <1>8, ViewsCardinality
    <3>. QED
      BY <2>4, <3>1, <3>2
  <2>6. Views!Take(kept, r.limit) = kept
    BY <1>2, <1>6, <2>5, TakesAll
  <2>. QED
    BY <1>5, <2>3, <2>6
<1>12. ASSUME answer.matched = 0, r.field # None
       PROVE  answer.noted <=> \A i \in DOMAIN rows : r.field \notin DOMAIN rows[i]
  <2>1. kept = {}
    BY <1>5, <1>8, <1>12, ViewsCardinality, FS_EmptySet
  <2>2. answer.noted <=> Views!With(rows, r.field) = {}
    BY <1>5, <1>12, <2>1
  <2>. QED
    BY <2>2 DEF Views!With
<1>13. r.raw => \A i \in answer.shown : Views!Spans[i] = rows[i]
  BY <1>1, <1>4
<1>. QED
  BY <1>9, <1>10, <1>11, <1>12, <1>13 DEF rows

\* An answer of lines shows those that were asked for, and counts the long ones it skips.
LEMMA LinesHonest ==
    ASSUME Views!ViewsAssumption, doc \in Documents, request \in Filters, answer = Response(request), answer.kind = "lines"
    PROVE  LET hits == {i \in DOMAIN doc.lines : doc.lines[i].hit /\ ~doc.lines[i].slow} IN
           /\ \A i \in answer.shown :
                /\ (request.start # None => request.start <= i) /\ (request.end # None => i <= request.end)
                /\ request.pattern # None =>
                    \E j \in Views!Window(request) :
                        doc.lines[j].hit /\ j - i <= request.context /\ i - j <= request.context
           /\ request.pattern # None =>
                Views!Cardinality((hits \cap Views!Window(request)) \ answer.shown) <= answer.skipped
<1>. DEFINE r == request
            W == Views!Window(r)
            hits == {i \in DOMAIN doc.lines : doc.lines[i].hit /\ ~doc.lines[i].slow}
            found == {i \in W : Views!Matches(doc.lines[i], r)}
            long == {i \in W : doc.lines[i].long}
            missed == (hits \cap W) \ answer.shown
<1>1. answer = Views!Filter(r) /\ ~Views!Refused(r)
  <2>1. Views!Error.kind # "lines"
    BY DEF Views!Error
  <2>2. ~Views!Refused(r)
    BY <2>1 DEF Response
  <2>3. ASSUME NEW rows, NEW kept
        PROVE  Views!Rows(rows, kept, r).kind # "lines"
    BY DEF Views!Rows
  <2>4. r.field = None
    <3>. SUFFICES ASSUME r.field # None
         PROVE  FALSE
      OBVIOUS
    <3>1. answer = Views!Select(r)
      BY <2>2 DEF Response
    <3>. QED
      BY <2>1, <2>3, <3>1 DEF Views!Select
  <2>5. r.fields = {}
    <3>. SUFFICES ASSUME r.fields # {}
         PROVE  FALSE
      OBVIOUS
    <3>1. answer = Views!Project(r)
      BY <2>2, <2>4 DEF Response
    <3>. QED
      BY <2>1, <2>3, <3>1 DEF Views!Project
  <2>. QED
    BY <2>2, <2>4, <2>5 DEF Response
<1>2. DOMAIN doc.lines = 1..Len(doc.lines) /\ Len(doc.lines) \in Nat
      /\ \A i \in DOMAIN doc.lines : doc.lines[i] \in Views!TextLines
  BY LinesOfDoc
<1>3. /\ r.context \in Nat /\ r.pattern \in {None, "literal", "regex", "pathological"} /\ r.pattern # "pathological"
  BY <1>1 DEF Views!ViewsAssumption, Views!Refused
<1>4. /\ answer.shown = IF r.pattern = None THEN W ELSE UNION {Views!Around(i, r) : i \in found}
      /\ answer.skipped = IF r.pattern = "regex" THEN Views!Cardinality(long) ELSE 0
  BY <1>1 DEF Views!Filter
<1>5. W \in SUBSET (1..Len(doc.lines))
  BY <1>2 DEF Views!Window
<1>6. \A i \in W : (r.start # None => r.start <= i) /\ (r.end # None => i <= r.end)
  BY DEF Views!Window
<1>7. \A i, j : j \in Views!Around(i, r) => j \in W /\ j - i <= r.context /\ i - j <= r.context
  BY DEF Views!Around
<1>. HIDE DEF W, found, long
<1>8. answer.shown \subseteq W
  BY <1>4, <1>7
<1>9. ASSUME NEW i \in answer.shown, r.pattern # None
      PROVE  \E j \in W : doc.lines[j].hit /\ j - i <= r.context /\ i - j <= r.context
  <2>1. PICK j \in found : i \in Views!Around(j, r)
    BY <1>4, <1>9
  <2>2. j \in W /\ doc.lines[j].hit
    <3>1. j \in W /\ Views!Matches(doc.lines[j], r)
      BY DEF found
    <3>. QED
      BY <3>1 DEF Views!Matches
  <2>. QED
    BY <1>7, <2>1, <2>2
<1>10. ASSUME r.pattern # None
       PROVE  found \subseteq answer.shown
  <2>. SUFFICES ASSUME NEW i \in found
       PROVE  i \in answer.shown
    OBVIOUS
  <2>1. i \in W /\ i \in Int
    BY <1>5 DEF found
  <2>2. i - i = 0 /\ 0 <= r.context
    BY <1>3, <2>1
  <2>3. i \in Views!Around(i, r)
    BY <2>1, <2>2 DEF Views!Around, W
  <2>. QED
    BY <1>4, <1>10, <2>3
<1>11. ASSUME r.pattern # None, NEW i \in missed
       PROVE  i \in long /\ r.pattern = "regex"
  <2>1. i \in W /\ doc.lines[i].hit /\ ~doc.lines[i].slow /\ i \notin found
    BY <1>10, <1>11
  <2>2. ~Views!Matches(doc.lines[i], r)
    BY <2>1 DEF found
  <2>3. doc.lines[i].long /\ ~Views!Literal(r)
    BY <2>1, <2>2 DEF Views!Matches
  <2>4. r.pattern = "regex"
    BY <1>3, <1>11, <2>3 DEF Views!Literal
  <2>. QED
    BY <2>1, <2>3, <2>4 DEF long
<1>12. ASSUME r.pattern # None
       PROVE  Views!Cardinality(missed) <= answer.skipped
  <2>1. 1 \in Int /\ Len(doc.lines) \in Int
    BY <1>2
  <2>2. IsFiniteSet(1..Len(doc.lines))
    BY <2>1, FS_Interval
  <2>3. long \in SUBSET (1..Len(doc.lines))
    BY <1>5 DEF long
  <2>4. IsFiniteSet(long)
    BY <2>2, <2>3, FS_Subset
  <2>. HIDE DEF missed
  <2>5. CASE r.pattern = "regex"
    <3>1. missed \in SUBSET long
      BY <1>11, <1>12
    <3>2. Cardinality(missed) <= Cardinality(long)
      BY <2>4, <3>1, FS_Subset
    <3>. QED
      BY <1>4, <2>5, <3>2, ViewsCardinality
  <2>6. CASE r.pattern # "regex"
    <3>1. missed = {}
      BY <1>11, <1>12, <2>6
    <3>2. Cardinality(missed) = 0 /\ answer.skipped = 0
      BY <1>4, <2>6, <3>1, FS_EmptySet
    <3>. QED
      BY <3>2, ViewsCardinality
  <2>. QED
    BY <2>5, <2>6
<1>. QED
  BY <1>6, <1>8, <1>9, <1>12 DEF W

-----------------------------------------------------------------------------
(* The summary of the rows of an original *)

LEMMA CountIsNat ==
    ASSUME NEW rows, NEW f, NEW v, Len(rows) \in Nat, DOMAIN rows = 1..Len(rows)
    PROVE  Views!Count(rows, f, v) \in Nat
<1>. DEFINE S == {i \in Views!Counted(rows, f) : Views!SameKey(rows[i][f], v)}
<1>1. S \in SUBSET (1..Len(rows))
  BY DEF Views!Counted, Views!With
<1>2. 1 \in Int /\ Len(rows) \in Int
  OBVIOUS
<1>3. IsFiniteSet(1..Len(rows))
  BY <1>2, FS_Interval
<1>4. IsFiniteSet(S) /\ Cardinality(S) \in Nat
  <2>. HIDE DEF S
  <2>. QED
    BY <1>1, <1>3, FS_Subset, FS_CardinalityType
<1>5. Views!Count(rows, f, v) = Cardinality(S)
  BY ViewsCardinality DEF Views!Count
<1>. QED
  BY <1>4, <1>5

LEMMA DistinctFinite ==
    ASSUME NEW rows, NEW f, Len(rows) \in Nat, DOMAIN rows = 1..Len(rows)
    PROVE  IsFiniteSet(Views!Distinct(rows, f))
<1>. DEFINE I == {i \in Views!Counted(rows, f) :
                    \A j \in Views!Counted(rows, f) : Views!SameKey(rows[i][f], rows[j][f]) => i <= j}
            D == Views!Distinct(rows, f)
            g == [i \in I |-> rows[i][f]]
<1>1. I \in SUBSET (1..Len(rows))
  BY DEF Views!Counted, Views!With
<1>2. 1 \in Int /\ Len(rows) \in Int
  OBVIOUS
<1>3. IsFiniteSet(1..Len(rows))
  BY <1>2, FS_Interval
<1>4. D = {rows[i][f] : i \in I}
  BY DEF Views!Distinct
<1>. HIDE DEF I, D
<1>5. IsFiniteSet(I)
  BY <1>1, <1>3, FS_Subset
<1>6. g \in Surjection(I, D)
  BY <1>4 DEF Surjection
<1>. HIDE DEF g
<1>. QED
  BY <1>5, <1>6, FS_Surjection DEF D

\* A string is counted on the rows that hold it.
LEMMA CountOfString ==
    ASSUME NEW rows, NEW f, NEW v, v.type = "str"
    PROVE  Views!Count(rows, f, v) = Cardinality({i \in DOMAIN rows : f \in DOMAIN rows[i] /\ rows[i][f] = v})
<1>1. \A x : Views!SameKey(x, v) <=> x = v
  BY DEF Views!SameKey
<1>2. Views!Scalar(v)
  BY DEF Views!Scalar
<1>3. {i \in Views!Counted(rows, f) : Views!SameKey(rows[i][f], v)}
        = {i \in DOMAIN rows : f \in DOMAIN rows[i] /\ rows[i][f] = v}
  BY <1>1, <1>2 DEF Views!Counted, Views!With
<1>. QED
  BY <1>3, ViewsCardinality DEF Views!Count

\* A string that some row holds is a key of the counter.
LEMMA StringIsDistinct ==
    ASSUME NEW rows, NEW f, NEW v, v.type = "str", Len(rows) \in Nat, DOMAIN rows = 1..Len(rows),
           NEW k \in DOMAIN rows, f \in DOMAIN rows[k], rows[k][f] = v
    PROVE  v \in Views!Distinct(rows, f)
<1>. DEFINE S == {i \in DOMAIN rows : f \in DOMAIN rows[i] /\ rows[i][f] = v}
<1>1. S \in SUBSET Nat /\ S # {}
  OBVIOUS
<1>2. PICK i \in S : \A j \in S : i <= j
  BY <1>1, MinOfNats
<1>3. \A x : Views!SameKey(v, x) <=> x = v
  BY DEF Views!SameKey
<1>4. Views!Scalar(v)
  BY DEF Views!Scalar
<1>5. i \in Views!Counted(rows, f) /\ rows[i][f] = v
  BY <1>2, <1>4 DEF Views!Counted, Views!With
<1>6. \A j \in Views!Counted(rows, f) : Views!SameKey(rows[i][f], rows[j][f]) => i <= j
  BY <1>2, <1>3, <1>5 DEF Views!Counted, Views!With
<1>. QED
  BY <1>5, <1>6 DEF Views!Distinct

\* A value that the histogram leaves out is not more frequent than those it holds.
LEMMA TopOutranks ==
    ASSUME TopValues \in Nat, NEW rows, NEW f, Len(rows) \in Nat, DOMAIN rows = 1..Len(rows),
           NEW w \in Views!Top(rows, f), NEW v \in Views!Distinct(rows, f), v \notin Views!Top(rows, f)
    PROVE  Views!Count(rows, f, v) <= Views!Count(rows, f, w)
<1>. DEFINE C(x) == Views!Count(rows, f, x)
            before(x, y) ==
                \/ C(x) > C(y)
                \/ /\ C(x) = C(y)
                   /\ Views!TextBefore(x, y)
                      \/ (Views!Text(x) = Views!Text(y) /\ Views!First(rows, f, x) < Views!First(rows, f, y))
            D == Views!Distinct(rows, f)
            Above(x) == {u \in D : before(u, x)}
<1>1. \A x : C(x) \in Nat
  BY CountIsNat
<1>2. \A x : x \in Views!Top(rows, f) <=> x \in D /\ Views!Cardinality(Above(x)) < TopValues
  BY DEF Views!Top
<1>3. IsFiniteSet(D)
  BY DistinctFinite
<1>4. \A x : Above(x) \in SUBSET D
  OBVIOUS
<1>5. \A x : IsFiniteSet(Above(x)) /\ Cardinality(Above(x)) \in Nat
  <2>. HIDE DEF D, Above
  <2>. QED
    BY <1>3, <1>4, FS_Subset, FS_CardinalityType
<1>. SUFFICES ASSUME C(v) > C(w)
     PROVE  FALSE
  BY <1>1
<1>6. \A u : before(u, v) => C(u) >= C(v)
  BY <1>1
<1>7. \A u : C(u) >= C(v) => C(u) > C(w)
  BY <1>1
<1>8. \A u : before(u, v) => before(u, w)
  <2>. HIDE DEF C
  <2>. QED
    BY <1>6, <1>7
<1>9. Above(v) \in SUBSET Above(w)
  <2>. HIDE DEF before
  <2>. QED
    BY <1>8
<1>10. Cardinality(Above(v)) <= Cardinality(Above(w))
  <2>. HIDE DEF Above
  <2>. QED
    BY <1>5, <1>9, FS_Subset
<1>11. Cardinality(Above(w)) < TopValues /\ ~(Cardinality(Above(v)) < TopValues)
  <2>. HIDE DEF Above
  <2>. QED
    BY <1>2, ViewsCardinality
<1>. QED
  <2>. HIDE DEF Above
  <2>. QED
    BY <1>5, <1>10, <1>11

\* The histogram counts at least the rows that hold a listed string, and those only when no
\* other value prints alike.
LEMMA ListedCounts ==
    ASSUME TopValues \in Nat, NEW rows, NEW f, Len(rows) \in Nat, DOMAIN rows = 1..Len(rows), NEW v, v.type = "str",
           Views!Text(v) \in {Views!Text(w) : w \in Views!Top(rows, f)},
           NEW matched, matched = Cardinality({i \in DOMAIN rows : f \in DOMAIN rows[i] /\ rows[i][f] = v})
    PROVE  /\ Views!Histogram(rows, f)[Views!Text(v)] >= matched
           /\ {w \in Views!Distinct(rows, f) : Views!Text(w) = Views!Text(v)} = {v} =>
                Views!Histogram(rows, f)[Views!Text(v)] = matched
<1>. DEFINE t == Views!Text(v)
            S == Printed(rows, f, t)
<1>1. PICK total : total = Views!Histogram(rows, f)[t]
  OBVIOUS
<1>2. Views!Top(rows, f) \in SUBSET Views!Distinct(rows, f)
  BY DEF Views!Top
<1>3. S \in SUBSET Views!Distinct(rows, f)
  BY <1>2 DEF Printed
<1>4. IsFiniteSet(S)
  <2>. HIDE DEF S
  <2>. QED
    BY <1>3, DistinctFinite, FS_Subset
<1>5. total = (CHOOSE g : Folds(g, rows, f, S))[S]
  BY <1>1, HistogramFolds
<1>. HIDE DEF S
<1>6. PICK g : Folds(g, rows, f, S) /\ total = g[S]
  <2>1. \E g : Folds(g, rows, f, S)
    BY <1>4, FoldExists
  <2>2. Folds(CHOOSE g : Folds(g, rows, f, S), rows, f, S)
    BY <2>1
  <2>. QED
    BY <1>5, <2>2
<1>7. \A w : Views!Count(rows, f, w) \in Nat
  BY CountIsNat
<1>8. /\ total \in Nat /\ (\A w \in S : Views!Count(rows, f, w) <= total)
      /\ \A w : S = {w} => total = Views!Count(rows, f, w)
  <2>1. \A w \in S : Views!Count(rows, f, w) \in Nat
    BY <1>7
  <2>2. Bounds(g[S], rows, f, S)
    BY <1>4, <1>6, <2>1, FoldBounds
  <2>. QED
    BY <1>6, <2>2 DEF Bounds
<1>9. matched = Views!Count(rows, f, v) /\ matched \in Nat
  <2>1. Views!Count(rows, f, v) = Cardinality({i \in DOMAIN rows : f \in DOMAIN rows[i] /\ rows[i][f] = v})
    BY CountOfString
  <2>2. Views!Count(rows, f, v) \in Nat
    BY <1>7
  <2>. QED
    BY <2>1, <2>2
<1>10. total >= matched
  <2>1. CASE v \in S
    BY <1>8, <1>9, <2>1
  <2>2. CASE v \notin S /\ matched # 0
    <3>1. PICK k \in DOMAIN rows : f \in DOMAIN rows[k] /\ rows[k][f] = v
      <4>1. {i \in DOMAIN rows : f \in DOMAIN rows[i] /\ rows[i][f] = v} # {}
        BY <2>2, FS_EmptySet
      <4>. QED
        BY <4>1
    <3>2. v \in Views!Distinct(rows, f)
      BY <3>1, StringIsDistinct
    <3>3. v \notin Views!Top(rows, f)
      BY <2>2 DEF S, Printed
    <3>4. PICK w \in Views!Top(rows, f) : Views!Text(w) = t
      OBVIOUS
    <3>5. Views!Count(rows, f, v) <= Views!Count(rows, f, w)
      BY <3>2, <3>3, TopOutranks
    <3>6. w \in S
      BY <3>4 DEF S, Printed
    <3>7. Views!Count(rows, f, w) <= total
      BY <1>8, <3>6
    <3>8. Views!Count(rows, f, w) \in Nat
      BY <1>7
    <3>. QED
      BY <1>8, <1>9, <3>5, <3>7, <3>8
  <2>3. CASE matched = 0
    BY <1>8, <2>3
  <2>. QED
    BY <2>1, <2>2, <2>3
<1>11. ASSUME {w \in Views!Distinct(rows, f) : Views!Text(w) = t} = {v}
       PROVE  total = matched
  <2>1. PICK w \in Views!Top(rows, f) : Views!Text(w) = t
    OBVIOUS
  <2>2. \A x \in S : x \in Views!Distinct(rows, f) /\ Views!Text(x) = t
    BY <1>3 DEF S, Printed
  <2>3. w \in S
    BY <2>1 DEF S, Printed
  <2>4. S = {v}
    BY <1>11, <2>2, <2>3
  <2>. QED
    BY <1>8, <1>9, <2>4
<1>. QED
  BY <1>1, <1>10, <1>11

\* The summary of an original, by its shape.
Summary ==
    IF doc.shape = "lines" THEN Views!HeadTail
    ELSE IF doc.shape = "array" THEN Views!Summarize(doc.members[1].value)
    ELSE IF Views!DominantArray # 0 THEN Views!Summarize(doc.members[Views!DominantArray].value)
    ELSE [kind |-> "whole", shown |-> {}]

\* A summary of rows is of the rows that a selection works on.
LEMMA SummaryOfRows ==
    ASSUME Views!ViewsAssumption, doc \in Documents, summary = Summary, summary.kind = "rows"
    PROVE  Views!RowsAt # None /\ summary = Views!Summarize(Views!RowsAt)
<1>1. doc.shape # "lines"
  BY DEF Summary, Views!HeadTail
<1>2. CASE doc.shape = "array"
  BY <1>2, RowsOfDoc, MembersOfDoc DEF Summary
<1>3. CASE doc.shape = "object"
  <2>1. Views!DominantArray = IF Views!Cardinality(WithRows) = 1 THEN Views!Max(WithRows) ELSE 0
    BY DEF Views!DominantArray, WithRows
  <2>2. Views!DominantArray # 0 /\ summary = Views!Summarize(doc.members[Views!DominantArray].value)
    BY <1>3 DEF Summary
  <2>3. Views!Cardinality(WithRows) = 1
    BY <2>1, <2>2
  <2>4. Views!RowsAt = doc.members[Views!DominantArray].value /\ Views!DominantArray \in 1..Len(doc.members)
    BY <1>3, <2>1, <2>3, RowsOfDoc
  <2>. QED
    BY <2>2, <2>4, MembersOfDoc
<1>. QED
  BY <1>1, <1>2, <1>3, MembersOfDoc

LEMMA AgreeHolds ==
    ASSUME Views!ViewsAssumption, doc \in Documents, request \in Filters, summary = Summary, answer = Response(request)
    PROVE  Views!SummaryAgrees
<1>. SUFFICES ASSUME summary.kind = "rows", request.field # None, ~request.raw, ~Views!Refused(request)
     PROVE  /\ answer.kind = "rows" /\ answer.total = summary.count
            /\ LET f == request.field
                   v == request.equals
                   alike == {w \in Views!Distinct(Views!RowsAt, f) : Views!Text(w) = Views!Text(v)} IN
               f \in DOMAIN summary.values /\ v # None /\ ~Views!HasRange(request) =>
                   LET listed == Views!Text(v) \in DOMAIN summary.values[f] IN
                   /\ listed /\ v.type = "str" => summary.values[f][Views!Text(v)] >= answer.matched
                   /\ listed /\ v.type = "str" /\ alike = {v} => summary.values[f][Views!Text(v)] = answer.matched
  BY DEF Views!SummaryAgrees
<1>. DEFINE f == request.field
            v == request.equals
            rows == Views!RowsAt
            kept == {i \in DOMAIN rows : Views!Keeps(rows[i], request)}
<1>1. rows # None /\ summary = Views!Summarize(rows)
  BY SummaryOfRows
<1>2. Len(rows) \in Nat /\ DOMAIN rows = 1..Len(rows)
  BY <1>1, RowsAreListed
<1>3. answer = Views!Rows(rows, kept, request)
  BY <1>1 DEF Response, Views!Select
<1>. HIDE DEF rows, kept
<1>4. answer.kind = "rows" /\ answer.total = Len(rows) /\ answer.matched = Views!Cardinality(kept)
  BY <1>3 DEF Views!Rows
<1>5. summary.count = Len(rows) /\ summary.values = [x \in Views!Categorical(rows) |-> Views!Histogram(rows, x)]
  BY <1>1 DEF Views!Summarize
<1>6. ASSUME f \in DOMAIN summary.values, v # None, ~Views!HasRange(request),
             Views!Text(v) \in DOMAIN summary.values[f], v.type = "str"
      PROVE  /\ summary.values[f][Views!Text(v)] >= answer.matched
             /\ {w \in Views!Distinct(rows, f) : Views!Text(w) = Views!Text(v)} = {v} =>
                    summary.values[f][Views!Text(v)] = answer.matched
  <2>1. summary.values[f] = Views!Histogram(rows, f)
    BY <1>5, <1>6
  <2>2. Views!Text(v) \in {Views!Text(w) : w \in Views!Top(rows, f)}
    BY <1>6, <2>1 DEF Views!Histogram
  <2>3. kept = {i \in DOMAIN rows : f \in DOMAIN rows[i] /\ rows[i][f] = v}
    BY <1>6 DEF kept, Views!Keeps, Views!Equals
  <2>4. PICK matched : matched = answer.matched
    OBVIOUS
  <2>5. matched = Cardinality({i \in DOMAIN rows : f \in DOMAIN rows[i] /\ rows[i][f] = v})
    BY <1>4, <2>3, <2>4, ViewsCardinality
  <2>6. TopValues \in Nat
    BY DEF Views!ViewsAssumption
  <2>. HIDE DEF f, v
  <2>7. /\ Views!Histogram(rows, f)[Views!Text(v)] >= matched
        /\ {w \in Views!Distinct(rows, f) : Views!Text(w) = Views!Text(v)} = {v} =>
                Views!Histogram(rows, f)[Views!Text(v)] = matched
    BY <1>2, <1>6, <2>2, <2>5, <2>6, ListedCounts
  <2>. QED
    BY <2>1, <2>4, <2>7
<1>. QED
  BY <1>4, <1>5, <1>6 DEF rows

-----------------------------------------------------------------------------
(* The invariant of the views *)

\* The summary that shipped, the answer and the runs are those of the stored original.
ViewsInv ==
    /\ doc \in Documents
    /\ summary = None \/ summary = Summary
    /\ answer = None \/ (summary = Summary /\ request \in Filters /\ answer = Response(request))
    /\ runs = None \/ \E include \in BOOLEAN : runs = [include |-> include, parts |-> Views!Partition(include)]

LEMMA SameDocument ==
    ASSUME UNCHANGED doc
    PROVE  /\ Summary' = Summary
           /\ \A r : (Response(r))' = Response(r)
           /\ \A include : (Views!Partition(include))' = Views!Partition(include)
<1>1. (Views!HeadTail)' = Views!HeadTail
  BY DEF Views!HeadTail, Views!Severe
<1>2. (Views!DominantArray)' = Views!DominantArray
  BY DEF Views!DominantArray
<1>3. Summary' = Summary
  BY <1>1, <1>2 DEF Summary
<1>4. (Views!RowsAt)' = Views!RowsAt
  BY DEF Views!RowsAt
<1>5. (Views!Spans)' = Views!Spans
  BY DEF Views!Spans
<1>6. ASSUME NEW r
      PROVE  (Response(r))' = Response(r)
  <2>1. (Views!Select(r))' = Views!Select(r)
    BY <1>4, <1>5 DEF Views!Select
  <2>2. (Views!Project(r))' = Views!Project(r)
    BY DEF Views!Project
  <2>3. (Views!Window(r))' = Views!Window(r)
    BY DEF Views!Window
  <2>4. \A i : (Views!Around(i, r))' = Views!Around(i, r)
    BY <2>3 DEF Views!Around
  <2>5. (Views!Filter(r))' = Views!Filter(r)
    BY DEF Views!Filter, Views!Window, Views!Around
  <2>. QED
    BY <2>1, <2>2, <2>5 DEF Response
<1>7. \A include : (Views!Partition(include))' = Views!Partition(include)
  BY DEF Views!Partition
<1>. QED
  BY <1>3, <1>6, <1>7

LEMMA ViewsInit ==
    ASSUME Views!Init
    PROVE  ViewsInv
BY DEF Views!Init, ViewsInv

LEMMA ViewsStep ==
    ASSUME ViewsInv, [Views!Next]_(Views!vars)
    PROVE  ViewsInv'
<1>1. UNCHANGED doc
  BY DEF Views!Next, Views!vars, Views!Offload, Views!Ask, Views!Split
<1>2. PICK earlier : earlier = Summary
  OBVIOUS
<1>3. Summary' = earlier /\ doc' \in Documents
  BY <1>1, <1>2, SameDocument DEF ViewsInv
<1>4. CASE Views!Offload
  <2>1. UNCHANGED <<request, answer, runs>> /\ summary' = earlier
    BY <1>2, <1>4 DEF Views!Offload, Summary
  <2>. QED
    BY <1>1, <1>3, <2>1, SameDocument DEF ViewsInv
<1>5. ASSUME NEW r \in Filters, Views!Ask(r)
      PROVE  ViewsInv'
  <2>1. summary = earlier /\ request' = r /\ answer' = Response(r) /\ UNCHANGED <<summary, runs>>
    BY <1>2, <1>5 DEF Views!Ask, Response, ViewsInv
  <2>2. answer' = (Response(r))'
    BY <1>1, <2>1, SameDocument
  <2>3. answer' = (Response(request))'
    BY <2>1, <2>2 DEF Response, Views!Refused
  <2>. QED
    BY <1>1, <1>3, <2>1, <2>3, SameDocument DEF ViewsInv
<1>6. ASSUME NEW include \in BOOLEAN, Views!Split(include)
      PROVE  ViewsInv'
  <2>1. UNCHANGED <<summary, request, answer>> /\ runs' = [include |-> include, parts |-> Views!Partition(include)]
        /\ answer = None
    BY <1>6 DEF Views!Split
  <2>2. runs' = [include |-> include, parts |-> (Views!Partition(include))']
    BY <1>1, <2>1, SameDocument
  <2>. QED
    BY <1>2, <1>3, <2>1, <2>2 DEF ViewsInv
<1>7. CASE UNCHANGED Views!vars
  <2>1. UNCHANGED <<summary, request, answer, runs>>
    BY <1>7 DEF Views!vars
  <2>2. answer = Response(request) => answer' = (Response(request))'
    BY <1>1, <2>1, SameDocument
  <2>. QED
    BY <1>1, <1>2, <1>3, <2>1, <2>2, SameDocument DEF ViewsInv
<1>. QED
  BY <1>4, <1>5, <1>6, <1>7 DEF Views!Next

ViewsPart == part = "views" => ViewsInv

LEMMA ViewsHonestly ==
    ASSUME ViewsInv
    PROVE  Views!SummaryAgrees /\ Views!ViewsHonest
<1>1. Views!ViewsAssumption /\ doc \in Documents
  BY CallsAssumption DEF ViewsInv
<1>2. Views!SummaryAgrees
  <2>1. CASE answer = None
    BY <2>1 DEF Views!SummaryAgrees
  <2>2. CASE answer # None
    BY <1>1, <2>2, AgreeHolds DEF ViewsInv
  <2>. QED
    BY <2>1, <2>2
<1>3. Views!AnswersHonest
  <2>1. Views!Answered("rows") => answer.kind = "rows" /\ request \in Filters /\ answer = Response(request)
    BY DEF Views!Answered, ViewsInv
  <2>2. Views!Answered("lines") => answer.kind = "lines" /\ request \in Filters /\ answer = Response(request)
    BY DEF Views!Answered, ViewsInv
  <2>. QED
    BY <1>1, <2>1, <2>2, RowsHonest, LinesHonest DEF Views!AnswersHonest
<1>4. Views!RunsTile
  <2>. SUFFICES ASSUME runs # None
       PROVE  /\ \A i \in DOMAIN doc.lines : Views!Cardinality({p \in runs.parts : i \in p.from..p.to}) = 1
              /\ \A p, q \in runs.parts : p.to + 1 = q.from => p.eligible # q.eligible
              /\ \A p \in runs.parts : p.eligible =>
                    \A i \in p.from..p.to : ~doc.lines[i].long /\ (doc.lines[i].severe => doc.lines[i].slow)
    BY DEF Views!RunsTile
  <2>1. PICK include \in BOOLEAN : runs = [include |-> include, parts |-> Views!Partition(include)]
    BY DEF ViewsInv
  <2>2. PICK parts : parts = Views!Partition(include)
    OBVIOUS
  <2>3. runs.parts = parts
    BY <2>1, <2>2
  <2>. QED
    BY <1>1, <2>2, <2>3, PartitionTiles
<1>. QED
  BY <1>2, <1>3, <1>4 DEF Views!ViewsHonest

\* For any originals and filtered retrieves: the summary that ships in place of an original
\* and the rows a filtered retrieve selects agree, no answer hides or mixes up what matches
\* without a sign, and the runs of lines tile the content (router_engine.py,
\* retrieve_filters.py, compress_modes.py).
THEOREM ViewsAlwaysHold ==
    Spec => []ViewsHold
<1>1. Init => ViewsPart
    BY ViewsInit DEF Init, ViewsPart
<1>2. ViewsPart /\ [Next]_vars => ViewsPart'
    <2> SUFFICES ASSUME ViewsPart, [Next]_vars, part' = "views" PROVE ViewsInv'
        BY DEF ViewsPart
    <2>1. CASE Next
        <3>1. ViewsInv /\ Views!Next
            BY <2>1 DEF Next, ViewsPart
        <3> QED BY <3>1, ViewsStep
    <2>2. CASE UNCHANGED vars
        <3>1. UNCHANGED part /\ UNCHANGED viewVars
            BY <2>2 DEF vars
        <3>2. ViewsInv /\ UNCHANGED Views!vars
            BY <3>1 DEF ViewsPart, viewVars, Views!vars
        <3> QED BY <3>2, ViewsStep
    <2> QED BY <2>1, <2>2
<1>3. ViewsPart => ViewsHold
    BY ViewsHonestly DEF ViewsPart, ViewsHold
<1> QED BY <1>1, <1>2, <1>3, PTL DEF Spec

=============================================================================
