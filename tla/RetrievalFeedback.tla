-------------------------- MODULE RetrievalFeedback --------------------------
(***************************************************************************)
(* The aggregator of retrieval signals                                     *)
(* (furl_ctx/cache/retrieval_feedback.py): retrievals are recorded per     *)
(* shape, and the router asks how many the window holds.  A caller reads   *)
(* the clock before it takes the lock.                                     *)
(***************************************************************************)
EXTENDS Naturals, FiniteSets, Sequences, SequencesExt, FiniteSetsExt

CONSTANTS
    Threads,    \* callers
    Shapes,     \* shape keys of one content type
    Anonymous,  \* the one without a tool
    WindowTime, \* window_seconds
    MaxPer,     \* max_events_per_shape
    MaxShapes,  \* max_shapes
    HintMin,    \* hint_min_retrievals
    SkipMin,    \* skip_min_retrievals
    LastTime,   \* bound on the clock
    None        \* an absent value

VARIABLES
    clockNow,   \* the monotonic clock
    events,     \* per shape, the times of its deque; an empty one is not kept
    read,       \* per caller, what it is about to do and the time it read
    hints,      \* the last answer, with the shape and the cutoff it is about
    recent      \* history: per shape, its last MaxPer recorded times, never pruned

feedbackVars == <<clockNow, events, read, hints, recent>>

\* The assumptions on the constants.
FeedbackAssumption ==
    /\ {MaxPer, MaxShapes, HintMin, SkipMin, LastTime} \subseteq Nat
    /\ WindowTime \in Nat \ {0}
    /\ 1 <= HintMin /\ HintMin <= SkipMin /\ SkipMin <= MaxPer /\ 1 <= MaxShapes
    /\ Anonymous \in Shapes /\ IsFiniteSet(Threads)

TypeOK ==
    /\ clockNow \in 0..LastTime
    /\ events \in [Shapes -> Seq(0..LastTime)]
    /\ read \in [Threads -> [records : BOOLEAN, shape : Shapes, time : 0..LastTime] \cup {None}]
    /\ hints = None \/ hints.shape \in Shapes
    /\ recent \in [Shapes -> Seq(0..LastTime)]
    /\ Cardinality({s \in Shapes : events[s] # <<>>}) <= MaxShapes
    /\ \A s \in Shapes : Len(events[s]) <= MaxPer

-----------------------------------------------------------------------------

Known == {s \in Shapes : events[s] # <<>>}

\* At or before the cutoff of a window that ends at the given time.
Aged(e, time) == e + WindowTime <= time

\* Mutant of Decayed: every aged time goes, and young ones behind an aged head with it.
DecayedTail(s, time) == IF \E i \in DOMAIN events[s] : Aged(events[s][i], time) THEN <<>> ELSE events[s]

\* Aged times are popped from the head only.
Decayed(s, time) ==
    LET young == {i \in DOMAIN events[s] : ~Aged(events[s][i], time)} IN
    IF young = {} THEN <<>> ELSE SubSeq(events[s], Min(young), Len(events[s]))

\* deque(maxlen): the oldest entry makes room.
Bounded(q) == IF Len(q) > MaxPer THEN Tail(q) ELSE q

\* Room for a new shape: decayed shapes go, and if none does, the one whose newest event
\* is the oldest.
Victims(time) ==
    LET decayed == {s \in Known : Aged(Last(events[s]), time)} IN
    IF Cardinality(Known \ decayed) < MaxShapes
    THEN {decayed}
    ELSE {decayed \cup {s} : s \in {r \in Known \ decayed :
             \A q \in Known \ decayed : Last(events[r]) <= Last(events[q])}}

Forget(f, gone) == [s \in Shapes |-> IF s \in gone THEN <<>> ELSE f[s]]

-----------------------------------------------------------------------------

\* The clock is read first.
ReadClock(t, records, s) ==
    /\ read[t] = None
    /\ read' = [read EXCEPT ![t] = [records |-> records, shape |-> s, time |-> clockNow]]
    /\ UNCHANGED <<clockNow, events, hints, recent>>

RecordRetrieval(t) ==
    /\ read[t] # None /\ read[t].records
    /\ LET s == read[t].shape
           time == read[t].time IN
       \E gone \in IF s \notin Known /\ Cardinality(Known) >= MaxShapes THEN Victims(time) ELSE {{}} :
          /\ events' = [Forget(events, gone) EXCEPT ![s] = Bounded(Append(@, time))]
          /\ recent' = [Forget(recent, gone) EXCEPT ![s] = Bounded(Append(@, time))]
    /\ read' = [read EXCEPT ![t] = None]
    /\ UNCHANGED <<clockNow, hints>>

\* A named tool's shape counts the anonymous one of its content type as well.
Buckets(s) == {s, Anonymous}

OverBuckets(s, n) == IF s = Anonymous THEN n[s] ELSE n[s] + n[Anonymous]

GetHints(t) ==
    /\ read[t] # None /\ ~read[t].records
    /\ LET s == read[t].shape
           time == read[t].time
           pruned == [r \in Shapes |-> IF r \in Buckets(s) THEN Decayed(r, time) ELSE events[r]]
           count == OverBuckets(s, [r \in Shapes |-> Len(pruned[r])]) IN
       /\ events' = pruned
       /\ hints' = [shape |-> s, time |-> time, count |-> count,
                    keeps |-> count >= HintMin, skips |-> count >= SkipMin]
    /\ read' = [read EXCEPT ![t] = None]
    /\ UNCHANGED <<clockNow, recent>>

Clear ==
    /\ events' = [s \in Shapes |-> <<>>]
    /\ recent' = [s \in Shapes |-> <<>>]
    /\ UNCHANGED <<clockNow, read, hints>>

Tick ==
    /\ clockNow < LastTime
    /\ clockNow' = clockNow + 1
    /\ UNCHANGED <<events, read, hints, recent>>

Init ==
    /\ clockNow = 0
    /\ events = [s \in Shapes |-> <<>>]
    /\ read = [t \in Threads |-> None]
    /\ hints = None
    /\ recent = [s \in Shapes |-> <<>>]

Next ==
    \/ \E t \in Threads :
        \/ \E records \in BOOLEAN, s \in Shapes : ReadClock(t, records, s)
        \/ RecordRetrieval(t) \/ GetHints(t)
    \/ Clear \/ Tick

Spec == Init /\ [][Next]_feedbackVars

-----------------------------------------------------------------------------

InWindow(s, time) == Cardinality({i \in DOMAIN recent[s] : ~Aged(recent[s][i], time)})

\* An answer misses no retained retrieval that is still in the window, and over-counts by
\* at most one retrieval per other caller: one that read the clock early and recorded
\* late, behind a younger head (retrieval_feedback.py:227).
HintsAreHonest(t) ==
    GetHints(t) =>
        LET Exact(time) == OverBuckets(hints'.shape, [r \in Shapes |-> InWindow(r, time)]) IN
        /\ Exact(clockNow) <= hints'.count
        /\ hints'.count <= Exact(hints'.time) + Cardinality(Threads) - 1

CountHonest == [][\A t \in Threads : HintsAreHonest(t)]_feedbackVars

=============================================================================
