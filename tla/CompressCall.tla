----------------------------- MODULE CompressCall -----------------------------
(***************************************************************************)
(* compress() (furl_ctx/compress.py) from the request to the result: the   *)
(* pipeline with its circuit breaker (transforms/pipeline.py), the         *)
(* deduplication across messages (transforms/cross_message_dedup.py), the  *)
(* lifecycle of file reads (transforms/read_lifecycle.py) and the gates of *)
(* the router (transforms/router_message_policy.py).  How the router makes *)
(* and persists one compression is RouterRecovery's business: here it is   *)
(* one step that keeps the message or replaces it with a durable original. *)
(* Threads share the breaker and the store.                                *)
(***************************************************************************)
EXTENDS Naturals, Sequences, FiniteSets, FiniteSetsExt

CONSTANTS
    Threads,   \* callers
    Requests,  \* the requests a caller may make
    Texts,     \* contents of messages
    Bulky,     \* those long enough for the replacing passes
    Small,     \* those under min_tokens_to_compress
    Dumps,     \* those that are unstructured error output
    Code,      \* those detected as source code
    Volatile,  \* those with a date or an id a system prompt should not hold
    RowsOf,    \* per text, the rows of the JSON array it is
    MinShared, \* NEAR_DUP_MIN_SHARED_ROWS
    MaxSources, \* NEAR_DUP_MAX_ARRAY_SOURCES
    Threshold, \* FURL_PIPELINE_BREAKER_THRESHOLD
    Cooldown,  \* FURL_PIPELINE_BREAKER_COOLDOWN_S
    MaxTime,   \* bound on the clock
    MaxFaults, \* bound on failed writes, exceptions and losses
    None       \* an absent value

VARIABLES
    time,      \* the monotonic clock
    failures,  \* _breaker_failures
    openUntil, \* _breaker_open_until
    streak,    \* history: failed runs since the last clean one or the last opening
    tier,      \* per key of the store: "durable", "volatile" or "absent"
    stored,    \* per key, the form its last writer replaced the original by
    call,      \* per thread, the call in progress
    result,    \* per thread, what its last call returned
    gone,      \* history: per thread, keys lost since its call began
    faults     \* how many of the faults have happened

breaker == <<failures, openUntil, streak>>

store == <<tier, stored, gone>>

vars == <<time, breaker, store, call, result, faults>>

\* The original of a text, or the rendering that shows only its changed rows.
Keys == Texts \X {"whole", "near"}

Forms == {"whole", "duplicate", "near", "lifecycle", "routed"}

\* A message in flight: its text, the form it has, what that form was made of, and the
\* index of the message it points at.
Unit == [text : Texts \cup {None}, form : Forms, base : {"whole", "near"}, at : Nat]

Tiers == {"absent", "volatile", "durable"}

\* The assumptions on the constants: every request has some text, and a tool's output comes
\* after the call it answers.
CallAssumption ==
    /\ Bulky \cup Small \cup Dumps \cup Code \cup Volatile \subseteq Texts
    /\ DOMAIN RowsOf = Texts /\ \A text \in Texts : IsFiniteSet(RowsOf[text])
    /\ {MinShared, MaxSources, Cooldown, MaxTime, MaxFaults} \subseteq Nat
    /\ Threshold \in Nat \ {0}
    /\ \A r \in Requests :
        /\ Len(r.messages) \in Nat /\ DOMAIN r.messages = 1..Len(r.messages)
        /\ \A i \in DOMAIN r.messages : r.messages[i].text \in Texts \cup {None} /\ r.messages[i].call \in 0..(i - 1)
        /\ \E i \in DOMAIN r.messages : r.messages[i].text # None

-----------------------------------------------------------------------------

Whole(text) == [text |-> text, form |-> "whole", base |-> "whole", at |-> 0]

Untransformed(r) == [i \in DOMAIN r.messages |-> Whole(r.messages[i].text)]

\* One past the last message with a cache_control block; the marked message is frozen.
Frozen(r) == Max({0} \cup {i \in DOMAIN r.messages : r.messages[i].marked})

\* The messages that hold text: every pass hands the others on.
WithText(r) == {i \in DOMAIN r.messages : r.messages[i].text # None}

\* How far a message is from the end, counting itself.
FromEnd(r, i) == Len(r.messages) + 1 - i

IsTool(m) == m.role = "tool" /\ m.text # None

Fault == faults < MaxFaults /\ faults' = faults + 1

\* Mutant of Suspects: the scan stops before the message with the breakpoint.
SuspectsBefore(r) ==
    {i \in 1..(Frozen(r) - 1) : \E j \in 1..(i - 1) :
        /\ r.messages[j].text = r.messages[i].text
        /\ r.messages[i].text # None /\ tier[<<r.messages[i].text, "whole">>] # "absent"}

\* Frozen tool outputs that earlier calls shipped replaced, as far as the store tells: a
\* second copy with an entry, or an entry whose original was replaced by nothing.
Suspects(r) ==
    LET unit == {i \in 1..Frozen(r) : IsTool(r.messages[i]) /\ r.messages[i].text \in Bulky}
        text(i) == r.messages[i].text IN
    {i \in unit :
        /\ tier[<<text(i), "whole">>] # "absent"
        /\ \/ \E j \in unit : j < i /\ text(j) = text(i)
           \/ stored[<<text(i), "whole">>] = "lifecycle"}

\* What the aligner warns of: volatile content in a system prompt it may not rewrite.
Unstable(r) ==
    {i \in DOMAIN r.messages : i > Frozen(r) /\ r.messages[i].role = "system" /\ r.messages[i].text \in Volatile}

\* The pipeline is not run while the breaker is open.
Start(t, r) ==
    /\ call[t] = None
    /\ gone' = [gone EXCEPT ![t] = {}]
    /\ IF time < openUntil
       THEN /\ result' = [result EXCEPT ![t] = [request |-> r, out |-> Untransformed(r), warned |-> Suspects(r)]]
            /\ UNCHANGED call
       ELSE /\ call' = [call EXCEPT ![t] =
                   [request |-> r, phase |-> IF Len(r.messages) > 1 THEN "dedup" ELSE "lifecycle", pos |-> Min(WithText(r)),
                    out |-> Untransformed(r), seen |-> {}, warned |-> Suspects(r) \cup Unstable(r)]]
            /\ result' = [result EXCEPT ![t] = None]
    /\ UNCHANGED <<time, breaker, tier, stored, faults>>

-----------------------------------------------------------------------------

Msg(t) == call[t].request.messages[call[t].pos]

In(t, phase) == call[t] # None /\ call[t].phase = phase

NextPhase == [dedup |-> "lifecycle", lifecycle |-> "route", route |-> "count"]

\* To the next message that holds text, or to the first of the next pass, with the current
\* one in a new form.
Advance(t, unit) ==
    LET later == {i \in WithText(call[t].request) : i > call[t].pos} IN
    [call[t] EXCEPT
        !.out[call[t].pos] = unit,
        !.pos = Min(IF later = {} THEN WithText(call[t].request) ELSE later),
        !.phase = IF later = {} THEN NextPhase[@] ELSE @]

Current(t) == call[t].out[call[t].pos]

\* store(..., require_durable=True) of an original: it lands, reaches only the volatile
\* fallback, or raises.
Persist(key, form, how) ==
    /\ IF how = "durable" THEN UNCHANGED faults ELSE Fault
    /\ tier' = [tier EXCEPT ![key] =
           IF how = "raises" \/ (how = "volatile" /\ @ = "durable") THEN @ ELSE how]
    /\ stored' = [stored EXCEPT ![key] = IF how = "raises" THEN @ ELSE form]
    /\ gone' = IF how = "durable" THEN [t \in Threads |-> gone[t] \ {key}] ELSE gone

\* Mutant of Vetoed: only an exception of the store counts as a failure.
VetoedByError(how) == how = "raises"

\* The replacement is dropped unless its original is durable.
Vetoed(how) == how # "durable"

\* Tool outputs that the deduplication looks at.
Deduplicable(m) == IsTool(m) /\ ~m.failed /\ ~m.marked /\ m.text \in Bulky

Replaceable(t) ==
    LET r == call[t].request
        i == call[t].pos IN
    i > 1 /\ i > Frozen(r) /\ ~(r.protect > 0 /\ FromEnd(r, i) <= r.protect)

Shared(text, source) == RowsOf[text] \cap RowsOf[source]

\* Among the last arrays kept whole, the first with the most rows in common; the changed
\* rows must be a small part of the array.
NearSource(t) ==
    LET text == Msg(t).text
        kept(i) == call[t].request.messages[i].text
        shared(i) == Cardinality(Shared(text, kept(i)))
        arrays == {i \in call[t].seen : RowsOf[kept(i)] # {}}
        recent == {i \in arrays : Cardinality({j \in arrays : j > i}) < MaxSources}
        best == {i \in recent : \A j \in recent : shared(j) <= shared(i)} IN
    IF best = {} \/ shared(Min(best)) < MinShared
       \/ 20 * Cardinality(RowsOf[text] \ RowsOf[kept(Min(best))]) > 9 * Cardinality(RowsOf[text])
    THEN None
    ELSE Min(best)

\* Mutant of Sources: any earlier message, replaced or not.
SourcesAnywhere(t) ==
    {i \in 1..(call[t].pos - 1) : call[t].request.messages[i].text = Msg(t).text}

\* The message kept whole that has this very text.
Sources(t) == {i \in call[t].seen : call[t].request.messages[i].text = Msg(t).text}

\* What the deduplication would replace the message by.
Plan(t) ==
    IF ~Deduplicable(Msg(t)) \/ ~Replaceable(t) THEN None
    ELSE IF Sources(t) # {}
    THEN [Whole(Msg(t).text) EXCEPT !.form = "duplicate", !.at = Max(Sources(t))]
    ELSE IF NearSource(t) # None
    THEN [Whole(Msg(t).text) EXCEPT !.form = "near", !.at = NearSource(t)]
    ELSE None

\* Kept whole, it becomes a source unless an equal one is there.
Kept(t) ==
    [Advance(t, Current(t)) EXCEPT
        !.seen = IF Deduplicable(Msg(t)) /\ Sources(t) = {} THEN @ \cup {call[t].pos} ELSE @]

DedupKeep(t) ==
    /\ In(t, "dedup") /\ Plan(t) = None
    /\ call' = [call EXCEPT ![t] = Kept(t)]
    /\ UNCHANGED <<time, breaker, store, result, faults>>

\* The original is persisted before the replacement ships; any failure keeps the text.
DedupReplace(t, how) ==
    /\ In(t, "dedup") /\ Plan(t) # None
    /\ Persist(<<Msg(t).text, "whole">>, Plan(t).form, how)
    /\ call' = [call EXCEPT ![t] = IF Vetoed(how) THEN Kept(t) ELSE Advance(t, Plan(t))]
    /\ UNCHANGED <<time, breaker, result>>

-----------------------------------------------------------------------------

\* Whether one read shows all the lines of another: no span is the whole file.
Covers(later, earlier) ==
    \/ later.span = None
    \/ /\ earlier.span # None
       /\ later.span[1] <= earlier.span[1] /\ later.span[2] >= earlier.span[2]

\* Tool calls on the file of message m, made in a later assistant message.
Later(r, m, tool) ==
    {x \in {r.messages[i] : i \in DOMAIN r.messages} :
        x.role = "tool" /\ x.tool = tool /\ x.path = m.path /\ x.call > m.call}

Stale(r, m) == Later(r, m, "edit") # {}

Superseded(r, m) == r.supersede /\ \E x \in Later(r, m, "read") : Covers(x, m)

\* A read whose call is past the frozen prefix and whose content is outdated or repeated,
\* and still large in its present form: a pointer is not.
Outdated(t) ==
    LET r == call[t].request
        m == Msg(t) IN
    /\ r.recovers
    /\ IsTool(m) /\ m.tool = "read" /\ m.path # None /\ m.call > Frozen(r)
    /\ (Stale(r, m) \/ Superseded(r, m))
    /\ m.text \in Bulky /\ Current(t).form # "duplicate"

ReadKeep(t) ==
    /\ In(t, "lifecycle") /\ ~Outdated(t)
    /\ call' = [call EXCEPT ![t] = Advance(t, Current(t))]
    /\ UNCHANGED <<time, breaker, store, result, faults>>

\* What the message shows is persisted, be it a rendering.
ReadReplace(t, how) ==
    /\ In(t, "lifecycle") /\ Outdated(t) /\ how # "raises"
    /\ LET base == IF Current(t).form = "near" THEN "near" ELSE "whole" IN
       /\ Persist(<<Msg(t).text, base>>, "lifecycle", how)
       /\ call' = [call EXCEPT ![t] =
              Advance(t, IF Vetoed(how) THEN Current(t)
                         ELSE [Current(t) EXCEPT !.form = "lifecycle", !.base = base])]
    /\ UNCHANGED <<time, breaker, result>>

-----------------------------------------------------------------------------

\* The gate chain: the first that holds decides.
Disposition(t) ==
    LET r == call[t].request
        i == call[t].pos
        m == Msg(t)
        recent == r.protect > 0 /\ FromEnd(r, i) <= r.protect IN
    IF i <= Frozen(r) THEN "frozen"
    ELSE IF m.role = "tool" /\ (m.tool = "retrieve" \/ (m.tool = "read" /\ FromEnd(r, i) <= r.window))
    THEN "excluded"
    ELSE IF (m.role = "user" /\ ~r.users) \/ (m.role = "system" /\ ~r.systems)
         THEN "protected"
    ELSE IF m.text \in Small /\ Current(t).form = "whole" THEN "small"
    ELSE IF m.role = "tool" /\ m.text \in Dumps /\ Current(t).form = "whole" THEN "error"
    ELSE IF Current(t).form # "whole" THEN "already_compressed"
    ELSE IF m.text \in Code /\ (recent \/ r.analysis) THEN "code"
    ELSE "compressible"

\* Everything but a compressible message ships as it is, and so does one whose compression
\* does not pay, was vetoed, or is asked for again too often.
RouteKeep(t) ==
    /\ In(t, "route")
    /\ call' = [call EXCEPT ![t] = Advance(t, Current(t))]
    /\ UNCHANGED <<time, breaker, store, result, faults>>

RouteReplace(t) ==
    /\ In(t, "route") /\ Disposition(t) = "compressible"
    /\ Persist(<<Msg(t).text, "whole">>, "routed", "durable")
    /\ call' = [call EXCEPT ![t] = Advance(t, [Current(t) EXCEPT !.form = "routed"])]
    /\ UNCHANGED <<time, breaker, result>>

-----------------------------------------------------------------------------

Deliver(t, out) ==
    /\ result' = [result EXCEPT ![t] = [request |-> call[t].request, out |-> out, warned |-> call[t].warned]]
    /\ call' = [call EXCEPT ![t] = None]
    /\ UNCHANGED <<time, store>>

\* Mutant of Success: a clean run does not end the streak.
SuccessUncounted == UNCHANGED failures

Success == failures' = 0

\* A clean run closes the count of failures; the request ships unchanged if the result has
\* more tokens, or if an exception comes after the run.
Return(t, inflated) ==
    /\ call[t] # None /\ call[t].phase = "count"
    /\ Success
    /\ streak' = 0
    /\ Deliver(t, IF inflated THEN Untransformed(call[t].request) ELSE call[t].out)
    /\ UNCHANGED <<openUntil, faults>>

\* An exception in a transform: the breaker counts it, and the request ships unchanged.
Raise(t) ==
    /\ call[t] # None /\ call[t].phase # "count" /\ Fault
    /\ LET trips == failures + 1 >= Threshold IN
       /\ failures' = IF trips THEN 0 ELSE failures + 1
       /\ openUntil' = IF trips THEN time + Cooldown ELSE openUntil
       /\ streak' = IF trips THEN 0 ELSE streak + 1
    /\ Deliver(t, Untransformed(call[t].request))

\* A panic of the Rust engine ships the request unchanged as well, past the breaker, which
\* counts subclasses of Exception only.
Panic(t) ==
    /\ call[t] # None /\ call[t].phase = "route" /\ Fault
    /\ Deliver(t, Untransformed(call[t].request))
    /\ UNCHANGED breaker

\* An entry is purged, evicted or expires.
Lose(key) ==
    /\ tier[key] # "absent" /\ Fault
    /\ tier' = [tier EXCEPT ![key] = "absent"]
    /\ gone' = [t \in Threads |-> gone[t] \cup {key}]
    /\ UNCHANGED <<time, breaker, stored, call, result>>

Tick ==
    /\ time < MaxTime
    /\ time' = time + 1
    /\ UNCHANGED <<breaker, store, call, result, faults>>

Init ==
    /\ time = 0 /\ failures = 0 /\ openUntil = 0 /\ streak = 0
    /\ tier = [k \in Keys |-> "absent"]
    /\ stored = [k \in Keys |-> "whole"]
    /\ call = [t \in Threads |-> None]
    /\ result = [t \in Threads |-> None]
    /\ gone = [t \in Threads |-> {}]
    /\ faults = 0

Next ==
    \/ \E t \in Threads :
        \/ \E r \in Requests : Start(t, r)
        \/ DedupKeep(t) \/ ReadKeep(t) \/ RouteKeep(t) \/ RouteReplace(t)
        \/ \E how \in {"durable", "volatile", "raises"} : DedupReplace(t, how) \/ ReadReplace(t, how)
        \/ \E inflated \in BOOLEAN : Return(t, inflated)
        \/ Raise(t) \/ Panic(t)
    \/ \E key \in Keys : Lose(key)
    \/ Tick

Spec == Init /\ [][Next]_vars

-----------------------------------------------------------------------------

\* The keys a message in this form needs to be read back.
Needs(unit) ==
    IF unit.form = "whole" THEN {}
    ELSE {<<unit.text, "whole">>} \cup (IF unit.base = "near" THEN {<<unit.text, "near">>} ELSE {})

\* Whatever passes rewrote a message, one after the other, its original is durable when the
\* result is returned and until the store loses the entry (cross_message_dedup.py:618).
Recoverable ==
    \A t \in Threads : result[t] # None =>
        \A i \in DOMAIN result[t].out : \A k \in Needs(result[t].out[i]) :
            tier[k] = "durable" \/ k \in gone[t]

\* A pointer names an earlier message that the deduplication kept, with the text or enough
\* rows of this one, so no chain of pointers forms; neither is an output flagged as an error,
\* though another pass may rewrite one (cross_message_dedup.py:329).  No pass touches what
\* the cache breakpoint freezes.
PointersGrounded ==
    \A t \in Threads : result[t] # None =>
        \A i \in DOMAIN result[t].out :
            LET unit == result[t].out[i]
                source == result[t].out[unit.at]
                messages == result[t].request.messages IN
            /\ unit.at > 0 =>
                /\ unit.at < i /\ source.at = 0
                /\ ~messages[i].failed /\ ~messages[unit.at].failed
                /\ \/ source.text = unit.text
                   \/ Cardinality(Shared(unit.text, source.text)) >= MinShared
            /\ unit.form # "whole" => i > Frozen(result[t].request)

\* The breaker opens only on Threshold failed runs with no clean one in between, whichever
\* threads they ran on (pipeline.py:152).
OpensOnStreak == openUntil' # openUntil => streak + 1 >= Threshold

\* A caller that sends the originals again, with the cache breakpoint moved past a duplicate
\* the last call replaced, is told so while the store has its entry (compress.py:454).
MovedBreakpointWarned ==
    \A t \in Threads : call[t] = None /\ call'[t] # None /\ result[t] # None =>
        \A i \in 1..Frozen(call'[t].request) :
            /\ i \in DOMAIN result[t].out /\ result[t].out[i].form = "duplicate"
            /\ \A j \in 1..i : LET sent == result[t].request.messages[j]
                               again == call'[t].request.messages[j] IN
                   sent.text = again.text /\ sent.role = again.role
            /\ tier[<<result[t].out[i].text, "whole">>] # "absent"
            => i \in call'[t].warned

=============================================================================
