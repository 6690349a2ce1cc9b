---------------------------- MODULE StoreQueries ----------------------------
(***************************************************************************)
(* The questions the model asks of the store: furl_retrieve by hash, with  *)
(* and without a query, its search over every entry, furl_search and       *)
(* furl_list (furl_ctx/ccr/mcp_server.py over                              *)
(* furl_ctx/cache/compression_store.py).  Each is a sequence of lock       *)
(* sections, between which other threads store, refresh and remove         *)
(* entries and time passes.  One query text; its scores are given.         *)
(***************************************************************************)
EXTENDS Naturals, FiniteSets, Sequences, SequencesExt, FiniteSetsExt

CONSTANTS
    Askers,      \* workers of the server, one tool call each
    Hashes,      \* a set of numbers, compared as the hashes are
    ScoreOf,     \* per hash, how its original scores under the query
    ItemScore,   \* score_threshold of search: some item of a better original reaches it
    MaxResults,  \* max_results of search_all
    LimitCap,    \* _SEARCH_LIST_LIMIT_CAP
    Limits,      \* limits callers ask for
    Ttl,         \* the TTL of every entry
    LastTick,    \* bound on the clock
    MaxChanges,  \* bound on what other threads do to the rows
    MaxShown,    \* bound on the answers counted for a hash
    None         \* an absent value

VARIABLES
    tick,        \* the clock
    rows,        \* per hash, the created_at of its entry
    count,       \* per hash, the retrieval_count of its entry
    changes,     \* how many changes others have made
    ask,         \* per worker, the call in progress or its answer, with what it witnessed
    shown        \* history: per hash, the answers with its content since it was stored

queryVars == <<tick, rows, count, changes, ask, shown>>

\* The assumptions on the constants.
QueriesAssumption ==
    /\ IsFiniteSet(Hashes) /\ Hashes \subseteq Nat /\ ScoreOf \in [Hashes -> Nat] /\ Limits \subseteq Nat
    /\ {ItemScore, MaxResults, LimitCap} \subseteq Nat \ {0}
    /\ {Ttl, LastTick, MaxChanges, MaxShown} \subseteq Nat
    /\ None \notin Nat

Tools == {"retrieve", "query", "rank", "find", "list"}

\* got: the hashes an answer has so far, in its order; todo: the snapshot still to decode.
\* The rest is history: the hashes that were live at some moment of the call, those that
\* were not at some moment, and whether a row was added, refreshed or removed.
Asks ==
    [tool : Tools, hash : Hashes \cup {None}, limit : Nat, clock : 0..LastTick,
     step : {"read", "exists", "clock", "status", "keys", "decode", "open", "page", "done"},
     todo : SUBSET Hashes, got : Seq(Hashes), total : Nat,
     answer : {"none", "found", "unmatched", "missing", "expired", "available", "refused", "listed"},
     seen : SUBSET Hashes, lost : SUBSET Hashes, grew : BOOLEAN, moved : BOOLEAN]

TypeOK ==
    /\ tick \in 0..LastTick
    /\ rows \in [Hashes -> (0..LastTick) \cup {None}]
    /\ count \in [Hashes -> Nat] /\ shown \in [Hashes -> Nat]
    /\ changes \in 0..MaxChanges
    /\ ask \in [Askers -> Asks \cup {None}]

-----------------------------------------------------------------------------

Expired(h, time) == time > rows[h] + Ttl

\* Present and not expired.
LiveAt(h, time) == rows[h] # None /\ ~Expired(h, time)

Live == {h \in Hashes : LiveAt(h, tick)}

Running(w) == ask[w] # None /\ ask[w].step # "done"

At(w, step) == Running(w) /\ ask[w].step = step

\* The members of S, in the order that the pairs of before put them in.
InOrder(S, before) ==
    CHOOSE s \in SetToSeqs(S) : \A i, j \in DOMAIN s : i < j => <<s[i], s[j]>> \in before

\* _live_entries(): newest first, the greater hash first among equals.
Newer(g, h) == rows[g] > rows[h] \/ (rows[g] = rows[h] /\ g > h)

NewestFirst == {p \in Hashes \X Hashes : Newer(p[1], p[2])}

Listing(time) == InOrder({h \in Hashes : LiveAt(h, time)}, NewestFirst)

\* Some item of the original reaches the threshold of a search within it.
HasItems(h) == ScoreOf[h] >= ItemScore

Matching(h) == ScoreOf[h] > 0

Limit(raw) == Min({raw, LimitCap})

-----------------------------------------------------------------------------

\* What a running call witnesses of the step.
Witness(c, grows, moves) ==
    IF c = None \/ c.step = "done" THEN c
    ELSE [c EXCEPT !.seen = @ \cup Live', !.lost = @ \cup (Hashes \ Live'),
                   !.grew = @ \/ grows, !.moved = @ \/ moves]

\* Worker w goes on as c.
Continue(w, c) == ask' = [v \in Askers |-> Witness(IF v = w THEN c ELSE ask[v], FALSE, FALSE)]

\* The call is answered; no more is witnessed.
Answer(w, answer, got) ==
    ask' = [ask EXCEPT ![w] = [@ EXCEPT !.step = "done", !.answer = answer, !.got = got, !.todo = {}]]

-----------------------------------------------------------------------------
(* Other threads and processes.                                              *)

\* store(): a new entry, or a refresh that makes it the newest and its count zero.
Store(h) ==
    /\ changes < MaxChanges /\ changes' = changes + 1
    /\ UNCHANGED tick
    /\ rows' = [rows EXCEPT ![h] = tick]
    /\ count' = [count EXCEPT ![h] = 0] /\ shown' = [shown EXCEPT ![h] = 0]
    /\ ask' = [w \in Askers |-> Witness(ask[w], rows[h] = None, rows[h] # None)]

\* Eviction, purge or the reaping of another call.
Drop(h) ==
    /\ rows[h] # None
    /\ UNCHANGED <<tick, shown>>
    /\ changes < MaxChanges /\ changes' = changes + 1
    /\ rows' = [rows EXCEPT ![h] = None]
    /\ count' = [count EXCEPT ![h] = 0]
    /\ ask' = [w \in Askers |-> Witness(ask[w], FALSE, TRUE)]

Tick ==
    /\ tick < LastTick /\ tick' = tick + 1
    /\ UNCHANGED <<rows, count, changes, shown>>
    /\ ask' = [w \in Askers |-> Witness(ask[w], FALSE, Live' # Live)]

-----------------------------------------------------------------------------

\* A tool call starts with what it looks at first.
Begin(w, tool, h, limit, step) ==
    /\ ~Running(w)
    /\ ask' = [ask EXCEPT ![w] =
           [tool |-> tool, hash |-> h, limit |-> limit, clock |-> tick, step |-> step,
            todo |-> {}, got |-> <<>>, total |-> 0,
            answer |-> IF step = "done" THEN "refused" ELSE "none",
            seen |-> Live, lost |-> Hashes \ Live, grew |-> FALSE, moved |-> FALSE]]
    /\ UNCHANGED <<tick, rows, count, changes, shown>>

\* _handle_retrieve: filters are for one entry read in full, so that a query, or no hash,
\* refuses them; without a hash the query ranks every entry.
AskRetrieve(w, h, query, filters) ==
    /\ h # None => shown[h] < MaxShown
    /\ LET tool == IF h = None THEN "rank" ELSE IF query THEN "query" ELSE "retrieve"
           refused == filters = "bad" \/ (query /\ filters # "none") \/ (h = None /\ ~query) IN
       Begin(w, tool, h, MaxResults,
             IF refused THEN "done" ELSE IF h = None THEN "keys" ELSE "read")

\* _handle_search and _handle_list: a limit below one is refused, one above the cap is cut.
AskPage(w, tool, limit) == Begin(w, tool, None, Limit(limit), IF limit < 1 THEN "done" ELSE "open")

\* An expired row met under the lock is deleted.
Reap(h) ==
    /\ rows' = [rows EXCEPT ![h] = None]
    /\ count' = [count EXCEPT ![h] = 0]

\* retrieve(): a live entry is counted and answered in one lock section.
Retrieve(w) ==
    /\ At(w, "read") /\ ask[w].tool = "retrieve"
    /\ UNCHANGED <<tick, changes>>
    /\ LET h == ask[w].hash IN
       IF LiveAt(h, tick)
       THEN /\ count' = [count EXCEPT ![h] = @ + 1]
            /\ shown' = [shown EXCEPT ![h] = @ + 1]
            /\ Answer(w, "found", <<h>>)
            /\ UNCHANGED rows
       ELSE /\ IF rows[h] # None THEN Reap(h) ELSE UNCHANGED <<rows, count>>
            /\ Continue(w, [ask[w] EXCEPT !.step = "clock"])
            /\ UNCHANGED shown

\* search(): the entry is read without being counted; its items are scored outside the
\* lock.
Search(w) ==
    /\ At(w, "read") /\ ask[w].tool = "query"
    /\ UNCHANGED <<tick, changes, shown>>
    /\ LET h == ask[w].hash
           live == LiveAt(h, tick) IN
       /\ IF rows[h] # None /\ ~live THEN Reap(h) ELSE UNCHANGED <<rows, count>>
       /\ Continue(w, [ask[w] EXCEPT !.step = IF live /\ HasItems(h) THEN "decode" ELSE "exists"])

\* _record_search_access(): only results count, and only while the entry is there; they
\* are answered whatever became of it.
Results(w) ==
    /\ At(w, "decode") /\ ask[w].tool = "query"
    /\ LET h == ask[w].hash IN
       /\ IF LiveAt(h, tick) THEN count' = [count EXCEPT ![h] = @ + 1] ELSE UNCHANGED count
       /\ shown' = [shown EXCEPT ![h] = @ + 1]
       /\ Answer(w, "found", <<h>>)
    /\ UNCHANGED <<tick, rows, changes>>

\* Mutant of NoMatch: an empty search is answered as a miss.
NoMatchEvicted(w) == FALSE

\* An entry that is there is no miss: nothing in it matched.
NoMatch(w) == LiveAt(ask[w].hash, tick)

Exists(w) ==
    /\ At(w, "exists")
    /\ UNCHANGED <<tick, rows, count, changes, shown>>
    /\ IF NoMatch(w) THEN Answer(w, "unmatched", <<>>) ELSE Continue(w, [ask[w] EXCEPT !.step = "clock"])

\* get_entry_status() reads the clock before it takes the lock.
StatusClock(w) ==
    /\ At(w, "clock")
    /\ UNCHANGED <<tick, rows, count, changes, shown>>
    /\ Continue(w, [ask[w] EXCEPT !.clock = tick, !.step = "status"])

\* The cause of the miss; an expired entry is deleted on the way.
Status(w) ==
    /\ At(w, "status")
    /\ LET h == ask[w].hash
           cause == IF rows[h] = None THEN "missing"
                    ELSE IF Expired(h, ask[w].clock) THEN "expired" ELSE "available" IN
       /\ IF cause = "expired" THEN Reap(h) ELSE UNCHANGED <<rows, count>>
       /\ Answer(w, cause, <<>>)
    /\ UNCHANGED <<tick, changes, shown>>

-----------------------------------------------------------------------------

\* search_all(): the keys are read under the lock, each entry under a lock of its own.
Snapshot(w) ==
    /\ At(w, "keys")
    /\ UNCHANGED <<tick, rows, count, changes, shown>>
    /\ Continue(w, [ask[w] EXCEPT !.todo = {h \in Hashes : rows[h] # None}, !.step = "decode"])

\* A key that went in between drops out.
Decode(w) ==
    /\ At(w, "decode") /\ ask[w].tool = "rank"
    /\ UNCHANGED <<tick, rows, count, changes, shown>>
    /\ \E h \in ask[w].todo :
          Continue(w, [ask[w] EXCEPT !.todo = @ \ {h},
                          !.got = IF LiveAt(h, ask[w].clock) THEN Append(@, h) ELSE @])

\* Mutant of Outranks: the first entries read are the answer, whatever they score.
OutranksNever(g, h) == FALSE

Outranks(g, h) == ScoreOf[g] > ScoreOf[h]

\* nlargest: the best scores, the entry read first among equals.
Best(got) ==
    LET place(h) == CHOOSE i \in DOMAIN got : got[i] = h
        before == {p \in ToSet(got) \X ToSet(got) : Outranks(p[1], p[2])
                       \/ (~Outranks(p[2], p[1]) /\ place(p[1]) < place(p[2]))}
        ranked == InOrder({h \in ToSet(got) : Matching(h)}, before) IN
    SubSeq(ranked, 1, Min({MaxResults, Len(ranked)}))

Rank(w) ==
    /\ At(w, "decode") /\ ask[w].tool = "rank" /\ ask[w].todo = {}
    /\ Answer(w, "listed", Best(ask[w].got))
    /\ UNCHANGED <<tick, rows, count, changes, shown>>

\* _live_entries() reads the clock before it takes the lock.
Open(w) ==
    /\ At(w, "open")
    /\ UNCHANGED <<tick, rows, count, changes, shown>>
    /\ Continue(w, [ask[w] EXCEPT !.clock = tick, !.step = "page"])

\* furl_search: the newest entries that contain the text, up to the limit.
Find(w) ==
    /\ At(w, "page") /\ ask[w].tool = "find"
    /\ LET hits == InOrder({h \in Hashes : LiveAt(h, ask[w].clock) /\ Matching(h)}, NewestFirst) IN
       Answer(w, "listed", SubSeq(hits, 1, Min({ask[w].limit, Len(hits)})))
    /\ UNCHANGED <<tick, rows, count, changes, shown>>

\* Mutant of NextPage: the offset of the page counts from one.
NextPageSkipping(got) == IF got = <<>> THEN 0 ELSE Len(got) + 1

\* A caller asks for the page after what it has.
NextPage(got) == Len(got)

\* furl_list with an offset: a page of the listing as it is now, and its total.
List(w) ==
    /\ At(w, "page") /\ ask[w].tool = "list"
    /\ UNCHANGED <<tick, rows, count, changes, shown>>
    /\ LET listing == Listing(ask[w].clock)
           offset == NextPage(ask[w].got)
           page == SubSeq(listing, offset + 1, Min({offset + ask[w].limit, Len(listing)})) IN
       IF page = <<>>
       THEN Answer(w, "listed", ask[w].got)
       ELSE Continue(w, [ask[w] EXCEPT !.got = @ \o page, !.total = Len(listing), !.step = "open"])

-----------------------------------------------------------------------------

Init ==
    /\ tick = 0
    /\ rows = [h \in Hashes |-> None]
    /\ count = [h \in Hashes |-> 0] /\ shown = [h \in Hashes |-> 0]
    /\ changes = 0
    /\ ask = [w \in Askers |-> None]

Next ==
    \/ \E h \in Hashes : Store(h) \/ Drop(h)
    \/ Tick
    \/ \E w \in Askers :
        \/ \E h \in Hashes \cup {None}, query \in BOOLEAN, filters \in {"none", "some", "bad"} :
              AskRetrieve(w, h, query, filters)
        \/ \E limit \in Limits, tool \in {"find", "list"} : AskPage(w, tool, limit)
        \/ Retrieve(w) \/ Search(w) \/ Results(w) \/ Exists(w) \/ StatusClock(w) \/ Status(w)
        \/ Snapshot(w) \/ Decode(w) \/ Rank(w) \/ Open(w) \/ Find(w) \/ List(w)

Spec == Init /\ [][Next]_queryVars

-----------------------------------------------------------------------------

Answered(w, tool) == ask[w] # None /\ ask[w].step = "done" /\ ask[w].tool = tool /\ ask[w].answer # "refused"

\* Live from the beginning of the call to its answer.
Steady(c) == c.seen \ c.lost

\* What a call about one hash says was so at some moment of it: content it shows was
\* there, an entry reported absent or expired was not, and "nothing matched" is said of an
\* entry whose content does not match, or that came only after the search
\* (mcp_server.py:1620).
HashAnswersTrue ==
    \A w \in Askers : Answered(w, "retrieve") \/ Answered(w, "query") =>
        LET c == ask[w] IN
        /\ c.answer \in {"found", "unmatched", "available"} => c.hash \in c.seen
        /\ c.answer \in {"missing", "expired", "available"} => c.hash \in c.lost
        /\ c.answer = "found" /\ c.tool = "query" => HasItems(c.hash)
        /\ c.answer = "unmatched" => ~HasItems(c.hash) \/ c.hash \in c.lost

\* A search over every entry passes over no entry that was there all along in favour of a
\* worse one, or of none, though it decodes the entries one by one
\* (compression_store.py:966).
RankingComplete ==
    \A w \in Askers : Answered(w, "rank") =>
        LET c == ask[w] IN
        /\ ToSet(c.got) \subseteq c.seen \cap {h \in Hashes : Matching(h)}
        /\ Len(c.got) = Cardinality(ToSet(c.got)) /\ Len(c.got) <= MaxResults
        /\ \A h \in Steady(c) \ ToSet(c.got) :
              Matching(h) => Len(c.got) = MaxResults /\ \A g \in ToSet(c.got) : ScoreOf[g] >= ScoreOf[h]

\* A page never exceeds the cap, and the pages of one listing tile it: without a removal or
\* a refresh between them every entry that was there all along is listed, without an
\* addition or a refresh none is listed twice (mcp_server.py:2924).
PagesTile ==
    \A w \in Askers :
        LET c == ask[w] IN
        /\ Answered(w, "find") => Len(c.got) <= LimitCap /\ ToSet(c.got) \subseteq {h \in c.seen : Matching(h)}
        /\ Answered(w, "list") =>
            /\ ToSet(c.got) \subseteq c.seen
            /\ ~c.moved => Steady(c) \subseteq ToSet(c.got)
            /\ ~c.moved /\ ~c.grew => Cardinality(ToSet(c.got)) = Len(c.got) /\ Len(c.got) = c.total

\* An entry's count never exceeds the answers that showed its content: probes without
\* results, misses and searches over the store count nothing (compression_store.py:901).
CountsShown == \A h \in Hashes : count[h] <= shown[h]

\* The tools' answers about the store, taken together.
AnswersTrue == HashAnswersTrue /\ RankingComplete /\ PagesTile /\ CountsShown

=============================================================================
