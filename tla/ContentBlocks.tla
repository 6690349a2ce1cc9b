---------------------------- MODULE ContentBlocks ----------------------------
(***************************************************************************)
(* The walk over Anthropic content blocks                                  *)
(* (furl_ctx/transforms/router_blocks.py), turn after turn of growing      *)
(* conversations that share the router's result cache.  The provider       *)
(* caches the bytes shipped last turn, so a block should ship in the same  *)
(* form again.  A tool result is flat, or nested in parts; the units the   *)
(* walk decides on are flat contents, parts and text blocks, in order.     *)
(***************************************************************************)
EXTENDS Integers, Sequences, FiniteSets, FiniteSetsExt

CONSTANTS
    Convs,       \* conversations, one call at a time each
    Texts,       \* payloads
    Small,       \* those of at most min_chars
    Long,        \* those over error_protection_max_chars
    Errors,      \* those that look like unstructured error output
    Pinned,      \* those that carry a CCR marker
    Phrased,     \* those that speak of a retrieval: text blocks are pinned by it too
    Borderline,  \* those whose ratio only a relaxed min_ratio accepts
    Units,       \* the units of a conversation, in order (see Unit)
    Excluded,    \* tools whose recent output is protected
    Retrieval,   \* the retrieval tool, always excluded
    BiasOf,      \* per tool, the bias of its profile
    Hints,       \* what retrieval feedback may say: 0 to skip, else a multiplier
    Queries,     \* user queries, the context of a call
    MinWindow,   \* the read protection window covers at least this many messages
    Share,       \* and one in Share of the conversation
    AssistantText, \* compress_assistant_text_blocks
    MaxTurns,    \* bound on the turns of a conversation
    None         \* an absent value

VARIABLES
    results, \* Tier 2: the compressed form each key serves
    skips,   \* Tier 1: keys that will not compress
    turn,    \* per conversation, the call in progress
    walked,  \* per conversation, the units decided in this turn
    shipped, \* per conversation and unit, what was last decided, and how
    moved    \* history: per conversation, units whose cache entry changed since

blockVars == <<results, skips, turn, walked, shipped, moved>>

\* A unit: its message and the message's role, its block's type, tool and
\* is_error flag, whether it is a part of a nested result, whether it or its
\* block carries cache_control, and its payload.
Unit == [msg : Nat \ {0}, role : {"user", "system", "assistant", "tool", "other"},
         type : {"tool_result", "text", "other"}, tool : DOMAIN BiasOf, isError : BOOLEAN,
         nested : BOOLEAN, marked : BOOLEAN, text : Texts]

\* Text blocks are compressed under the neutral bias.
Biases == {1} \cup {BiasOf[b] * h : b \in DOMAIN BiasOf, h \in Hints \cup {1}}

Keys == [text : Texts, bias : Biases]

\* A compressed form: the payload, and what it was compressed under.
Form == [text : Texts, bias : Biases, query : Queries]

\* What was decided of a unit: the form it ships, the key it was looked up as.
Decision == [ships : Form \cup {None}, key : Keys \cup {None}, tight : BOOLEAN]

\* The assumptions on the constants.
BlocksAssumption ==
    /\ Units \in Seq(Unit)
    /\ \A i, j \in DOMAIN Units : i < j => Units[i].msg <= Units[j].msg
    /\ UNION {Small, Long, Errors, Pinned, Phrased, Borderline} \subseteq Texts
    /\ Retrieval \in Excluded /\ Excluded \subseteq DOMAIN BiasOf
    /\ {MinWindow, MaxTurns} \subseteq Nat /\ Share \in Nat \ {0}
    /\ Hints \subseteq Nat /\ AssistantText \in BOOLEAN
    /\ None \notin Keys \cup Form \cup Decision

TypeOK ==
    /\ results \in [Keys -> Form \cup {None}]
    /\ skips \subseteq Keys
    /\ turn \in [Convs -> [n : 0..MaxTurns, tight : BOOLEAN, query : Queries \cup {None},
                           hint : Hints \cup {None}, computing : BOOLEAN]]
    /\ walked \in [Convs -> 0..Len(Units)]
    /\ shipped \in [Convs -> [DOMAIN Units -> Decision \cup {None}]]
    /\ moved \in [Convs -> SUBSET DOMAIN Units]

-----------------------------------------------------------------------------
(* Which units stay verbatim *)

\* The units of the first n messages.
UnitsAt(n) == Cardinality({i \in DOMAIN Units : Units[i].msg <= n})

\* The last messages whose excluded tool results are protected: at least
\* MinWindow, and a share of the conversation.
Window(n) == IF n \div Share > MinWindow THEN n \div Share ELSE MinWindow

\* Text blocks of assistants on demand, of tools always, of others never.
TextProtected(u) == ~(u.role = "tool" \/ (u.role = "assistant" /\ AssistantText))

\* Mutant of ToolProtected: the retrieval tool ages out like the others.
ToolProtectedRecent(u, n) == u.tool \in Excluded /\ n - u.msg + 1 <= Window(n)

\* Excluded tools are protected while recent, the retrieval tool for good.
ToolProtected(u, n) ==
    u.tool \in Excluded /\ (n - u.msg + 1 <= Window(n) \/ u.tool = Retrieval)

\* The failure flag covers a nested result whole, and a flat one if it is short.
ErrorProtected(u) ==
    \/ u.nested /\ u.isError
    \/ u.text \notin Long /\ (u.text \in Errors \/ (~u.nested /\ u.isError))

Verbatim(u, n) ==
    \/ u.marked \/ u.type = "other"
    \/ u.type = "text" /\ TextProtected(u)
    \/ u.type = "tool_result" /\ (ToolProtected(u, n) \/ ErrorProtected(u))
    \/ u.text \in Small \cup Pinned
    \/ u.type = "text" /\ u.text \in Phrased

\* Feedback protects a tool result whose content kept being retrieved.
Skipped(u, hint) == u.type = "tool_result" /\ hint = 0

\* Mutant of KeyOf: the key is the payload alone.
KeyOfText(u, hint) == [text |-> u.text, bias |-> CHOOSE b \in Biases : TRUE]

\* The cache key: the payload and what it would be compressed under, which does
\* not depend on the query.
KeyOf(u, hint) ==
    [text |-> u.text, bias |-> IF u.type = "text" THEN 1 ELSE BiasOf[u.tool] * hint]

-----------------------------------------------------------------------------

Walking(c) == walked[c] < UnitsAt(turn[c].n)

\* The unit a walk is at.
At(c) == walked[c] + 1

\* The cache entries of these keys change: units decided by them take note.
Moving(keys) == [c \in Convs |-> moved[c] \cup {i \in DOMAIN Units :
    shipped[c][i] # None /\ shipped[c][i].key \in keys}]

\* A unit is decided on, which changes the entries of some keys, and the walk goes
\* on; another call that computed the same key may have settled it otherwise.
Decide(c, ships, key, keys) ==
    /\ shipped' = [shipped EXCEPT ![c][At(c)] =
           [ships |-> ships, key |-> key, tight |-> turn[c].tight]]
    /\ walked' = [walked EXCEPT ![c] = @ + 1]
    /\ turn' = [turn EXCEPT ![c].computing = FALSE]
    /\ moved' = [Moving(keys) EXCEPT ![c] =
           IF ships # None /\ key \in skips THEN @ \cup {At(c)} ELSE @ \ {At(c)}]

\* The conversation grows by a message, and its next call begins.
NextTurn(c, tight, query, hint) ==
    /\ ~Walking(c)
    /\ turn[c].n < MaxTurns
    /\ turn' = [turn EXCEPT ![c] = [n |-> @.n + 1, tight |-> tight, query |-> query,
                                    hint |-> hint, computing |-> FALSE]]
    /\ walked' = [walked EXCEPT ![c] = 0]
    /\ UNCHANGED <<results, skips, shipped, moved>>

Keep(c) ==
    /\ Walking(c) /\ ~turn[c].computing
    /\ Verbatim(Units[At(c)], turn[c].n) \/ Skipped(Units[At(c)], turn[c].hint)
    /\ Decide(c, None, None, {})
    /\ UNCHANGED <<results, skips>>

\* The key the walk looks up.
Wanted(c) == KeyOf(Units[At(c)], turn[c].hint)

Offered(c) ==
    /\ Walking(c) /\ ~turn[c].computing
    /\ ~Verbatim(Units[At(c)], turn[c].n) /\ ~Skipped(Units[At(c)], turn[c].hint)

\* Does the call's min_ratio reject the payload's compression?
Rejects(c) == turn[c].tight /\ Units[At(c)].text \in Borderline

\* A hit of Tier 1.
ServeOriginal(c) ==
    /\ Offered(c) /\ Wanted(c) \in skips
    /\ Decide(c, None, Wanted(c), {})
    /\ UNCHANGED <<results, skips>>

\* A hit of Tier 2.
ServeCached(c) ==
    /\ Offered(c) /\ Wanted(c) \notin skips
    /\ results[Wanted(c)] # None /\ ~Rejects(c)
    /\ Decide(c, results[Wanted(c)], Wanted(c), {})
    /\ UNCHANGED <<results, skips>>

\* A hit whose ratio no longer qualifies moves to Tier 1.
Demote(c) ==
    /\ Offered(c) /\ Wanted(c) \notin skips
    /\ results[Wanted(c)] # None /\ Rejects(c)
    /\ results' = [results EXCEPT ![Wanted(c)] = None]
    /\ skips' = skips \cup {Wanted(c)}
    /\ Decide(c, None, Wanted(c), {Wanted(c)})

\* A miss: the unit is compressed inline.
Miss(c) ==
    /\ Offered(c) /\ Wanted(c) \notin skips /\ results[Wanted(c)] = None
    /\ turn' = [turn EXCEPT ![c].computing = TRUE]
    /\ UNCHANGED <<results, skips, walked, shipped, moved>>

\* Mutant of Accept: the result ships without joining the cache.
AcceptUncached(c) ==
    /\ turn[c].computing /\ ~Rejects(c)
    /\ Decide(c, [text |-> Units[At(c)].text, bias |-> Wanted(c).bias, query |-> turn[c].query],
              Wanted(c), {})
    /\ UNCHANGED <<results, skips>>

\* The result joins the cache, over what another call has put there meanwhile.
Accept(c) ==
    LET form == [text |-> Units[At(c)].text, bias |-> Wanted(c).bias, query |-> turn[c].query]
    IN  /\ turn[c].computing /\ ~Rejects(c)
        /\ results' = [results EXCEPT ![Wanted(c)] = form]
        /\ Decide(c, form, Wanted(c), IF results[Wanted(c)] = form THEN {} ELSE {Wanted(c)})
        /\ UNCHANGED skips

\* ... or is none: its ratio is rejected, or its original could not be stored.
Reject(c) ==
    /\ turn[c].computing
    /\ skips' = skips \cup {Wanted(c)}
    /\ Decide(c, None, Wanted(c), IF Wanted(c) \in skips THEN {} ELSE {Wanted(c)})
    /\ UNCHANGED results

\* An entry expires, is evicted, or is found without its originals.
Forget(key) ==
    /\ \/ /\ key \in skips
          /\ skips' = skips \ {key}
          /\ UNCHANGED results
       \/ /\ results[key] # None
          /\ results' = [results EXCEPT ![key] = None]
          /\ UNCHANGED skips
    /\ moved' = Moving({key})
    /\ UNCHANGED <<turn, walked, shipped>>

-----------------------------------------------------------------------------

Init ==
    /\ results = [k \in Keys |-> None]
    /\ skips = {}
    /\ turn = [c \in Convs |->
           [n |-> 0, tight |-> FALSE, query |-> None, hint |-> None, computing |-> FALSE]]
    /\ walked = [c \in Convs |-> 0]
    /\ shipped = [c \in Convs |-> [i \in DOMAIN Units |-> None]]
    /\ moved = [c \in Convs |-> {}]

Next ==
    \/ \E c \in Convs, tight \in BOOLEAN, q \in Queries, h \in Hints : NextTurn(c, tight, q, h)
    \/ \E c \in Convs : Keep(c) \/ ServeOriginal(c) \/ ServeCached(c) \/ Demote(c)
                        \/ Miss(c) \/ Accept(c) \/ Reject(c)
    \/ \E key \in Keys : Forget(key)

Spec == Init /\ [][Next]_blockVars

-----------------------------------------------------------------------------

\* A form that ships was made of the unit's own payload under its own tool's
\* bias: shapes that share cache entries never lend each other a form.
OwnForm ==
    \A c \in Convs, i \in DOMAIN Units :
        shipped[c][i] # None /\ shipped[c][i].ships # None =>
            /\ shipped[c][i].ships.text = Units[i].text
            /\ \E h \in Hints \cup {1} : shipped[c][i].ships.bias =
                   (IF Units[i].type = "text" THEN 1 ELSE BiasOf[Units[i].tool] * h)

\* The retrieval tool's output is never compressed, however old (no loop of
\* compress and retrieve), nor is anything under cache_control.
NeverTouched ==
    \A c \in Convs, i \in DOMAIN Units :
        Units[i].marked \/ (Units[i].type = "tool_result" /\ Units[i].tool = Retrieval) =>
            (shipped[c][i] # None => shipped[c][i].ships = None)

\* A unit ships as it did last turn, whatever the query, its place and the
\* length of the conversation, unless the call's threshold changed, feedback
\* or age changed what it is looked up as, or its cache entry changed since.
StableStep == \A c \in Convs : walked'[c] = walked[c] + 1 =>
    LET i == At(c) IN
    shipped[c][i] # None /\ shipped'[c][i].ships # shipped[c][i].ships =>
        \/ shipped'[c][i].tight # shipped[c][i].tight
        \/ shipped'[c][i].key # shipped[c][i].key
        \/ i \in moved[c]

StableForms == [][StableStep]_blockVars

=============================================================================
