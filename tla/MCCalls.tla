------------------------------- MODULE MCCalls -------------------------------
(* ClientCalls for TLC: two servers, two threads, and small sets of         *)
(* contents, documents, retrieves and tool calls.                           *)
EXTENDS ClientCalls, SequencesExt, TLC

CONSTANTS s1, s2, w1, w2, p, q, nb, ta, tb, tv, path, fa, fb

-----------------------------------------------------------------------------
(* furl_compress, furl_read, furl_retrieve and furl_purge of two servers.    *)

\* An original, its dropped rows, and a file that quotes the marker of the rows.
Markers == p :> <<nb>> @@ q :> <<nb>> @@ nb :> <<>>

-----------------------------------------------------------------------------
(* compress() in two threads.                                                *)

Assistant == [role |-> "assistant", text |-> None, marked |-> FALSE, failed |-> FALSE, tool |-> "none",
              path |-> None, span |-> None, call |-> 0]

Message(text, name, callId) ==
    [Assistant EXCEPT !.role = "tool", !.text = text, !.tool = name, !.call = callId,
                      !.path = IF name \in {"read", "edit"} THEN path ELSE None]

Ask(messages) ==
    [messages |-> messages, protect |-> 0, users |-> FALSE, systems |-> FALSE, supersede |-> FALSE,
     recovers |-> FALSE, window |-> 0, analysis |-> FALSE]

\* An output retrieved again and again, after a copy of it that is flagged as an error.
Repeated(n) == [i \in 1..n |-> [Message(ta, "retrieve", 0) EXCEPT !.failed = i = 1]]

\* A file read twice, with other contents, then edited in a later turn.
Edited == <<Assistant, Message(ta, "read", 1), Message(tb, "read", 1), Assistant, Message(None, "edit", 4)>>

System == [Assistant EXCEPT !.role = "system", !.text = tv]

\* The last moves the breakpoint past a duplicate of the first.
RequestSet ==
    {Ask(Repeated(4)), [Ask(Edited) EXCEPT !.recovers = TRUE],
     [Ask(Append([Repeated(3) EXCEPT ![3].marked = TRUE], System)) EXCEPT !.protect = 1]}

\* Two texts share most of their rows.
RowsByText == ta :> {1, 2, 3} @@ tb :> {1, 2, 4} @@ tv :> {}

-----------------------------------------------------------------------------
(* One content in the compression engine.                                    *)

ContentSet ==
    BoundedSeq({"blank", "prose", "fence", "open", "close", "json", "search"}, 1)
    \cup BoundedSeq({"prose", "fence", "open", "close"}, 3)
    \cup {<<"prose", "search", "blank", "prose">>, <<"search", "json", "prose", "fence">>,
          <<"fence", "open", "fence", "prose">>, <<"open", "prose", "blank", "close">>,
          <<"blank", "fence", "prose", "blank">>, <<"open", "open", "close", "prose">>}

-----------------------------------------------------------------------------
(* One original: arrays of up to three rows, objects of arrays, and up to    *)
(* four lines of text.                                                       *)

Cell(type, number) == [type |-> type, n |-> number]

RowSet ==
    {fa :> Cell("str", 1), fa :> Cell("int", 1) @@ fb :> Cell("int", 2), fa :> Cell("bool", 1),
     fa :> Cell("null", 0) @@ fb :> Cell("dict", 0), fa :> Cell("str", 2), fb :> Cell("int", 1)}

Member(key, value) == [key |-> key, value |-> value]

Json(shape, members) == [shape |-> shape, members |-> members, lines |-> <<>>]

One == <<fa :> Cell("str", 1)>>

Objects ==
    {<<Member(1, One), Member(2, <<>>)>>, <<Member(1, One), Member(2, One)>>, <<Member(1, One), Member(1, One)>>,
     <<Member(1, One), Member(1, <<>>), Member(2, One)>>, <<Member(1, <<>>)>>}

Line(matched, long, slow, severe) == [hit |-> matched, long |-> long, slow |-> slow, severe |-> severe]

LineSet ==
    {Line(TRUE, FALSE, FALSE, FALSE), Line(TRUE, TRUE, FALSE, FALSE), Line(TRUE, FALSE, TRUE, TRUE),
     Line(FALSE, FALSE, FALSE, TRUE), Line(FALSE, FALSE, FALSE, FALSE)}

DocumentSet ==
    {Json("array", <<Member(1, rows)>>) : rows \in BoundedSeq(RowSet, 3) \ {<<>>}}
    \cup {Json("object", members) : members \in Objects}
    \cup {[shape |-> "lines", members |-> <<>>, lines |-> text] : text \in BoundedSeq(LineSet, 4)}

Filter(field, equals, low, high, limit, fields, raw) ==
    [pattern |-> None, start |-> None, end |-> None, context |-> 0, fields |-> fields, field |-> field,
     equals |-> equals, low |-> low, high |-> high, limit |-> limit, raw |-> raw]

FilterSet ==
    {Filter(x, e, None, None, limit, {}, raw) :
        x \in {fa, fb}, e \in {None, Cell("str", 1), Cell("int", 1), Cell("bool", 1), Cell("null", 0)},
        limit \in {1, 2, 9}, raw \in BOOLEAN}
    \cup {Filter(x, None, 1, high, 9, fields, FALSE) : x \in {fa, fb, None}, high \in {0, 1, None}, fields \in {{}, {fb}}}
    \cup {Filter(None, None, None, None, limit, {fb}, FALSE) : limit \in {None, 1}}
    \cup {[Filter(None, None, None, None, None, {}, FALSE) EXCEPT !.pattern = x, !.start = from, !.end = to, !.context = c] :
            x \in {None, "literal", "regex", "pathological"}, from \in {None, 2, 3}, to \in {None, 2, 3}, c \in 0..1}

-----------------------------------------------------------------------------
(* One tool call under the hooks.                                            *)

Trait(scan, long, shrinks, marked) == [scan |-> scan, long |-> long, shrinks |-> shrinks, marked |-> marked]

Call(name, shape, out, err) == [tool |-> name, shape |-> shape, out |-> out, err |-> err, wrapped |-> FALSE]

Dirty == Trait("dirty", TRUE, TRUE, FALSE)

Slow == Trait("slow", TRUE, FALSE, FALSE)

\* Only one of the outputs holds a marker of an earlier call.
BashCalls ==
    {Call("Bash", "bash", Dirty, None), Call("Bash", "bash", Trait("clean", TRUE, TRUE, TRUE), Dirty),
     Call("Bash", "nested", Trait("clean", FALSE, FALSE, FALSE), Dirty), Call("Bash", "bash", None, Slow),
     Call("Bash", "bash", Trait("dirty", FALSE, FALSE, FALSE), Slow),
     [Call("Bash", "bash", Trait("clean", TRUE, FALSE, FALSE), None) EXCEPT !.wrapped = TRUE]}

OtherCalls ==
    {Call("WebFetch", shape, out, None) :
        shape \in {"field", "blocks", "foreign"}, out \in {None, Dirty, Slow, Trait("clean", TRUE, TRUE, TRUE)}}
    \cup {Call("furl", "blocks", Trait("clean", TRUE, TRUE, TRUE), None)}

\* One place holds a mark, or none.
Settings(pipe, override, rooted, place, mark) ==
    [pipe |-> pipe, override |-> override, rooted |-> rooted,
     marks |-> [x \in {"managed", "user", "session", "cwd"} |-> IF x = place THEN {mark} ELSE {}]]

\* Every call under settings that let it be wrapped, and one without output under every other.
SessionSet ==
    {[call |-> c, setting |-> Settings(TRUE, FALSE, TRUE, None, None)] : c \in BashCalls \cup OtherCalls}
    \cup {[call |-> Call("Bash", "bash", None, None), setting |-> Settings(pipe, override, rooted, place, mark)] :
            pipe, override, rooted \in BOOLEAN, place \in {None, "user", "session", "cwd"}, mark \in {"rule", "doubt"}}

FieldOrder == <<fa, fb>>

-----------------------------------------------------------------------------
(* What the .cfg gives the constants: TLC evaluates these at every use, and  *)
(* the definitions they name once.                                           *)

MCNested == Markers

MCRequests == RequestSet

MCRowsOf == RowsByText

MCContents == ContentSet

MCDocuments == DocumentSet

MCFilters == FilterSet

MCOrder == FieldOrder

MCSessions == SessionSet

Symmetric == Permutations(Workers) \cup Permutations(Servers)

=============================================================================
