----------------------------- MODULE ContentEngine -----------------------------
(***************************************************************************)
(* One content through the router's engine: is it mixed and into which     *)
(* sections does it split (transforms/router_split.py), which strategy     *)
(* does each take (router_policy.py, router_dispatch.py), what do the      *)
(* tabular, envelope and HTML conversions ship (csv_ingest.py,             *)
(* envelope_ingest.py, html_ingest.py), and what of all that does the      *)
(* caller get (router_engine.py: the empty-output guard, the offload of    *)
(* what nothing shrinks).  A line is one of seven kinds, a blank one       *)
(* counts nothing and any other counts one token; what a compressor makes  *)
(* of a section is its form and its size, chosen freely.                   *)
(***************************************************************************)
EXTENDS Naturals, Sequences, FiniteSetsExt, SequencesExt

CONSTANTS
    Contents,   \* the contents to compress: sequences of Lines
    MaxLines,   \* bound on the lines of a content
    ProseMin,   \* prose lines that make a content look like prose
    Triggers    \* offload what kept at least this many tenths of its tokens

VARIABLES
    lines,      \* the content
    array,      \* whether a JSON content is an array (or an object)
    kind,       \* the detector's verdict on the whole of it
    size,       \* "small", "large" enough to offload, or "huge"
    strict,     \* lossless_only
    phase,      \* what happens next
    todo,       \* sections to dispatch
    outs,       \* what became of the others
    stored,     \* originals in the durable store: sections, or the whole
    result      \* the text to ship, and the tokens the routing log reports

content == <<lines, array, kind, size, strict>>

vars == <<content, phase, todo, outs, stored, result>>

Lines == {"prose", "blank", "fence", "search", "json", "open", "close"}

Kinds == {"text", "json", "search", "log", "diff", "code"}

Forms == {"same", "crushed", "template", "lossy", "csv", "envelope", "html"}

Sections == [from : 1..(MaxLines + 1), to : 0..MaxLines, kind : Kinds, fenced : BOOLEAN]

Outs == [from : 1..(MaxLines + 1), to : 0..MaxLines, fenced : BOOLEAN, form : Forms,
         before : 0..MaxLines, after : 0..(MaxLines + 3)]

Texts == {"none", "original", "outs", "preview"}

\* The assumptions on the constants.
EngineAssumption == Contents \subseteq BoundedSeq(Lines, MaxLines) /\ {MaxLines, ProseMin, Triggers} \subseteq Nat

TypeOK ==
    /\ lines \in Contents
    /\ array \in BOOLEAN /\ strict \in BOOLEAN
    /\ kind \in Kinds /\ size \in {"small", "large", "huge"}
    /\ phase \in {"route", "dispatch", "guard", "offload", "shipped"}
    /\ todo \in Seq(Sections) /\ outs \in Seq(Outs)
    /\ stored \subseteq (1..(MaxLines + 1)) \X (0..MaxLines)
    /\ result \in [text : Texts, before : Nat, after : Nat]

-----------------------------------------------------------------------------

Indices == DOMAIN lines

\* Tokens of the lines from one to another.
Tokens(from, to) == Cardinality({i \in from..to : lines[i] # "blank"})

Least(S, default) == IF S = {} THEN default ELSE Min(S)

Depth(from, to) ==
    LET in(what) == Cardinality({i \in from..to : lines[i] = what}) IN
    <<in("open"), in("close")>>

\* _extract_json_block: the first line where the brackets opened since i are closed, or 0.
BlockEnd(i) == Least({j \in i..Len(lines) : Depth(i, j)[1] <= Depth(i, j)[2]}, 0)

StartsJson(i) == lines[i] \in {"json", "open"}

\* A line that ends a text section.
Special(i) == lines[i] \in {"fence", "search"} \/ StartsJson(i)

Section(from, to, what, fenced) == [from |-> from, to |-> to, kind |-> what, fenced |-> fenced]

\* The section that starts at line i, and the line after it.
Fence(i) ==
    LET end == Least({j \in (i + 1)..Len(lines) : lines[j] = "fence"}, Len(lines) + 1) IN
    <<Section(i + 1, end - 1, "code", TRUE), end + 1>>

Search(i) ==
    LET end == Least({j \in i..Len(lines) : lines[j] # "search"}, Len(lines) + 1) IN
    <<Section(i, end - 1, "search", FALSE), end>>

Prose(i) ==
    LET end == Least({j \in (i + 1)..Len(lines) : Special(j)}, Len(lines) + 1) IN
    <<Section(i, end - 1, "text", FALSE), end>>

\* Mutant of Piece: a block that never closes takes the line it starts on and drops it.
PieceDropped(i) ==
    CASE lines[i] = "fence"  -> Fence(i)
      [] StartsJson(i)       -> <<Section(i, BlockEnd(i), "json", FALSE), (IF BlockEnd(i) = 0 THEN i ELSE BlockEnd(i)) + 1>>
      [] lines[i] = "search" -> Search(i)
      [] OTHER               -> Prose(i)

Piece(i) ==
    CASE lines[i] = "fence"                   -> Fence(i)
      [] StartsJson(i) /\ BlockEnd(i) # 0     -> <<Section(i, BlockEnd(i), "json", FALSE), BlockEnd(i) + 1>>
      [] lines[i] = "search"                  -> Search(i)
      [] OTHER                                -> Prose(i)

\* split_into_sections: from line i on; a text section of blank lines is left out.
Split ==
    LET from[i \in 1..(Len(lines) + 2)] ==
            IF i > Len(lines) THEN <<>>
            ELSE LET s == Piece(i)[1] IN
                 (IF s.kind = "text" /\ Tokens(s.from, s.to) = 0 THEN <<>> ELSE <<s>>) \o from[Piece(i)[2]]
    IN from[1]

\* is_mixed_content: two of the four signs, unless it is one whole array.
IsMixed ==
    LET some(what) == \E i \in Indices : lines[i] \in what
        prose == Cardinality({i \in Indices : lines[i] = "prose"}) >= ProseMin
        signs == {x \in {<<1, some({"fence"})>>, <<2, some({"json", "open"})>>,
                         <<3, prose>>, <<4, some({"search"})>>} : x[2]} IN
    /\ ~(array /\ lines # <<>> /\ StartsJson(1) /\ BlockEnd(1) = Len(lines))
    /\ Cardinality(signs) >= 2

-----------------------------------------------------------------------------

Sized(form, n, sizes) == {[form |-> form, before |-> n, after |-> k] : k \in sizes}

Same(n) == [form |-> "same", before |-> n, after |-> n]

\* What loses lines or reads the content as something else, and is never allowed when strict.
Loose(outcomes) == IF strict THEN {} ELSE outcomes

Ingested == {"csv", "envelope", "html"}

\* A CSV as records, an envelope's inner array, a page's text: each ships only when shorter.
Tabular(n) == Loose(Sized("csv", n, 0..(n - 1)))

Envelope(n) == Loose(Sized("envelope", n, 0..(n - 1)))

Extracted(n) == Loose(Sized("html", n, 0..(n - 1)))

\* A rendering that saves nothing may still lose lines to the log compressor.
NoSavings(n) == Loose(Sized("lossy", n, 0..(n - 1)))

\* SmartCrusher's own rendering, unless it is longer.
Json(n) == Tabular(n) \cup Envelope(n) \cup Sized("crushed", n, 0..n) \cup NoSavings(n)

Dropped(n) == Sized("lossy", n, 0..(n + 1))

\* Mutant of Log: the log arm forgets the strict mode.
LogLoose(n) == Sized("template", n, 0..(n - 1)) \cup Dropped(n)

\* The template miner, which loses nothing, then the log compressor.
Log(n) == Sized("template", n, 0..(n - 1)) \cup Loose(Dropped(n))

Text(n) == Extracted(n) \cup Loose(Dropped(n))

\* What the strategy of a kind of content may make of n tokens; any compressor may be
\* switched off, and code ships as it is unless its compressor is switched on.
Arm(what, n) ==
    {Same(n)} \cup
    CASE what = "json" -> Json(n)
      [] what = "log"  -> Log(n)
      [] what = "text" -> Text(n)
      [] OTHER         -> Loose(Dropped(n))

\* Mutant of Shipped: the conversion ships before its original is stored.
ShippedAnyway(out, lands) == out

\* A conversion whose original is not durable is vetoed.
Shipped(out, lands) == IF out.form \in Ingested /\ ~lands THEN Same(out.before) ELSE out

\* The sum of a field over what became of the sections.
Total(field) ==
    LET sum[n \in 0..Len(outs)] == IF n = 0 THEN 0 ELSE sum[n - 1] + outs[n][field]
    IN sum[Len(outs)]

\* The bytes the reassembly of the sections ships; a fence is written around its section.
ShippedTokens == Total("after")

Whole == <<1, Len(lines)>>

AllTokens == Tokens(1, Len(lines))

Original(before, after) == [text |-> "original", before |-> before, after |-> after]

-----------------------------------------------------------------------------

\* A content of blanks is handed back, one past the size ceiling goes to the offload, and
\* any other is split, or taken whole with the detector's verdict.
Route ==
    /\ phase = "route"
    /\ LET blank == AllTokens = 0
           mixed == IsMixed IN
       /\ todo' = IF blank \/ (size = "huge" /\ ~strict) THEN <<>>
                  ELSE IF mixed THEN Split
                  ELSE <<Section(1, Len(lines), kind, FALSE)>>
       /\ phase' = IF todo' = <<>> THEN "offload" ELSE "dispatch"
       /\ result' = IF todo' = <<>> THEN Original(0, 0) ELSE result
    /\ UNCHANGED <<content, outs, stored>>

Dispatch(lands) ==
    /\ phase = "dispatch" /\ todo # <<>>
    /\ LET s == Head(todo)
           fences == IF s.fenced THEN 2 ELSE 0 IN
       \E out \in Arm(s.kind, Tokens(s.from, s.to)) :
          LET now == Shipped(out, lands) IN
          /\ outs' = Append(outs, [from |-> s.from, to |-> s.to, fenced |-> s.fenced, form |-> now.form,
                                   before |-> now.before, after |-> now.after + fences])
          /\ stored' = IF now.form \in Ingested /\ lands THEN stored \cup {<<s.from, s.to>>} ELSE stored
    /\ todo' = Tail(todo)
    /\ UNCHANGED <<content, phase, result>>

\* _compress_mixed hands the original back when no section changed: the reassembly would
\* not be byte-faithful.
Join ==
    /\ phase = "dispatch" /\ todo = <<>>
    /\ phase' = "guard"
    /\ result' =
           IF \A i \in DOMAIN outs : outs[i].form = "same"
           THEN Original(Total("before"), Total("before"))
           ELSE [text |-> "outs", before |-> Total("before"), after |-> Total("after")]
    /\ UNCHANGED <<content, todo, outs, stored>>

\* Mutant of Restored: the routing log keeps the sizes of the empty output.
RestoredOnly == [result EXCEPT !.text = "original"]

Restored == Original(result.before, result.before)

\* The empty-output guard: an output of nothing is replaced by the original, and so are the
\* sizes in the log.
Guard ==
    /\ phase = "guard"
    /\ result' = IF result.text = "outs" /\ ShippedTokens = 0 THEN Restored ELSE result
    /\ phase' = "offload"
    /\ UNCHANGED <<content, todo, outs, stored>>

\* _should_ccr_offload; the size ceiling offloads at once.
Offloadable(marked) ==
    /\ ~strict
    /\ \/ size = "huge"
       \/ size = "large" /\ ~marked /\ 10 * result.after >= Triggers * result.before

\* Whatever became of the sections is dropped for a preview whose original is durable and
\* reads back, or stays.
Offload(marked, lands, length) ==
    /\ phase = "offload"
    /\ IF Offloadable(marked) /\ lands
       THEN /\ stored' = stored \cup {Whole}
            /\ result' = [text |-> "preview", before |-> AllTokens, after |-> length]
       ELSE UNCHANGED <<stored, result>>
    /\ phase' = "shipped"
    /\ UNCHANGED <<content, todo, outs>>

Init ==
    /\ lines \in Contents
    /\ array \in {FALSE} \cup {x \in {TRUE} : lines # <<>> /\ StartsJson(1)}
    /\ strict \in BOOLEAN
    /\ kind \in Kinds /\ size \in {"small", "large", "huge"}
    /\ phase = "route" /\ todo = <<>> /\ outs = <<>> /\ stored = {}
    /\ result = [text |-> "none", before |-> 0, after |-> 0]

Next ==
    \/ Route \/ Join \/ Guard
    \/ \E lands \in BOOLEAN : Dispatch(lands)
    \/ \E marked \in BOOLEAN, lands \in BOOLEAN, length \in {1, MaxLines} : Offload(marked, lands, length)

Spec == Init /\ [][Next]_vars

-----------------------------------------------------------------------------

Covered(i) == Cardinality({n \in DOMAIN outs : i \in outs[n].from..outs[n].to})

\* Splitting and reassembling lose nothing: when every section is dispatched, each line that
\* says something is in exactly one of them, fences apart, and they are in order
\* (router_split.py:139).
SectionsCover ==
    phase = "guard" /\ result.text = "outs" =>
        /\ \A i \in Indices : lines[i] \notin {"blank", "fence"} => Covered(i) = 1
        /\ \A n \in 2..Len(outs) : outs[n - 1].to < outs[n].from

Shipping(forms) == {outs[i] : i \in {j \in DOMAIN outs : result.text = "outs" /\ outs[j].form \in forms}}

\* The engine never blanks a content, reports no saving it did not make (the tokens the log
\* says were saved are at most those the shipped text lacks), loses nothing in the strict
\* mode, and ships no view whose original is not durable (router_engine.py:414).
ResultSound ==
    phase = "shipped" =>
        /\ result.text = "outs" => ShippedTokens > 0
        /\ result.text = "original" => result.before <= result.after
        /\ result.text = "outs" => result.before + ShippedTokens <= AllTokens + result.after
        /\ strict => Shipping(Ingested \cup {"lossy"}) = {} /\ result.text # "preview"
        /\ result.text = "preview" => Whole \in stored
        /\ \A out \in Shipping(Ingested) : <<out.from, out.to>> \in stored

=============================================================================
