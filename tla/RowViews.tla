------------------------------- MODULE RowViews -------------------------------
(***************************************************************************)
(* What a model sees of an offloaded original, and what a filtered         *)
(* retrieve answers about it: the summary of the rows of a JSON array that *)
(* ships in its place (transforms/router_engine.py), the row selection,    *)
(* projection and line filters of furl_retrieve (ccr/retrieve_filters.py,  *)
(* ccr/retrieve_spans.py), and the split into protected and compressible   *)
(* runs of lines of furl_compress (ccr/compress_modes.py).                 *)
(***************************************************************************)
EXTENDS Integers, Sequences, FiniteSetsExt, SequencesExt

CONSTANTS
    Documents,   \* the originals
    Requests,    \* the filtered retrieves
    Fields,      \* names of the fields of rows
    Order,       \* their alphabetical order, as a sequence
    MaxDistinct, \* _SUMMARY_MAX_CATEGORICAL_DISTINCT
    TopValues,   \* _SUMMARY_TOP_VALUES
    SampleRows,  \* _SUMMARY_SAMPLE_ROWS
    HeadLines,   \* _OFFLOAD_PREVIEW_HEAD_LINES
    TailLines,   \* _OFFLOAD_PREVIEW_TAIL_LINES
    ErrorLines,  \* _OFFLOAD_ERROR_LINES_MAX
    None         \* an absent value

VARIABLES
    doc,     \* the stored original
    summary, \* what ships in its place
    request, \* the filtered retrieve
    answer,  \* its answer
    runs     \* the runs of lines that furl_compress makes of it

vars == <<doc, summary, request, answer, runs>>

\* A document is text lines, or the members of a JSON object in the order they are written,
\* or the one array of a bare one.  A member's value is an array of rows, empty for any other value.
IsJson == doc.shape \in {"array", "object"}

\* A cell has a type and a number that tells its values apart: 1, "1" and true have the same.
Null == [type |-> "null", n |-> 0]

Scalar(v) == v.type \in {"str", "int", "bool"}

Number(v) == v.type = "int"

\* How a scalar prints.
Text(v) == IF v.type = "bool" THEN <<"bool", v.n>> ELSE <<"digits", v.n>>

\* Digits sort before True and False.
TextBefore(v, w) == IF Text(v)[1] = Text(w)[1] THEN v.n < w.n ELSE w.type = "bool"

\* Equality of dictionary keys: true is 1.
SameKey(v, w) == v = w \/ ({v.type, w.type} = {"int", "bool"} /\ v.n = w.n)

Cells == [type : {"str", "int", "bool", "null", "dict"}, n : Int]

TextLines == [hit : BOOLEAN, long : BOOLEAN, slow : BOOLEAN, severe : BOOLEAN]

Listed(s) == Len(s) \in Nat /\ DOMAIN s = 1..Len(s)

\* An array of objects: a row has some of the fields.
Table(rows) ==
    /\ Listed(rows)
    /\ \A i \in DOMAIN rows : DOMAIN rows[i] \subseteq Fields /\ \A f \in DOMAIN rows[i] : rows[i][f] \in Cells

\* The assumptions on the constants.
ViewsAssumption ==
    /\ {MaxDistinct, TopValues, SampleRows, HeadLines, TailLines, ErrorLines} \subseteq Nat
    /\ \A d \in Documents :
        /\ d.shape \in {"lines", "array", "object"} /\ d.lines \in Seq(TextLines)
        /\ Listed(d.members) /\ (d.shape = "array" => Len(d.members) = 1)
        /\ \A i \in DOMAIN d.members : d.members[i].value # None /\ Table(d.members[i].value)
    /\ Requests \subseteq [pattern : {None, "literal", "regex", "pathological"}, start : {None} \cup Nat,
                           end : {None} \cup Nat, context : Nat, fields : SUBSET Fields,
                           field : {None} \cup Fields, equals : {None} \cup Cells, low : {None} \cup Int,
                           high : {None} \cup Int, limit : {None} \cup Nat, raw : BOOLEAN]

-----------------------------------------------------------------------------

\* json.loads keeps the last member of a name.
Effective(members) == {i \in DOMAIN members : \A j \in DOMAIN members : j > i => members[j].key # members[i].key}

HasRows(members, i) == members[i].value # <<>>

\* Mutant of DominantArray: the first array wins instead of being refused as ambiguous.
DominantArrayFirst ==
    LET with == {i \in Effective(doc.members) : HasRows(doc.members, i)} IN
    IF with = {} THEN 0 ELSE Min(with)

\* The one member whose value is a non-empty array of objects, or 0.
DominantArray ==
    LET with == {i \in Effective(doc.members) : HasRows(doc.members, i)} IN
    IF Cardinality(with) = 1 THEN Max(with) ELSE 0

With(rows, f) == {i \in DOMAIN rows : f \in DOMAIN rows[i]}

Counted(rows, f) == {i \in With(rows, f) : Scalar(rows[i][f])}

\* A counter's keys: of equal ones, the first inserted.
Distinct(rows, f) ==
    {rows[i][f] : i \in {i \in Counted(rows, f) : \A j \in Counted(rows, f) : SameKey(rows[i][f], rows[j][f]) => i <= j}}

Count(rows, f, v) == Cardinality({i \in Counted(rows, f) : SameKey(rows[i][f], v)})

First(rows, f, v) == Min({i \in Counted(rows, f) : SameKey(rows[i][f], v)})

Categorical(rows) ==
    {f \in Fields : LET n == Cardinality(Distinct(rows, f)) IN n # 0 /\ (n <= MaxDistinct \/ 50 * n < Len(rows))}

\* The values of the histogram: by count, then by text, then by insertion.
Top(rows, f) ==
    LET before(v, w) ==
            \/ Count(rows, f, v) > Count(rows, f, w)
            \/ /\ Count(rows, f, v) = Count(rows, f, w)
               /\ TextBefore(v, w) \/ (Text(v) = Text(w) /\ First(rows, f, v) < First(rows, f, w)) IN
    {v \in Distinct(rows, f) : Cardinality({w \in Distinct(rows, f) : before(w, v)}) < TopValues}

\* Mutant of Histogram: of two values that print alike the last one's count stays.
HistogramOverwritten(rows, f) ==
    [t \in {Text(v) : v \in Top(rows, f)} |-> Min({Count(rows, f, v) : v \in {v \in Top(rows, f) : Text(v) = t}})]

\* The counts of values that print alike are summed.
Histogram(rows, f) ==
    [t \in {Text(v) : v \in Top(rows, f)} |->
        MapThenSumSet(LAMBDA v : Count(rows, f, v), {v \in Top(rows, f) : Text(v) = t})]

Extent(rows, f) ==
    LET numbers == {rows[i][f].n : i \in {i \in With(rows, f) : Number(rows[i][f])}} IN
    IF numbers = {} THEN None ELSE <<Min(numbers), Max(numbers)>>

Rank(f) == CHOOSE k \in DOMAIN Order : Order[k] = f

\* The field of the examples: the one on most rows, with most values, first by name.
Primary(rows) ==
    LET better(f, g) ==
            \/ Cardinality(With(rows, f)) > Cardinality(With(rows, g))
            \/ /\ Cardinality(With(rows, f)) = Cardinality(With(rows, g))
               /\ \/ Cardinality(Distinct(rows, f)) > Cardinality(Distinct(rows, g))
                  \/ Cardinality(Distinct(rows, f)) = Cardinality(Distinct(rows, g)) /\ Rank(f) < Rank(g) IN
    {f \in Categorical(rows) : \A g \in Categorical(rows) \ {f} : better(f, g)}

\* One row, the first, per frequent value: by count, then by insertion.
Examples(rows) ==
    UNION {LET before(v, w) == \/ Count(rows, f, v) > Count(rows, f, w)
                               \/ Count(rows, f, v) = Count(rows, f, w) /\ First(rows, f, v) < First(rows, f, w)
               wanted == {v \in Distinct(rows, f) : Cardinality({w \in Distinct(rows, f) : before(w, v)}) < TopValues} IN
           {<<f, First(rows, f, v)>> : v \in {v \in wanted : \A w \in wanted : Text(v) = Text(w) => First(rows, f, v) <= First(rows, f, w)}}
           : f \in Primary(rows)}

\* Evenly spaced rows.
Samples(n) ==
    IF Min({SampleRows, n}) = 1 THEN {1}
    ELSE {1 + (step * (n - 1)) \div (Min({SampleRows, n}) - 1) : step \in 0..(Min({SampleRows, n}) - 1)}

Summarize(rows) ==
    [kind |-> "rows", count |-> Len(rows),
     values |-> [f \in Categorical(rows) |-> Histogram(rows, f)],
     ranges |-> [f \in Fields |-> Extent(rows, f)],
     examples |-> Examples(rows), samples |-> Samples(Len(rows))]

\* The severe lines of the omitted middle, the first of them.
Severe(from, to) ==
    LET lines == {i \in from..to : doc.lines[i].severe} IN
    {i \in lines : Cardinality({j \in lines : j < i}) < ErrorLines}

\* Text keeps its head and its tail, and the severe lines in between.
HeadTail ==
    LET n == Len(doc.lines) IN
    IF n <= HeadLines + TailLines THEN [kind |-> "whole", shown |-> DOMAIN doc.lines]
    ELSE [kind |-> "lines",
          shown |-> (1..HeadLines) \cup ((n - TailLines + 1)..n) \cup Severe(HeadLines + 1, n - TailLines)]

\* Objects without a dominant array are shown as text, which here is a line.
Offload ==
    /\ summary = None
    /\ summary' =
           IF doc.shape = "lines" THEN HeadTail
           ELSE IF doc.shape = "array" THEN Summarize(doc.members[1].value)
           ELSE IF DominantArray # 0 THEN Summarize(doc.members[DominantArray].value)
           ELSE [kind |-> "whole", shown |-> {}]
    /\ UNCHANGED <<doc, request, answer, runs>>

-----------------------------------------------------------------------------

HasLines(r) == r.pattern # None \/ r.start # None \/ r.end # None

HasRange(r) == r.low # None \/ r.high # None

\* RetrieveFilters.parse: which requests are refused before the original is looked at.
Refused(r) ==
    \/ r.pattern = "pathological"
    \/ r.start # None /\ r.end # None /\ r.end < r.start
    \/ HasLines(r) /\ (r.fields # {} \/ r.field # None)
    \/ r.field = None /\ (r.equals # None \/ HasRange(r) \/ (r.limit # None /\ r.fields = {}))
    \/ r.equals # None /\ HasRange(r)
    \/ r.low # None /\ r.high # None /\ r.high < r.low
    \/ r.raw /\ (r.field = None \/ r.fields # {})

Error == [kind |-> "error"]

\* _extract_rows: where the rows of a selection are.
RowsAt ==
    IF doc.shape = "lines" THEN None
    ELSE IF doc.shape = "array" THEN doc.members[1].value
    ELSE LET with == {i \in Effective(doc.members) : HasRows(doc.members, i)} IN
         IF Cardinality(with) = 1 THEN doc.members[Max(with)].value ELSE None

\* array_element_spans: the scanner sees every member that is written, a repeated name too.
Spans ==
    LET with == {i \in DOMAIN doc.members : HasRows(doc.members, i)} IN
    IF Cardinality(with) = 1 THEN doc.members[Max(with)].value ELSE None

\* Mutant of Equals: true is 1.
EqualsLoose(v, target) == SameKey(v, target)

\* A boolean is never equal to a number.
Equals(v, target) == v = target

\* An absent target is null, an absent cell is nothing.
Keeps(row, r) ==
    /\ r.field \in DOMAIN row
    /\ IF HasRange(r)
       THEN /\ Number(row[r.field])
            /\ r.low # None => r.low <= row[r.field].n
            /\ r.high # None => row[r.field].n <= r.high
       ELSE Equals(row[r.field], IF r.equals = None THEN Null ELSE r.equals)

Take(indices, limit) == {i \in indices : limit = None \/ Cardinality({j \in indices : j < i}) < limit}

\* No limit stands for the default one, which is more than the rows of any document here.
\* The rows kept, those shown, whether a marker says that more match, and whether a note
\* says that no row has the field.
Rows(rows, kept, r) ==
    [kind |-> "rows", shown |-> Take(kept, r.limit), matched |-> Cardinality(kept), total |-> Len(rows),
     marked |-> r.limit # None /\ Cardinality(kept) > r.limit,
     noted |-> r.field # None /\ kept = {} /\ With(rows, r.field) = {}]

Select(r) ==
    IF RowsAt = None \/ (r.raw /\ (Spans = None \/ Len(Spans) # Len(RowsAt))) THEN Error
    ELSE Rows(RowsAt, {i \in DOMAIN RowsAt : Keeps(RowsAt[i], r)}, r)

\* A projection of columns needs a bare array.
Project(r) ==
    IF doc.shape = "array" THEN Rows(doc.members[1].value, DOMAIN doc.members[1].value, r) ELSE Error

Literal(r) == r.pattern = "literal"

\* A long line is searched for literals only, and a slow match counts as none.
Matches(line, r) ==
    IF line.long THEN line.hit /\ Literal(r)
    ELSE line.hit /\ (Literal(r) \/ ~line.slow)

Window(r) ==
    {i \in DOMAIN doc.lines : (r.start # None => r.start <= i) /\ (r.end # None => i <= r.end)}

\* Mutant of Around: the context leaks past the window.
AroundAll(i, r) == {j \in DOMAIN doc.lines : j - i <= r.context /\ i - j <= r.context}

Around(i, r) == {j \in Window(r) : j - i <= r.context /\ i - j <= r.context}

Filter(r) ==
    LET hits == {i \in Window(r) : Matches(doc.lines[i], r)}
        shown == IF r.pattern = None THEN Window(r) ELSE UNION {Around(i, r) : i \in hits} IN
    [kind |-> "lines", shown |-> shown, matched |-> Cardinality(shown), total |-> Len(doc.lines),
     skipped |-> IF r.pattern = "regex" THEN Cardinality({i \in Window(r) : doc.lines[i].long}) ELSE 0]

\* Any JSON is one line of text to the line filters, which only text documents are asked for.
Ask(r) ==
    /\ summary # None /\ answer = None /\ runs = None
    /\ HasLines(r) => ~IsJson
    /\ request' = r
    /\ answer' = IF Refused(r) THEN Error
                 ELSE IF r.field # None THEN Select(r)
                 ELSE IF r.fields # {} THEN Project(r)
                 ELSE Filter(r)
    /\ UNCHANGED <<doc, summary, runs>>

-----------------------------------------------------------------------------

\* line_is_eligible: the exclude patterns name the severe lines and protect those they match
\* in time, a long line is protected, and an include list protects all lines it does not match.
Eligible(line, include) ==
    /\ ~line.long
    /\ ~(line.severe /\ ~line.slow)
    /\ include => line.hit /\ ~line.slow

\* Mutant of Partition: a run ends where the next one starts.
PartitionOverlapping(include) ==
    LET lines == doc.lines
        same(i, j) == Eligible(lines[i], include) = Eligible(lines[j], include)
        starts == {i \in DOMAIN lines : i = 1 \/ ~same(i - 1, i)} IN
    {[from |-> i, to |-> Min({j \in starts : j > i} \cup {Len(lines)}),
      eligible |-> Eligible(lines[i], include)] : i \in starts}

\* partition_content: maximal runs of lines that are all eligible or all protected.
Partition(include) ==
    LET lines == doc.lines
        same(i, j) == Eligible(lines[i], include) = Eligible(lines[j], include)
        starts == {i \in DOMAIN lines : i = 1 \/ ~same(i - 1, i)} IN
    {[from |-> i, to |-> Min({j - 1 : j \in {j \in starts : j > i}} \cup {Len(lines)}),
      eligible |-> Eligible(lines[i], include)] : i \in starts}

\* One call per behaviour: either the original is asked for, or its lines are split.
Split(include) ==
    /\ runs = None /\ answer = None /\ ~IsJson
    /\ runs' = [include |-> include, parts |-> Partition(include)]
    /\ UNCHANGED <<doc, summary, request, answer>>

Init ==
    /\ doc \in Documents
    /\ summary = None /\ request = None /\ answer = None /\ runs = None

Next ==
    \/ Offload
    \/ \E r \in Requests : Ask(r)
    \/ \E include \in BOOLEAN : Split(include)

Spec == Init /\ [][Next]_vars

-----------------------------------------------------------------------------

Answered(kind) == answer # None /\ answer.kind = kind

\* What the summary tells a model to ask for works, and says the same: a row selection over
\* a summarised original is never refused for its shape, counts the same rows, and finds as
\* many rows of a listed string as its histogram says, if no other value prints alike
\* (router_engine.py:133, retrieve_filters.py:968).
SummaryAgrees ==
    answer # None /\ summary.kind = "rows" /\ request.field # None /\ ~request.raw /\ ~Refused(request) =>
        /\ answer.kind = "rows" /\ answer.total = summary.count
        /\ LET f == request.field
               v == request.equals
               alike == {w \in Distinct(RowsAt, f) : Text(w) = Text(v)} IN
           f \in DOMAIN summary.values /\ v # None /\ ~HasRange(request) =>
               LET listed == Text(v) \in DOMAIN summary.values[f] IN
               /\ listed /\ v.type = "str" => summary.values[f][Text(v)] >= answer.matched
               /\ listed /\ v.type = "str" /\ alike = {v} => summary.values[f][Text(v)] = answer.matched

\* No filtered answer hides anything without a sign: a row that matches is shown or a marker
\* says more match; an empty selection of a field no row has is noted; a matching line is
\* shown, or counted as skipped, or took too long; and only what was asked for is shown
\* (retrieve_filters.py:889, :583).
AnswersHonest ==
    /\ Answered("rows") =>
        /\ \A i \in answer.shown : request.field # None => request.field \in DOMAIN RowsAt[i]
        /\ request.equals # None /\ ~HasRange(request) =>
            \A i \in DOMAIN RowsAt :
                (i \in answer.shown) => RowsAt[i][request.field].type = request.equals.type
        /\ ~answer.marked /\ request.equals # None =>
            \A i \in With(RowsAt, request.field) : RowsAt[i][request.field] = request.equals => i \in answer.shown
        /\ answer.matched = 0 /\ request.field # None =>
            (answer.noted <=> \A i \in DOMAIN RowsAt : request.field \notin DOMAIN RowsAt[i])
        /\ request.raw => \A i \in answer.shown : Spans[i] = RowsAt[i]
    /\ Answered("lines") =>
        LET hits == {i \in DOMAIN doc.lines : doc.lines[i].hit /\ ~doc.lines[i].slow} IN
        /\ \A i \in answer.shown :
            /\ (request.start # None => request.start <= i) /\ (request.end # None => i <= request.end)
            /\ request.pattern # None =>
                \E j \in Window(request) : doc.lines[j].hit /\ j - i <= request.context /\ i - j <= request.context
        /\ request.pattern # None =>
            Cardinality((hits \cap Window(request)) \ answer.shown) <= answer.skipped

\* The runs that furl_compress makes tile the content, so rejoining them loses and repeats
\* nothing, no two neighbours could be one, and no line an exclude pattern matches in time is
\* in a run that is compressed (compress_modes.py:370).
RunsTile ==
    runs # None =>
        /\ \A i \in DOMAIN doc.lines : Cardinality({p \in runs.parts : i \in p.from..p.to}) = 1
        /\ \A p, q \in runs.parts : p.to + 1 = q.from => p.eligible # q.eligible
        /\ \A p \in runs.parts : p.eligible =>
            \A i \in p.from..p.to : ~doc.lines[i].long /\ (doc.lines[i].severe => doc.lines[i].slow)

\* No answer and no split of a stored original hides, repeats or mixes up anything.
ViewsHonest == AnswersHonest /\ RunsTile

=============================================================================
