----------------------------- MODULE ToolCallHooks -----------------------------
(***************************************************************************)
(* One tool call of a Claude Code session under the plugin's hooks         *)
(* (plugins/furl/hooks): the session banner, the PreToolUse gate that      *)
(* wraps a Bash command (pretool_pipe.py), the shell script of the wrapped *)
(* command with its capture file, its traps and the compressor it pipes to *)
(* (pipe_compress.py), and the PostToolUse hook that rewrites the output   *)
(* the model sees (compress_tool_output.py).                               *)
(***************************************************************************)
EXTENDS Integers, Sequences, FiniteSets

CONSTANTS
    Sessions, \* a tool call under some settings
    Empty     \* no text

VARIABLES
    call,     \* the tool, the shape of its response, and what its texts are like
    setting,  \* the user's settings
    banner,   \* what the banner says of the pipe
    command,  \* the command that runs: as asked, or wrapped
    step,     \* where the tool call is
    captured, \* the capture file
    writing,  \* what the compressor is to write
    shown,    \* what the wrapped or plain command has written to its stdout
    exit,     \* how it ended
    mishap,   \* what went wrong around it
    visible,  \* the response the model sees
    engine,   \* whether the hook's engine works, fails or cannot be imported
    reply,    \* the response the hook puts in its place
    due,      \* the outcome the hook has yet to count
    tally     \* the counters that the hooks bump, in order

vars == <<call, setting, banner, command, step, captured, writing, shown, exit, mishap, visible,
          engine, reply, due, tally>>

\* A text is the output of the command or its stderr in a form: raw, scrubbed by the redaction
\* patterns, compressed, compressed once more, withheld, or a first piece with the capture
\* behind it.  It is whole, or cut off behind its marker or before one.
Text(of, form, part) == [of |-> of, form |-> form, part |-> part]

Forms == {"raw", "scrubbed", "compressed", "twice", "withheld", "doubled"}

AnyText == [of : {"out", "err"}, form : Forms, part : {"whole", "cut", "stub"}]

\* What a call's text is like: a redaction pattern matches it or its scan takes too long, it
\* has min_chars, compression shrinks it, and a marker of an earlier call is in it.
Traits == [scan : {"clean", "dirty", "slow"}, long : BOOLEAN, shrinks : BOOLEAN, marked : BOOLEAN]

\* A response is a Bash object with its output and stderr, one in the content of another object,
\* one with a single field or a list of blocks, or of a shape the hook does not read.
Shapes == {"bash", "nested", "field", "blocks", "foreign"}

Responses == [shape : Shapes, out : AnyText \cup {Empty}, err : AnyText \cup {Empty}]

\* Where settings are read: managed and user ones, the session's directory (its root if
\* CLAUDE_PROJECT_DIR is set) and the directory of the command.
Places == {"managed", "user", "session", "cwd"}

HooksAssumption ==
    /\ \A s \in Sessions :
        /\ s.call.tool \in {"Bash", "WebFetch", "furl"}
        /\ s.call.wrapped \in BOOLEAN
        /\ s.call.shape \in Shapes
        /\ s.call.out # Empty => s.call.out \in Traits
        /\ s.call.err # Empty => s.call.err \in Traits /\ s.call.shape \in {"bash", "nested"}
        /\ s.setting.pipe \in BOOLEAN /\ s.setting.override \in BOOLEAN /\ s.setting.rooted \in BOOLEAN
        /\ s.setting.marks \in [Places -> SUBSET {"rule", "doubt"}]
    /\ Empty \notin AnyText \cup Responses

Like(x) == call[x.of]

Dirty(x) == x.form \in {"raw", "doubled"} /\ Like(x).scan # "clean"

\* A doubled text holds the marker of either piece.
Marked(x) ==
    /\ x.form # "withheld" /\ x.part # "stub"
    /\ x.form \in {"compressed", "twice", "doubled"} \/ Like(x).marked

InForm(x, form) == [x EXCEPT !.form = form]

\* A text without a match is the same after the scan.
Scrubbed(x) == IF Dirty(x) THEN InForm(x, "scrubbed") ELSE x

Compressed(x) == InForm(x, IF x.form \in {"compressed", "twice"} THEN "twice" ELSE "compressed")

\* bump: an increment that fails is dropped.
Count(who, label) ==
    \/ tally' = Append(tally, <<who, label>>) /\ UNCHANGED mishap
    \/ UNCHANGED tally /\ mishap' = mishap \cup {"lapse"}

\* What can be left of one text that a process was writing.
Prefixes(s) ==
    IF s = <<>> THEN {s}
    ELSE {<<>>, s, <<[s[1] EXCEPT !.part = "stub"]>>}
        \cup (IF Marked(s[1]) THEN {<<[s[1] EXCEPT !.part = "cut"]>>} ELSE {})

-----------------------------------------------------------------------------

\* _scan_bash_rules: every scope is read, whatever the others hold.
Finds(places, mark) == \E p \in places : mark \in setting.marks[p]

Announced == Places \ {"cwd"}

\* The gate reads the session's directory only if CLAUDE_PROJECT_DIR names it.
Gated == {p \in Places : p = "session" => setting.rooted}

\* session_start_banner.py: the clause on the pipe, or that its status is unknown.
Clause ==
    LET rules == Finds(Announced, "rule") doubt == Finds(Announced, "doubt") IN
    IF ~setting.pipe THEN "off"
    ELSE IF setting.override THEN IF rules \/ doubt THEN "despite" ELSE "active"
    ELSE IF rules THEN "rules" ELSE IF doubt THEN "doubt" ELSE "active"

Announce ==
    /\ step = "start"
    /\ banner' \in {Clause, "unknown"}
    /\ step' = "gate"
    /\ UNCHANGED <<call, setting, command, captured, writing, shown, exit, mishap, visible, engine, reply, due, tally>>

\* The settings files change under a session; its environment does not.
Edit ==
    /\ step = "gate" /\ "edited" \notin mishap
    /\ \E s \in Sessions : s.call = call /\ s.setting # setting /\ setting' = [setting EXCEPT !.marks = s.setting.marks]
    /\ mishap' = mishap \cup {"edited"}
    /\ UNCHANGED <<call, banner, command, step, captured, writing, shown, exit, visible, engine, reply, due, tally>>

\* Mutant of MayWrap: settings that cannot be read count as settings without rules.
MayWrapDoubtful == setting.pipe /\ command = "plain" /\ (setting.override \/ ~Finds(Gated, "rule"))

MayWrap ==
    /\ setting.pipe /\ command = "plain"
    /\ setting.override \/ ~(Finds(Gated, "rule") \/ Finds(Gated, "doubt"))

Wrap ==
    /\ step = "gate" /\ call.tool = "Bash" /\ MayWrap
    /\ command' = "wrapped" /\ step' = "run"
    /\ UNCHANGED <<call, setting, banner, captured, writing, shown, exit, mishap, visible, engine, reply, due, tally>>

\* The switch and the permission rules are not counted, the banner reports them.
GateReason ==
    IF ~setting.pipe THEN "none" ELSE IF command # "plain" THEN "already-wrapped"
    ELSE IF ~Finds(Gated, "rule") THEN "settings-doubt" ELSE "none"

LeaveAlone ==
    /\ step = "gate" /\ (call.tool = "Bash" => ~MayWrap)
    /\ step' = "run"
    /\ IF call.tool = "Bash" /\ GateReason # "none" THEN Count("pipe", GateReason) ELSE UNCHANGED <<tally, mishap>>
    /\ UNCHANGED <<call, setting, banner, command, captured, writing, shown, exit, visible, engine, reply, due>>

\* A payload it cannot read, an answer it cannot write, an exception or the hook's timeout:
\* the command runs as asked, counted or not.
GateFails ==
    /\ step = "gate" /\ call.tool = "Bash"
    /\ step' = "run"
    /\ (setting.pipe /\ Count("pipe", "emit-error")) \/ UNCHANGED <<tally, mishap>>
    /\ UNCHANGED <<call, setting, banner, command, captured, writing, shown, exit, visible, engine, reply, due>>

-----------------------------------------------------------------------------

Output == IF call.out = Empty THEN <<>> ELSE <<Text("out", "raw", "whole")>>

\* A plain command writes as it runs; a wrapped one whose capture file cannot be made runs
\* plain, in the else branch.
RunPlain ==
    /\ step = "run"
    /\ \/ shown' = Output /\ exit' = "own"
       \/ call.tool = "Bash" /\ shown' \in Prefixes(Output) \ {Output} /\ exit' = "signal"
    /\ command' = "plain" /\ step' = "shown"
    /\ UNCHANGED <<call, setting, banner, captured, writing, mishap, visible, engine, reply, due, tally>>

\* The subshell's stdout goes to the file.
Capture ==
    /\ step = "run" /\ command # "plain"
    /\ captured' = Output /\ exit' = "own" /\ step' = "compress"
    /\ UNCHANGED <<call, setting, banner, command, writing, shown, mishap, visible, engine, reply, due, tally>>

\* The traps of the capture show what was captured and raise the signal again; a signal that
\* cannot be trapped shows nothing.
KilledInCapture ==
    /\ step = "run" /\ command # "plain"
    /\ \/ shown' \in Prefixes(Output) /\ UNCHANGED mishap
       \/ shown' = <<>> /\ mishap' = mishap \cup {"lost"}
    /\ exit' = "signal" /\ step' = "shown"
    /\ UNCHANGED <<call, setting, banner, command, captured, writing, visible, engine, reply, due, tally>>

\* One that is killed, or whose increments fail, has counted less.
Noted(outcome) ==
    \E labels \in {<<<<"pipe", "run">>, <<"pipe", outcome>>>>, <<<<"pipe", "run">>>>, <<<<"pipe", outcome>>>>, <<>>} :
        /\ tally' = tally \o labels
        /\ mishap' = IF Len(labels) = 2 THEN mishap ELSE mishap \cup {"lapse"}

\* _decide and its caller: what is to be written.  Without an engine nothing is scanned,
\* compressed or counted, nor is output that is not UTF-8; the scan of the pipe has no time
\* budget.
Decide ==
    /\ step = "compress"
    /\ \/ writing' = captured /\ UNCHANGED <<tally, mishap>>
       \/ captured = <<>> /\ writing' = <<>> /\ Noted("below-min-chars")
       \/ /\ captured # <<>>
          /\ LET text == captured[1] IN
             \/ Marked(text) /\ writing' = captured /\ Noted("already-compressed")
             \/ /\ ~Marked(text)
                /\ writing' = <<Scrubbed(text)>>
                /\ Noted(IF Like(text).long THEN "no-savings" ELSE "below-min-chars")
             \/ /\ ~Marked(text) /\ Like(text).long /\ Like(text).shrinks
                /\ writing' = <<Compressed(text)>> /\ Noted("compressed")
    /\ step' = "write"
    /\ UNCHANGED <<call, setting, banner, command, captured, shown, exit, visible, engine, reply, due>>

\* Mutant of Piped: the file is shown whatever the compressor's status.
PipedAlways(written, status, again) == written \o again

\* compressor <file || cat file.
Piped(written, status, again) == written \o (IF status = 0 THEN <<>> ELSE again)

\* The compressor ends with some status, having written all, some or nothing: it cannot start
\* or is killed before it has decided, cannot read its stdin (status 0), or breaks off in its
\* one write; cat shows the file behind a failed one.  The traps are cleared: a signal at any
\* point shows nothing more, and the capture is lost.
CompressorEnds ==
    /\ step \in {"compress", "write"}
    /\ \E written \in Prefixes(writing), again \in Prefixes(captured), status \in {0, 1}, killed \in BOOLEAN :
        /\ killed \/ again = captured
        /\ shown' = Piped(written, status, again)
        /\ exit' = IF killed THEN "signal" ELSE exit
        /\ mishap' = mishap
                \cup (IF (step = "write" /\ written = writing) \/ (status # 0 /\ again = captured) THEN {} ELSE {"lost"})
                \cup (IF status # 0 /\ written # <<>> /\ again # <<>> THEN {"repeated"} ELSE {})
    /\ step' = "shown"
    /\ UNCHANGED <<call, setting, banner, command, captured, writing, visible, engine, reply, due, tally>>

\* The host makes the tool's response of what was shown.
Seen ==
    IF shown = <<>> THEN Empty ELSE IF Len(shown) = 1 THEN shown[1]
    ELSE Text("out", "doubled", IF \E i \in DOMAIN shown : Marked(shown[i]) THEN "cut" ELSE "stub")

Respond ==
    /\ step = "shown"
    /\ visible' = [shape |-> call.shape, out |-> Seen,
                   err |-> IF call.err = Empty THEN Empty ELSE Text("err", "raw", "whole")]
    /\ step' = "post"
    /\ UNCHANGED <<call, setting, banner, command, captured, writing, shown, exit, mishap, engine, reply, due, tally>>

-----------------------------------------------------------------------------

\* A Bash object has a second field; "nested" is one in the content of another object.
TwoFields == visible.shape \in {"bash", "nested"}

\* _extract_text: the one field that is read.
Field ==
    IF visible.shape = "foreign" THEN "none"
    ELSE IF visible.out # Empty THEN "out"
    ELSE IF TwoFields /\ visible.err # Empty THEN "err" ELSE "none"

\* Mutant of Preserved: only the outermost object is looked at.
PreservedOuter == visible.shape = "bash" /\ Field = "out" /\ visible.err # Empty

\* _preserved_stderr: the field that rides beside it.
Preserved == TwoFields /\ Field = "out" /\ visible.err # Empty

\* _reinject: the shape of the response with the field replaced, and the preserved field.
Reinject(text, err) ==
    [visible EXCEPT ![Field] = text, !.err = IF Preserved THEN err ELSE IF Field = "err" THEN text ELSE @]

\* The hook's process counts that it runs, unless it has no engine, whose store holds the
\* counters.
HookStarts ==
    /\ step = "post"
    /\ engine' \in {"works", "fails", "absent"}
    /\ IF engine' = "absent" THEN UNCHANGED <<tally, mishap>> ELSE Count("hook", "run")
    /\ step' = "gates"
    /\ UNCHANGED <<call, setting, banner, command, captured, writing, shown, exit, visible, reply, due>>

\* The gates before the text is looked at, in their order: the switch, a host below the version
\* floor, a tool the operator excludes, a shape that is not read.
EarlyReasons ==
    {"disabled"}
    \cup (IF engine = "absent" THEN {} ELSE {"below-version-floor", "excluded-tool"})
    \cup (IF call.tool = "furl" THEN {"excluded-tool"} ELSE IF Field = "none" THEN {"shape-unmatched"} ELSE {"none"})

\* Mutant of Passes: a compressed text is compressed again.
PassesMarked == "none" \in EarlyReasons

Passes == "none" \in EarlyReasons /\ ~Marked(visible[Field])

\* _apply_env_redaction: nothing is scanned without the engine.
Scan(x) == IF engine = "absent" THEN x ELSE Scrubbed(x)

Overrun(x) == engine # "absent" /\ x.form \in {"raw", "doubled"} /\ Like(x).scan = "slow"

Overruns == Overrun(visible[Field]) \/ (Preserved /\ Overrun(visible.err))

ScannedErr == IF Preserved THEN Scan(visible.err) ELSE Empty

\* _redaction_changed_visible_output
Changed == Scan(visible[Field]) # visible[Field] \/ (Preserved /\ ScannedErr # visible.err)

Helps == Like(visible[Field]).long /\ engine = "works" /\ Like(visible[Field]).shrinks

Passthrough ==
    /\ \/ due' \in EarlyReasons \ {"none"}
       \/ "none" \in EarlyReasons /\ ~Passes /\ due' = "already-compressed"
    /\ step' = "count" /\ UNCHANGED <<reply, tally, mishap>>

\* _withhold_for_redaction_budget: either scan ran out of its budget; counted before the answer.
Withhold ==
    /\ Passes /\ Overruns
    /\ reply' = Reinject(InForm(visible[Field], "withheld"), IF Preserved THEN InForm(visible.err, "withheld") ELSE Empty)
    /\ Count("hook", "redaction-budget-exceeded")
    /\ step' = "answer" /\ UNCHANGED due

\* Short output, or a compression that did not help: the scrubbed response, if it differs.
Scrub ==
    /\ Passes /\ ~Overruns /\ ~Helps
    /\ IF Changed
       THEN reply' = Reinject(Scan(visible[Field]), ScannedErr) /\ due' = "redaction-only" /\ step' = "answer"
       ELSE /\ due' = IF Like(visible[Field]).long THEN "no-savings" ELSE "below-min-chars"
            /\ step' = "count" /\ UNCHANGED reply
    /\ UNCHANGED <<tally, mishap>>

\* A forced offload is counted once it has produced an output, beside the compression.
Compress ==
    /\ Passes /\ ~Overruns /\ Helps
    /\ reply' = Reinject(Compressed(Scan(visible[Field])), ScannedErr)
    /\ Count("hook", "size-reroute") \/ UNCHANGED <<tally, mishap>>
    /\ due' = "compressed" /\ step' = "answer"

Gates ==
    /\ step = "gates"
    /\ Passthrough \/ Withhold \/ Scrub \/ Compress
    /\ UNCHANGED <<call, setting, banner, command, captured, writing, shown, exit, visible, engine>>

\* Mutant of Unwritten: the outcome is counted whether or not its answer could be written.
UnwrittenAnyway == due

Unwritten == IF due = "none" THEN "none" ELSE "serialize-failed"

\* The answer goes to a buffer, or cannot be written.
Answer ==
    /\ step = "answer"
    /\ UNCHANGED <<reply, due>> \/ (reply' = Empty /\ due' = Unwritten)
    /\ step' = "count"
    /\ UNCHANGED <<call, setting, banner, command, captured, writing, shown, exit, mishap, visible, engine, tally>>

\* _record_compression and _record_noop.
CountOutcome ==
    /\ step = "count"
    /\ IF due = "none" \/ engine = "absent" THEN UNCHANGED <<tally, mishap>> ELSE Count("hook", due)
    /\ step' = "flush"
    /\ UNCHANGED <<call, setting, banner, command, captured, writing, shown, exit, visible, engine, reply, due>>

\* The process ends and its answer, if it has one, reaches the host.  The hook has seen to the
\* response if it answered, or had nothing to change.
Flush ==
    /\ step = "flush"
    /\ visible' = IF reply = Empty THEN visible ELSE reply
    /\ step' = IF reply # Empty \/ (engine # "absent" /\ due \in {"no-savings", "below-min-chars"})
               THEN "processed" ELSE "passed"
    /\ UNCHANGED <<call, setting, banner, command, captured, writing, shown, exit, mishap, engine, reply, due, tally>>

\* The host's timeout kills the hook at any point, or an exception ends it with status 0 and
\* with what it has written.
HookFails ==
    /\ step \in {"post", "gates", "answer", "count", "flush"}
    /\ visible' \in {visible} \cup (IF step \in {"count", "flush"} /\ reply # Empty THEN {reply} ELSE {})
    /\ mishap' = mishap \cup {"lapse"} /\ step' = "passed"
    /\ UNCHANGED <<call, setting, banner, command, captured, writing, shown, exit, engine, reply, due, tally>>

Init ==
    /\ \E s \in Sessions : call = s.call /\ setting = s.setting
    /\ banner = "none" /\ step = "start"
    /\ command = IF call.wrapped THEN "asked wrapped" ELSE "plain"
    /\ captured = <<>> /\ writing = <<>> /\ shown = <<>> /\ exit = "none" /\ mishap = {}
    /\ visible = Empty /\ engine = "none" /\ reply = Empty /\ due = "none" /\ tally = <<>>

Next ==
    \/ Announce \/ Edit \/ Wrap \/ LeaveAlone \/ GateFails
    \/ RunPlain \/ Capture \/ KilledInCapture \/ Decide \/ CompressorEnds
    \/ Respond \/ HookStarts \/ Gates \/ Answer \/ CountOutcome \/ Flush \/ HookFails

Spec == Init /\ [][Next]_vars

-----------------------------------------------------------------------------

Ended == step \in {"processed", "passed"}

\* With CLAUDE_PROJECT_DIR set and the settings unchanged, a command is never wrapped while the
\* banner says that the pipe is off: it can only over-report (session_start_banner.py:33).  A
\* command that ends by itself has shown its whole output unless the compressor lied about
\* its write; it is shown in part, or a second time, only behind a signal or a compressor that
\* broke off, and the second time raw; and the two hooks together compress it twice only if the
\* first's marker was cut off (pretool_pipe.py:518, pipe_compress.py:204).
OutputOnce ==
    /\ step = "run" /\ command = "wrapped" /\ setting.rooted /\ "edited" \notin mishap =>
        banner \notin {"off", "rules", "doubt"}
    /\ step = "shown" /\ exit = "own" /\ "lost" \notin mishap /\ call.out # Empty =>
        \E i \in DOMAIN shown : shown[i].part = "whole"
    /\ \A i \in DOMAIN shown : shown[i].part = "whole" \/ exit = "signal" \/ mishap \cap {"lost", "repeated"} # {}
    /\ Len(shown) > 1 => Len(shown) = 2 /\ "repeated" \in mishap /\ shown[2].form = "raw"
    /\ Ended /\ visible.out # Empty /\ visible.out.form = "twice" => visible.out.part = "stub"

\* The places of one hook's labels among the counters.
Counted(who, labels) == {i \in DOMAIN tally : tally[i][1] = who /\ tally[i][2] \in labels}

\* Labels that are not the outcome of a process that has counted its run.
Beside == {"run", "size-reroute", "already-wrapped", "settings-doubt", "emit-error"}

Outcomes(who) == {i \in DOMAIN tally : tally[i][1] = who /\ tally[i][2] \notin Beside}

\* What the hook does with a response it processes: it keeps its fields, leaves no text that a
\* redaction pattern matches, and shows none whose scan ran out of its budget.  A killed hook or
\* a failing increment can leave a run without an outcome, or an answer that was not counted,
\* but each process counts at most one outcome, one that ends by itself exactly one per run, and
\* a compression only once it is written (compress_tool_output.py:327, :498, :668).
HookAccounts ==
    /\ Ended =>
        /\ visible.err = Empty <=> call.err = Empty
        /\ shown # <<>> => visible.out # Empty /\ visible.out.of = "out"
        /\ step = "processed" => \A x \in {visible.out, visible.err} \ {Empty} : ~Dirty(x)
    /\ \A who \in {"pipe", "hook"} :
        /\ Cardinality(Counted(who, {"run"})) <= 1 /\ Cardinality(Outcomes(who)) <= 1
        /\ Ended /\ "lapse" \notin mishap => Cardinality(Outcomes(who)) = Cardinality(Counted(who, {"run"}))
    /\ Counted("hook", {"compressed"}) # {} =>
        reply # Empty /\ \E x \in {reply.out, reply.err} \ {Empty} : x.form \in {"compressed", "twice"}

=============================================================================
