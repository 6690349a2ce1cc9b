----------------------------- MODULE ClientCalls -----------------------------
(***************************************************************************)
(* Calls of the library, the MCP tools and the hooks: the tools of         *)
(* concurrent servers, compress() in concurrent threads, one content in    *)
(* the engine, one original's views, one budgeted match, and one tool call *)
(* under the hooks.  They share no state, so a behaviour exercises one of  *)
(* them and the variables of the others are idle.                          *)
(***************************************************************************)
EXTENDS Integers, Sequences

CONSTANTS
    \* McpTools
    Servers, Workers, Hashes, Tops, Files, Asked, Nested, MaxMishaps,
    \* CompressCall
    Threads, Requests, CallTexts, Bulky, Small, Dumps, Code, Volatile, RowsOf, MinShared, MaxSources,
    Threshold, Cooldown, MaxTime, MaxFaults,
    \* ContentEngine
    Contents, MaxLines, ProseMin, Triggers,
    \* RowViews
    Documents, Filters, Fields, Order, MaxDistinct, TopValues, SampleRows, HeadLines, TailLines, ErrorLines,
    \* MatchBudget
    Budget, LastTime,
    \* ToolCallHooks
    Sessions,
    None

VARIABLES
    part, \* the component that runs
    home, file, overlay, cache, tool, mishaps, since, excused, erased,
    time, failures, openUntil, streak, tier, stored, call, result, gone, faults,
    lines, array, kind, size, strict, phase, todo, outs, offloaded, sent,
    doc, summary, request, answer, runs,
    clock, pattern, main, work, hit, timer, handler, pending, saved, started, restored, slip, alarm, statement,
    verdict,
    asked, setting, banner, command, step, captured, writing, shown, exit, mishap, visible, engine, reply, due, tally

Tools == INSTANCE McpTools WITH MaxFaults <- MaxMishaps, call <- tool, faults <- mishaps
Compress == INSTANCE CompressCall WITH Texts <- CallTexts
Engine == INSTANCE ContentEngine WITH stored <- offloaded, result <- sent
Views == INSTANCE RowViews WITH Requests <- Filters
Match == INSTANCE MatchBudget WITH MaxTime <- LastTime, step <- statement
Hooks == INSTANCE ToolCallHooks WITH Empty <- None, call <- asked

\* The assumptions on the constants of every part.
ASSUME CallsAssumption ==
    /\ Tools!ToolsAssumption /\ Compress!CallAssumption /\ Engine!EngineAssumption
    /\ Views!ViewsAssumption /\ Match!BudgetAssumption /\ Hooks!HooksAssumption

toolVars == <<home, file, overlay, cache, tool, mishaps, since, excused, erased>>
callVars == <<time, failures, openUntil, streak, tier, stored, call, result, gone, faults>>
engineVars == <<lines, array, kind, size, strict, phase, todo, outs, offloaded, sent>>
viewVars == <<doc, summary, request, answer, runs>>
matchVars == <<clock, pattern, main, work, hit, timer, handler, pending, saved, started, restored, slip, alarm,
               statement, verdict>>
hookVars == <<asked, setting, banner, command, step, captured, writing, shown, exit, mishap, visible, engine, reply,
              due, tally>>

vars == <<part, toolVars, callVars, engineVars, viewVars, matchVars, hookVars>>

\* The state of the parts that do not run.
NoTool ==
    /\ home = None /\ file = None /\ overlay = None /\ cache = None /\ tool = None
    /\ mishaps = None /\ since = None /\ excused = None /\ erased = None

NoCall ==
    /\ time = None /\ failures = None /\ openUntil = None /\ streak = None /\ tier = None
    /\ stored = None /\ call = None /\ result = None /\ gone = None /\ faults = None

NoEngine ==
    /\ lines = None /\ array = None /\ kind = None /\ size = None /\ strict = None
    /\ phase = None /\ todo = None /\ outs = None /\ offloaded = None /\ sent = None

NoView == doc = None /\ summary = None /\ request = None /\ answer = None /\ runs = None

NoMatch ==
    /\ clock = None /\ pattern = None /\ main = None /\ work = None /\ hit = None /\ timer = None /\ handler = None
    /\ pending = None /\ saved = None /\ started = None /\ restored = None /\ slip = None /\ alarm = None
    /\ statement = None /\ verdict = None

NoHook ==
    /\ asked = None /\ setting = None /\ banner = None /\ command = None /\ step = None /\ captured = None
    /\ writing = None /\ shown = None /\ exit = None /\ mishap = None /\ visible = None /\ engine = None
    /\ reply = None /\ due = None /\ tally = None

Init ==
    /\ part \in {"tools", "compress", "engine", "views", "match", "hooks"}
    /\ IF part = "tools" THEN Tools!Init ELSE NoTool
    /\ IF part = "compress" THEN Compress!Init ELSE NoCall
    /\ IF part = "engine" THEN Engine!Init ELSE NoEngine
    /\ IF part = "views" THEN Views!Init ELSE NoView
    /\ IF part = "match" THEN Match!Init ELSE NoMatch
    /\ IF part = "hooks" THEN Hooks!Init ELSE NoHook

Next ==
    /\ UNCHANGED part
    /\ \/ part = "tools" /\ Tools!Next
          /\ UNCHANGED <<callVars, engineVars, viewVars, matchVars, hookVars>>
       \/ part = "compress" /\ Compress!Next
          /\ UNCHANGED <<toolVars, engineVars, viewVars, matchVars, hookVars>>
       \/ part = "engine" /\ Engine!Next
          /\ UNCHANGED <<toolVars, callVars, viewVars, matchVars, hookVars>>
       \/ part = "views" /\ Views!Next
          /\ UNCHANGED <<toolVars, callVars, engineVars, matchVars, hookVars>>
       \/ part = "match" /\ Match!Next
          /\ UNCHANGED <<toolVars, callVars, engineVars, viewVars, hookVars>>
       \/ part = "hooks" /\ Hooks!Next
          /\ UNCHANGED <<toolVars, callVars, engineVars, viewVars, matchVars>>

Spec == Init /\ [][Next]_vars

-----------------------------------------------------------------------------

\* What a purge verified gone stays gone until it is stored again (McpTools).
ErasedStaysGone == part = "tools" => Tools!ErasedStaysGone

\* The tools' state is well formed, and a stored original's nested rows resolve (McpTools).
NestedResolves == part = "tools" => Tools!TypeOK /\ Tools!NestedResolves

\* What compress() replaced can be retrieved (CompressCall).
Recoverable == part = "compress" => Compress!Recoverable

\* A pointer names an earlier message that holds the original (CompressCall).
PointersGrounded == part = "compress" => Compress!PointersGrounded

\* The breaker opens only on a streak of failures (CompressCall).
OpensOnStreak == [][part = "compress" => Compress!OpensOnStreak]_vars

\* A call that moves a cache breakpoint says so (CompressCall).
MovedBreakpointWarned == [][part = "compress" => Compress!MovedBreakpointWarned]_vars

\* The engine's state is well formed, and the sections of a mixed content cover it (ContentEngine).
SectionsCover == part = "engine" => Engine!TypeOK /\ Engine!SectionsCover

\* What the engine ships is short, recoverable and reported as it is (ContentEngine).
ResultSound == part = "engine" => Engine!ResultSound

\* A filtered retrieve agrees with the summary that shipped, hides nothing without a sign,
\* and runs of lines tile (RowViews).
ViewsHold == part = "views" => Views!SummaryAgrees /\ Views!ViewsHonest

\* A budgeted match leaves the caller's alarm as it would be without it (MatchBudget).
BudgetTransparent == part = "match" => Match!BudgetTransparent

\* A command's output reaches the model once (ToolCallHooks).
OutputOnce == part = "hooks" => Hooks!OutputOnce

\* The hook accounts for each response (ToolCallHooks).
HookAccounts == part = "hooks" => Hooks!HookAccounts

=============================================================================
