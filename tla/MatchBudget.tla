----------------------------- MODULE MatchBudget -----------------------------
(***************************************************************************)
(* One regular-expression match under a wall-clock budget                  *)
(* (ccr/regex_budget.py): RE2 when it can take the pattern, else a SIGALRM *)
(* watchdog on the main thread, else no bound at all.  The caller may have *)
(* an alarm of its own pending on the same timer, and a signal may be      *)
(* handled between any two steps.                                          *)
(***************************************************************************)
EXTENDS Integers

CONSTANTS
    Budget,  \* budget_seconds
    MaxTime, \* bound on the clock
    None     \* an absent value

VARIABLES
    clock,    \* time.monotonic
    pattern,  \* what RE2 makes of it: "linear", "divergent" (linear, with classes that RE2
              \* and re understand differently), "other_flags", "refused" or "raises"
    main,     \* whether this is the main thread
    work,     \* how much longer re needs for the match
    hit,      \* what re makes of the text: "match", "no_match" or "error"
    timer,    \* when ITIMER_REAL expires, or None
    handler,  \* of SIGALRM: the "caller"'s or "ours"
    pending,  \* whether an expired timer's signal waits for its handler
    saved,    \* what was left of the caller's timer when ours was armed
    started,  \* the clock read after that
    restored, \* what is left of it after the match
    slip,     \* history: the time that passed between a timer call and its clock reading
    alarm,    \* history: when the caller's alarm is due, or None once it was handled
    step,     \* the next statement
    verdict   \* of the match

vars == <<clock, pattern, main, work, hit, timer, handler, pending, saved, started, restored,
          slip, alarm, step, verdict>>

settings == <<pattern, main, hit>>

Steps ==
    {"start", "install", "arm", "clock", "enter", "search", "except", "disarm", "handler", "rearm", "set",
     "unbounded", "returned", "escaped"}

BudgetAssumption ==
    /\ {Budget, MaxTime} \subseteq Nat \ {0}
    /\ None \notin Nat /\ None \notin {"match", "no_match", "budget_exceeded"}

\* RE2 sees the flags written into the source only, so one passed beside it rules RE2 out.
Boundable == pattern \in {"linear", "divergent"}

\* An error of re while it matches is a non-match.
Verdict(found) == IF found = "match" THEN "match" ELSE "no_match"

\* What RE2 answers is re's answer, where re has one and the classes mean the same.
Agrees(answer) == pattern = "divergent" \/ hit = "error" \/ answer = hit

-----------------------------------------------------------------------------

\* The engine: an exception of RE2 falls back as a refusal does.
Start ==
    /\ step = "start" /\ ~pending
    /\ IF Boundable
       THEN step' = "returned" /\ \E answer \in {"match", "no_match"} : Agrees(answer) /\ verdict' = answer
       ELSE step' = (IF main THEN "install" ELSE "unbounded") /\ UNCHANGED verdict
    /\ UNCHANGED <<settings, clock, work, timer, handler, pending, saved, started, restored, slip, alarm>>

Install ==
    /\ step = "install" /\ ~pending
    /\ handler' = "ours" /\ step' = "arm"
    /\ UNCHANGED <<settings, clock, work, timer, pending, saved, started, restored, slip, alarm, verdict>>

\* setitimer returns what was left of the caller's timer, nothing when it was not armed.
Arm ==
    /\ step = "arm" /\ ~pending
    /\ saved' = (IF timer = None THEN 0 ELSE timer - clock)
    /\ timer' = clock + Budget
    /\ step' = "clock"
    /\ UNCHANGED <<settings, clock, work, handler, pending, started, restored, slip, alarm, verdict>>

Clock ==
    /\ step = "clock" /\ ~pending
    /\ started' = clock /\ step' = "enter"
    /\ UNCHANGED <<settings, clock, work, timer, handler, pending, saved, restored, slip, alarm, verdict>>

\* Into the try: from here a signal of ours is caught.
Enter ==
    /\ step = "enter" /\ ~pending
    /\ step' = "search"
    /\ UNCHANGED <<settings, clock, work, timer, handler, pending, saved, started, restored, slip, alarm, verdict>>

Search ==
    /\ step = "search" /\ work = 0 /\ ~pending
    /\ IF hit = "error" THEN step' = "except" /\ UNCHANGED verdict
       ELSE step' = "disarm" /\ verdict' = Verdict(hit)
    /\ UNCHANGED <<settings, clock, work, timer, handler, pending, saved, started, restored, slip, alarm>>

\* The clause for re.error.
Except ==
    /\ step = "except" /\ ~pending
    /\ verdict' = Verdict(hit) /\ step' = "disarm"
    /\ UNCHANGED <<settings, clock, work, timer, handler, pending, saved, started, restored, slip, alarm>>

Disarm ==
    /\ step = "disarm" /\ ~pending
    /\ timer' = None /\ step' = "handler"
    /\ UNCHANGED <<settings, clock, work, handler, pending, saved, started, restored, slip, alarm, verdict>>

RestoreHandler ==
    /\ step = "handler" /\ ~pending
    /\ handler' = "caller" /\ step' = "rearm"
    /\ UNCHANGED <<settings, clock, work, timer, pending, saved, started, restored, slip, alarm, verdict>>

\* The end of the finally: an exception raised in a clause goes on.
Leave == step' = IF verdict = "raised" THEN "escaped" ELSE "returned"

\* Mutant of Left: the time the match took is not subtracted.
LeftWhole == saved

Left == saved - (clock - started)

Rearm ==
    /\ step = "rearm" /\ ~pending
    /\ IF saved = 0 THEN Leave /\ UNCHANGED restored
       ELSE step' = "set" /\ restored' = Left
    /\ UNCHANGED <<settings, clock, work, timer, handler, pending, saved, started, slip, alarm, verdict>>

\* A deadline that passed meanwhile is armed for at once.
SetTimer ==
    /\ step = "set" /\ ~pending
    /\ timer' = clock + (IF restored > 0 THEN restored ELSE 0)
    /\ Leave
    /\ UNCHANGED <<settings, clock, work, handler, pending, saved, started, restored, slip, alarm, verdict>>

Unbounded ==
    /\ step = "unbounded" /\ work = 0 /\ ~pending
    /\ verdict' = Verdict(hit) /\ step' = "returned"
    /\ UNCHANGED <<settings, clock, work, timer, handler, pending, saved, started, restored, slip, alarm>>

\* Our handler raises: in the search it is an overrun; in a clause it leaves the function
\* through the finally, elsewhere at once.
Caught ==
    \/ step = "search" /\ verdict' = "budget_exceeded" /\ step' = "disarm"
    \/ step = "except" /\ verdict' = "raised" /\ step' = "disarm"
    \/ step \notin {"search", "except"} /\ step' = "escaped" /\ UNCHANGED verdict

\* An expired timer's signal is handled before the next step, by whichever handler is there.
Signal ==
    /\ pending
    /\ pending' = FALSE
    /\ IF handler = "ours" THEN Caught /\ UNCHANGED alarm
       ELSE alarm' = None /\ UNCHANGED <<step, verdict>>
    /\ UNCHANGED <<settings, clock, work, timer, handler, saved, started, restored, slip>>

Tick ==
    /\ clock < MaxTime /\ ~pending /\ step \notin {"returned", "escaped"}
    /\ clock' = clock + 1
    /\ pending' = (timer # None /\ clock' >= timer)
    /\ timer' = IF pending' THEN None ELSE timer
    /\ work' = IF step \in {"search", "unbounded"} /\ work > 0 THEN work - 1 ELSE work
    /\ slip' = IF step \in {"clock", "set"} THEN slip + 1 ELSE slip
    /\ UNCHANGED <<settings, handler, saved, started, restored, alarm, step, verdict>>

Init ==
    /\ clock = 0 /\ step = "start" /\ verdict = None
    /\ pattern \in {"linear", "divergent", "other_flags", "refused", "raises"}
    /\ main \in BOOLEAN /\ hit \in {"match", "no_match", "error"}
    /\ work \in 0..MaxTime
    /\ alarm \in {None} \cup 1..MaxTime
    /\ timer = alarm /\ handler = "caller" /\ pending = FALSE
    /\ saved = 0 /\ started = 0 /\ restored = 0 /\ slip = 0

Next ==
    \/ Start \/ Install \/ Arm \/ Clock \/ Enter \/ Search \/ Except
    \/ Disarm \/ RestoreHandler \/ Rearm \/ SetTimer \/ Unbounded
    \/ Signal \/ Tick

Spec == Init /\ [][Next]_vars

-----------------------------------------------------------------------------

\* A match that returns leaves the caller's handler, and the caller's alarm due when it was:
\* never earlier, later by no more than what passed between a timer call and the clock
\* reading beside it, or at once when that has passed.  It answers as re does, or as RE2 does
\* where the two differ, or that the budget ran out (regex_budget.py:292).  An alarm that
\* lands outside the search escapes: the match does not return.
BudgetTransparent ==
    step = "returned" =>
        /\ handler = "caller"
        /\ IF alarm = None THEN timer = None
           ELSE timer # None /\ alarm <= timer /\ (timer <= alarm + slip \/ timer <= clock)
        /\ verdict = "budget_exceeded" => clock >= Budget
        /\ verdict # "budget_exceeded" => verdict = Verdict(hit) \/ (Boundable /\ Agrees(verdict))

=============================================================================
