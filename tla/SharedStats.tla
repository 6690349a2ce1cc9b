----------------------------- MODULE SharedStats -----------------------------
(***************************************************************************)
(* What furl_stats reports from outside its own process                    *)
(* (furl_ctx/ccr/mcp_server.py): the events that every server appends to   *)
(* one shared file, pruned by whoever reads it, and the hook counters of   *)
(* the store, shown as a difference to a snapshot that a wipe of the store *)
(* invalidates.                                                            *)
(***************************************************************************)
EXTENDS Naturals

CONSTANTS
    Procs,      \* server processes
    Window,     \* SESSION_WINDOW_SECONDS
    MaxTime,    \* bound on the clock
    MaxEvents,  \* bound on the events logged
    Names,      \* the hook counters
    MaxCount,   \* bound on the value of a counter
    MaxMishaps, \* bound on kills, failed rewrites and lost lock races
    None        \* an absent value

VARIABLES
    now,        \* the clock
    lines,      \* the shared file: the numbers of the events it holds
    keep,       \* per process, the lines to write back: it holds the lock and has read the file
    logged,     \* the time of each event logged, by number, or None
    lost,       \* history: events that a kill or an error destroyed
    counters,   \* the durable counters
    baseline,   \* the snapshot the observed server subtracts
    session,    \* what it last reported as this_session
    counted,    \* history: bumps since its first look or the last wipe
    wiped,      \* history: the counters were wiped since its last look
    blurred,    \* history: a wipe that the next look could not tell, or a first look that failed
    mishaps     \* how many of the mishaps have happened

file == <<lines, keep, logged, lost>>

counts == <<counters, baseline, session, counted, wiped, blurred>>

vars == <<now, file, counts, mishaps>>

Events == 1..MaxEvents

Values == [Names -> 0..MaxCount]

\* The assumptions on the constants.
StatsAssumption ==
    /\ {Window, MaxTime, MaxEvents, MaxCount, MaxMishaps} \subseteq Nat
    /\ Names # {}
    /\ None \notin Nat \cup Values

TypeOK ==
    /\ now \in 0..MaxTime
    /\ lines \subseteq Events
    /\ keep \in [Procs -> (SUBSET Events) \cup {None}]
    /\ logged \in [Events -> 0..MaxTime \cup {None}]
    /\ lost \subseteq Events
    /\ {counters, counted} \subseteq Values
    /\ {baseline, session} \subseteq Values \cup {None}
    /\ {wiped, blurred} \subseteq BOOLEAN
    /\ mishaps \in 0..MaxMishaps

Mishap == mishaps < MaxMishaps /\ mishaps' = mishaps + 1

-----------------------------------------------------------------------------

Logged == {e \in Events : logged[e] # None}

Recent(e) == logged[e] + Window >= now

\* Mutant of Unlocked: the lock is not waited for.
Unguarded == now \in Nat

Unlocked == \A p \in Procs : keep[p] = None

\* The line is written and flushed under the lock.
LogEvent ==
    /\ Unlocked
    /\ \E e \in Events \ Logged :
        /\ \A n \in 1..(e - 1) : n \in Logged
        /\ logged' = [logged EXCEPT ![e] = now]
        /\ lines' = lines \cup {e}
    /\ UNCHANGED <<now, keep, lost, mishaps, counts>>

\* The lines are read under the lock, which is held on if some are to be dropped; the
\* clock was read before the wait for the lock.
ReadEvents(p, time) ==
    /\ Unlocked
    /\ LET kept == {e \in lines : logged[e] + Window >= time} IN
       /\ kept # lines
       /\ keep' = [keep EXCEPT ![p] = kept]
    /\ UNCHANGED <<now, lines, logged, lost, mishaps, counts>>

\* The file is truncated and the kept lines land before the lock is given back.
Rewrite(p) ==
    /\ keep[p] # None
    /\ lines' = keep[p]
    /\ keep' = [keep EXCEPT ![p] = None]
    /\ UNCHANGED <<now, logged, lost, mishaps, counts>>

\* A kill after the truncation, or an error of the rewrite, which is swallowed.
RewriteFails(p) ==
    /\ keep[p] # None /\ Mishap
    /\ lines' = {}
    /\ lost' = lost \cup keep[p]
    /\ keep' = [keep EXCEPT ![p] = None]
    /\ UNCHANGED <<now, logged, counts>>

-----------------------------------------------------------------------------

\* A hook process bumps a counter.
Bump(n) ==
    /\ counters[n] < MaxCount
    /\ counters' = [counters EXCEPT ![n] = @ + 1]
    /\ counted' = IF baseline = None THEN counted ELSE [counted EXCEPT ![n] = @ + 1]
    /\ UNCHANGED <<now, baseline, session, wiped, blurred, mishaps, file>>

\* furl_purge all=true, by any process.
Wipe ==
    /\ counters' = [n \in Names |-> 0]
    /\ counted' = [n \in Names |-> 0]
    /\ wiped' = TRUE
    /\ UNCHANGED <<now, baseline, session, blurred, mishaps, file>>

Zero == [n \in Names |-> 0]

\* Mutant of Rebaselined: only the counters that dropped are counted anew.
RebaselinedEach(base, seen) ==
    [n \in Names |-> IF seen[n] < base[n] THEN 0 ELSE base[n]]

\* One counter below its snapshot drops the whole snapshot.
Rebaselined(base, seen) ==
    IF \E n \in Names : seen[n] < base[n] THEN Zero ELSE base

\* The first look takes the snapshot; every look persists the baseline it used.
Look ==
    /\ LET base == Rebaselined(IF baseline = None THEN counters ELSE baseline, counters) IN
       /\ baseline' = base
       /\ session' = [n \in Names |-> counters[n] - base[n]]
    /\ counted' = IF baseline = None THEN Zero ELSE counted
    /\ blurred' = (blurred \/ (/\ wiped /\ baseline \notin {None, Zero}
                               /\ \A n \in Names : counters[n] >= baseline[n]))
    /\ wiped' = FALSE
    /\ UNCHANGED <<now, counters, mishaps, file>>

\* A look that lost its lock race sees no counter: it reports nothing, and a first one
\* leaves an empty snapshot.
LookBlind ==
    /\ Mishap
    /\ baseline' = IF baseline = None THEN Zero ELSE baseline
    /\ session' = Zero
    /\ blurred' = (blurred \/ baseline = None)
    /\ UNCHANGED <<now, counters, counted, wiped, file>>

-----------------------------------------------------------------------------

Tick ==
    /\ now < MaxTime
    /\ now' = now + 1
    /\ UNCHANGED <<mishaps, file, counts>>

Init ==
    /\ now = 0
    /\ lines = {}
    /\ keep = [p \in Procs |-> None]
    /\ logged = [e \in Events |-> None]
    /\ lost = {}
    /\ counters = Zero
    /\ baseline = None
    /\ session = None
    /\ counted = Zero
    /\ wiped = FALSE
    /\ blurred = FALSE
    /\ mishaps = 0

Next ==
    \/ LogEvent
    \/ \E p \in Procs :
        \/ \E time \in 0..now : ReadEvents(p, time)
        \/ Rewrite(p) \/ RewriteFails(p)
    \/ \E n \in Names : Bump(n)
    \/ Wipe \/ Look \/ LookBlind
    \/ Tick

Spec == Init /\ [][Next]_vars

-----------------------------------------------------------------------------

\* An event inside the window is in the file, unless a kill or an error in the middle
\* of a rewrite destroyed it (mcp_server.py:746).
EventsKept ==
    \A e \in Logged : Recent(e) /\ e \notin lost => e \in lines

\* this_session is the number of bumps since the server's first look or the last wipe,
\* for every counter, unless all counters had climbed back by the look after a wipe or
\* the first look read nothing (mcp_server.py:1048).
LookIsExact == Look /\ ~blurred' => session' = counted'

SessionExact == [][LookIsExact]_vars

=============================================================================
