-------------------------- MODULE RecoveryContract --------------------------
(***************************************************************************)
(* What compress() promises its callers, whatever caches and passes decide *)
(* it: each message of a request ships as it was, or compressed with every *)
(* marker backed in the call's own store; a call that fails ships nothing  *)
(* compressed; and nothing is decided twice.  The stores change and lose   *)
(* entries on their own.  RouterRecovery implements it.                    *)
(***************************************************************************)
EXTENDS FiniteSets

CONSTANTS
    Contents, Hashes, MarkersOf, Borderline, Calls, Requests, Stores, StoreOf \* as in RouterRecovery

VARIABLES
    held,    \* per store, the hashes it answers for
    onDisk,  \* per store, those of them that are durable
    lost,    \* per call, the hashes its store lost since the call began
    strict,  \* per call, is its min_ratio the tight one
    outcome  \* per call and message, what was decided

contractVars == <<held, onDisk, lost, strict, outcome>>

Outcomes == {"absent", "open", "original", "cached", "fresh"}

Free(t) == \A c \in Contents : outcome[t][c] = "absent"

Settle(t, c, what) ==
    /\ outcome[t][c] = "open"
    /\ outcome' = [outcome EXCEPT ![t][c] = what]
    /\ UNCHANGED <<held, onDisk, lost, strict>>

-----------------------------------------------------------------------------

Start(t, request) ==
    /\ Free(t)
    /\ outcome' = [outcome EXCEPT ![t] =
           [c \in Contents |-> IF c \in request.messages THEN "open" ELSE "absent"]]
    /\ strict' = [strict EXCEPT ![t] = request.tight]
    /\ lost' = [lost EXCEPT ![t] = {}]
    /\ UNCHANGED <<held, onDisk>>

\* The stores change: entries are written, expire, are evicted or purged.
Change ==
    /\ UNCHANGED <<strict, outcome>>
    /\ held' \in [Stores -> SUBSET Hashes]
    /\ onDisk' \in [Stores -> SUBSET Hashes]
    /\ \A s \in Stores : onDisk'[s] \subseteq held'[s]
    /\ lost' = [t \in Calls |-> IF Free(t) THEN {} ELSE lost[t]
           \cup (held[StoreOf[t]] \ held'[StoreOf[t]])
           \cup (onDisk[StoreOf[t]] \ onDisk'[StoreOf[t]])]

\* Does the call's min_ratio accept the message's compressed form?
Acceptable(t, c) == ~(strict[t] /\ c \in Borderline)

Keep(t, c) == Settle(t, c, "original")

\* From the result cache: its markers answer, on disk or not.
ShipCached(t, c) ==
    /\ Acceptable(t, c)
    /\ MarkersOf[c] \subseteq held[StoreOf[t]] \cup lost[t]
    /\ Settle(t, c, "cached")

\* Compressed by the call: its originals are on disk first.
ShipFresh(t, c) ==
    /\ Acceptable(t, c)
    /\ MarkersOf[c] \subseteq onDisk[StoreOf[t]] \cup lost[t]
    /\ Settle(t, c, "fresh")

\* The call fails before all is decided: every message ships as it was.
Fail(t) ==
    /\ \E c \in Contents : outcome[t][c] = "open"
    /\ outcome' = [outcome EXCEPT ![t] =
           [c \in Contents |-> IF outcome[t][c] = "absent" THEN "absent" ELSE "original"]]
    /\ UNCHANGED <<held, onDisk, lost, strict>>

\* The call returns once all is decided.
Return(t) ==
    /\ ~Free(t)
    /\ \A c \in Contents : outcome[t][c] # "open"
    /\ outcome' = [outcome EXCEPT ![t] = [c \in Contents |-> "absent"]]
    /\ strict' = [strict EXCEPT ![t] = FALSE]
    /\ lost' = [lost EXCEPT ![t] = {}]
    /\ UNCHANGED <<held, onDisk>>

-----------------------------------------------------------------------------

Init ==
    /\ held = [s \in Stores |-> {}]
    /\ onDisk = [s \in Stores |-> {}]
    /\ lost = [t \in Calls |-> {}]
    /\ strict = [t \in Calls |-> FALSE]
    /\ outcome = [t \in Calls |-> [c \in Contents |-> "absent"]]

Next ==
    \/ Change
    \/ \E t \in Calls : \E request \in Requests[t] : Start(t, request)
    \/ \E t \in Calls, c \in Contents : Keep(t, c) \/ ShipCached(t, c) \/ ShipFresh(t, c)
    \/ \E t \in Calls : Fail(t) \/ Return(t)

Spec == Init /\ [][Next]_contractVars

=============================================================================
