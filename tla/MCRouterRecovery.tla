-------------------------- MODULE MCRouterRecovery --------------------------
(* Instances of RouterRecovery for TLC.                                     *)
EXTENDS RouterRecovery, TLC

CONSTANTS c1, c2, h1, h2, h3, t1, t2, s1

\* c1 is a crushed array with two markers, c2 a log with a key of its own.
Markers == c1 :> {h1, h2} @@ c2 :> {h3}

Ask(messages, tightness) == [messages : {messages}, tight : tightness]

\* t1 compresses both and accepts the log's ratio, t2 rejects it.
Mixed == t1 :> Ask({c1, c2}, {FALSE}) @@ t2 :> Ask({c2}, {TRUE})

OneNamespace == t1 :> s1 @@ t2 :> s1

\* For Markers.
Symmetric == Permutations({h1, h2})

=============================================================================
