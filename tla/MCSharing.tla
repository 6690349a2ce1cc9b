------------------------------ MODULE MCSharing ------------------------------
(* Sharing for TLC: small sets of processes, callers and values.            *)
EXTENDS Sharing, TLC

CONSTANTS a, b, c1, c2, c3

\* Two calls of one tenant and one of another.
Tenancy == c1 :> a @@ c2 :> a @@ c3 :> b

\* Three processes: one without a namespace, two that spell one directory differently.
Environments ==
    <<[ns |-> None, dir |-> None], [ns |-> None, dir |-> "dir"], [ns |-> None, dir |-> "alias"]>>

Roots == [d \in {"dir", "alias"} |-> "dir"]

\* Both callers in the first process, or in the two that share a directory.
Placements == {h \in [Callers -> 1..3] : \A t, u \in Callers : t # u => {h[t], h[u]} \in {{1}, {2, 3}}}

\* One payload as a flat result with a cache breakpoint, as a nested part and as a text
\* block, and the retrieval tool's result.
BlockUnits ==
    <<[msg |-> 1, role |-> "user", type |-> "tool_result", tool |-> "bash", isError |-> FALSE,
       nested |-> FALSE, marked |-> TRUE, text |-> "x"],
      [msg |-> 1, role |-> "user", type |-> "tool_result", tool |-> "bash", isError |-> FALSE,
       nested |-> TRUE, marked |-> FALSE, text |-> "x"],
      [msg |-> 1, role |-> "assistant", type |-> "text", tool |-> "bash", isError |-> FALSE,
       nested |-> FALSE, marked |-> FALSE, text |-> "x"],
      [msg |-> 1, role |-> "user", type |-> "tool_result", tool |-> "retrieve", isError |-> FALSE,
       nested |-> FALSE, marked |-> FALSE, text |-> "x"]>>

Biases == [tool \in {"read", "bash", "retrieve"} |-> IF tool = "bash" THEN 2 ELSE 1]

\* Three originals under one query: one without a match, one whose items match weakly,
\* and one of which an item reaches the threshold.
Scores == <<0, 1, 2>>

-----------------------------------------------------------------------------
(* What the .cfg gives the constants: TLC evaluates these at every use, and  *)
(* the definitions they name once.                                           *)

MCTenantOf == Tenancy

MCEnvOf == Environments

MCRootOf == Roots

MCHomes == Placements

MCUnits == BlockUnits

MCBiasOf == Biases

MCScoreOf == Scores

Symmetric == Permutations(Procs) \cup Permutations(RowKeys)

=============================================================================
