----------------------------- MODULE MCStackFs -----------------------------
EXTENDS StackFs, TLC
CONSTANTS a, b, c
MCNames == {a, b, c}
Symmetric == Permutations(Nodes) \cup Permutations(Threads)
MCHash == [k \in MCNames |-> CASE k = a -> 0 [] k = b -> 2 [] k = c -> 4]
=============================================================================
