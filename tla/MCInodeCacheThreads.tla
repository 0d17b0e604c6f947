------------------------ MODULE MCInodeCacheThreads ------------------------
\* Two threads that call every operation.
EXTENDS InodeCacheThreads, TLC

CONSTANTS t1, t2, t3, n1, n2, n3, n4, n5, i1, i2, p1, p2

MCKinds == {"add", "remove", "remove_path", "update", "get"}

\* The locals of a thread that is idle, and what freed memory holds, matter to no step.
MCView ==
    <<head, [n \in (live \union {head}) \ {NULL} |-> node[n]], live, calls, broken, safe, clash,
      [t \in Threads |-> IF pc[t] = "idle" THEN pc[t]
                         ELSE <<op[t], pc[t], curr[t], prev[t], got[t], alone[t]>>]>>

MCSymmetry == Permutations(Nodes) \union Permutations(Threads) \union Permutations(Inos) \union Permutations(Paths)
=============================================================================
