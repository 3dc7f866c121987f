----------------------------- MODULE TrieShapes -----------------------------
(***************************************************************************)
(* What it means for nodes to form a trie, whatever they are made of.      *)
(***************************************************************************)
EXTENDS TriePrefix

\* A trie with nodes L, whose node n stands for the first N[n] digits of P[n]
\* and has the child C[n][b] in slot b, or nul.
ShapeEdges(L, P, N, C, nul) ==
    \A n \in L, b \in Branch :
        C[n][b] # nul =>
            /\ C[n][b] \in L
            /\ N[n] < N[C[n][b]]
            /\ IsPrefixOf(P[n], N[n], P[C[n][b]], N[C[n][b]])
            /\ BranchBits(P[C[n][b]], N[n]) = b

ShapePaths(L, P, N, C, nul) ==
    \A n \in L, x \in L :
        IsPrefixOf(P[n], N[n], P[x], N[x]) /\ N[n] < N[x] =>
            LET c == C[n][BranchBits(P[x], N[n])]
            IN  c # nul /\ IsPrefixOf(P[c], N[c], P[x], N[x])

ShapeUnique(L, P, N) ==
    \A n \in L, x \in L :
        IsPrefixOf(P[n], N[n], P[x], N[x]) /\ N[n] = N[x] => n = x

TrieShape(L, P, N, C, nul) ==
    /\ ShapeEdges(L, P, N, C, nul)
    /\ ShapePaths(L, P, N, C, nul)
    /\ ShapeUnique(L, P, N)

NodesTyped(L, P, N) == \A x \in L : N[x] \in PrefixLen /\ P[x] \in Key
=============================================================================
