------------------------- MODULE MC_DependencyTree -------------------------
(* Two tasks under one parent, two task identifiers, and one node identity *)
(* more than can be reachable at once.                                     *)
EXTENDS DependencyTree, TLC

CONSTANTS t1, t2, a, b, n1, n2, n3, n4, n5

MCTasks == {t1, t2}
MCNames == {a, b}
MCNodeIds == {n1, n2, n3, n4, n5}

\* Node identities and tasks are interchangeable.
MCSymmetry == Permutations(MCNodeIds) \cup Permutations(MCTasks)
=============================================================================
