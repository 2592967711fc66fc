------------------------ MODULE StructurerProperties ------------------------
(***************************************************************************)
(* What the tree and the order it is made from must satisfy.               *)
(***************************************************************************)
EXTENDS Structurer

Ready == pass \in {"tree", "done"}

(***************************************************************************)
(* The order handed to the tree builder has every block exactly once,      *)
(* whatever cycles are left and whichever blocks nothing leads to: Kahn's  *)
(* algorithm enqueues no block twice, parallel edges included, and the     *)
(* safety net adds no more than what is missing.                           *)
(***************************************************************************)
OrderIsPermutation ==
    Ready =>
        /\ Ordered = Blocks(graph)
        /\ \A i, j \in 1 .. Len(order) : i # j => order[i] # order[j]

Position(n) == CHOOSE i \in 1 .. Len(order) : order[i] = n

InTopologicalOrder ==
    \A n \in Blocks(graph) : \A k \in 1 .. Len(Succ(graph, n)) :
        Forward(n, k) => Position(n) < Position(Succ(graph, n)[k])

\* Blocks nothing leads to (the cases of a switch, say) that form a cycle.
DeadCycle ==
    \E n \in Blocks(graph) \ Reachable(graph) :
        n \in Spread(graph, Targets(graph, n), {})

(***************************************************************************)
(* Removing the back edges found by the search leaves a graph without      *)
(* cycles, and the order follows all its edges, but for dead cycles, which *)
(* the search never visits.                                                *)
(***************************************************************************)
OrderFollowsEdges == Ready /\ ~DeadCycle => InTopologicalOrder

(***************************************************************************)
(* The structurer's back edges (targets on the search stack) include those *)
(* of the dominance analysis (targets that dominate the source): every     *)
(* natural loop has a header here.                                         *)
(***************************************************************************)
NaturalLoopsAreSeen ==
    pass # "dfs" =>
        \A n \in Reachable(graph) : \A t \in Targets(graph, n) :
            Dom(graph, t, n) => <<n, t>> \in back

-----------------------------------------------------------------------------
(* The tree.                                                               *)

Count(s, n) == Cardinality({i \in 1 .. Len(s) : s[i] = n})

InNode(t, n) ==
    (IF t.head = n THEN 1 ELSE 0) + Count(t.body, n) + Count(t.other, n)

Times(n) ==
    LET f[i \in Nat] == IF i = 0 THEN 0 ELSE f[i - 1] + InNode(tree[i], n)
    IN  f[Len(tree)]

\* A tree without if/else has every block exactly once: loops, of any
\* shape and nesting, neither lose nor repeat a block.
LoopsKeepBlocks ==
    pass = "done" /\ (\A i \in 1 .. Len(tree) : tree[i].kind # "IfElse") =>
        \A n \in Blocks(graph) : Times(n) = 1
=============================================================================
