------------------------------ MODULE DomTree ------------------------------
(***************************************************************************)
(* crates/rustdec-analysis/src/dominance.rs, DomTree: the immediate        *)
(* dominators petgraph computes, and the queries on the tree they form.    *)
(***************************************************************************)
EXTENDS FlowGraph

VARIABLES
    graph,
    idom     \* the dominator tree: the immediate dominator of each block

(***************************************************************************)
(* petgraph's simple_fast, by what it promises: of a block the entry       *)
(* reaches, the dominator that all its other strict dominators dominate;   *)
(* 0 (None) for the entry and for blocks nothing leads to.                 *)
(***************************************************************************)
ImmediateDominators(g) ==
    [n \in Blocks(g) |->
        LET strict == {d \in Blocks(g) \ {n} : Dom(g, d, n)}
        IN  IF strict = {} THEN 0
            ELSE CHOOSE d \in strict : \A c \in strict : Dom(g, c, d)]

\* DomTree::compute makes no tree of an empty graph.
TreeInit ==
    /\ graph \in Graphs \ {<<>>}
    /\ idom = ImmediateDominators(graph)

Children(n) == {m \in Blocks(graph) : idom[m] = n}

\* collect_subtree: the block, its children, their children and so on.
DominatedBy(n) ==
    LET f[k \in Nat] ==
            IF k = 0 THEN {n}
            ELSE f[k - 1] \cup UNION {Children(m) : m \in f[k - 1]}
    IN  f[Len(graph)]
=============================================================================
