--------------------------- MODULE CfgProperties ---------------------------
(***************************************************************************)
(* What the later stages (dominance, structuration, lifting) rely on when  *)
(* they are given the graph build_cfg made.                                *)
(***************************************************************************)
EXTENDS CfgBuilder

N == Len(prog.insns)

In(i) == prog.insns[i]

Block == [id : Nat, start : Nat, end : Nat,
          term : [kind : {"Unreachable", "Return", "Jump", "Branch"}, to : Seq(Nat)]]

\* Every value has its shape.
TypeOK ==
    /\ WellFormed(prog)
    /\ pass \in {"leaders", "blocks", "jumps", "branches", "done"}
    /\ at \in Nat \ {0}
    /\ leaders \subseteq Nat
    /\ current \in Seq(Block) /\ Len(current) <= 1
    /\ blocks \in Seq(Block)
    /\ nextId \in Nat
    /\ jumps \in Seq([from : Nat, to : Nat])
    /\ branches \in Seq([from : Nat, yes : Nat, no : Nat])
    /\ edges \in Seq([from : Nat, to : Nat])

(***************************************************************************)
(* Blocks are made in address order, do not overlap, and a block's id is   *)
(* its place: NodeIndex 0, the lowest address and the function's entry are *)
(* the same block, as find_back_edges and DomTree::compute assume when     *)
(* they take the block with the lowest address for the entry.              *)
(***************************************************************************)
BlocksTile ==
    LET all == blocks \o current
    IN  /\ \A k \in 1 .. Len(all) :
            /\ all[k].id = k - 1
            /\ all[k].start < all[k].end
            /\ all[k].start \in leaders
        /\ \A k, m \in 1 .. Len(all) : k < m => all[k].end <= all[m].start
        /\ all # <<>> => all[1].start = Entry
        /\ nextId = Len(all)

Inside(k, i) == blocks[k].start <= In(i).addr /\ In(i).addr < blocks[k].end

Covered(i) == \E k \in 1 .. Len(blocks) : Inside(k, i)

\* Instructions are left out of the blocks only behind a hole in the code
\* that follows the end of a block, up to the next leader.
OnlyHolesLoseCode ==
    pass \in {"jumps", "branches", "done"} =>
        \A i \in 1 .. N : ~Covered(i) =>
            \E h \in 1 .. i - 1 :
                /\ EndsBlock(In(h))
                /\ In(h + 1).addr # EndOf(In(h))
                /\ \A m \in h + 1 .. i : In(m).addr \notin leaders

-----------------------------------------------------------------------------
(* The flow of control between instructions, and the graph.                *)

Flow(i) ==
    CASE In(i).kind = "plain" -> IF i < N THEN {In(i + 1).addr} ELSE {}
      [] In(i).kind = "ret" -> {}
      [] In(i).kind = "jmp" -> {In(i).target}
      [] In(i).kind = "jcc" -> {In(i).target, EndOf(In(i))}

Present(a) == \E i \in 1 .. N : In(i).addr = a /\ Covered(i)

HasEdge(k, m) == \E e \in 1 .. Len(edges) : edges[e] = [from |-> k, to |-> m]

IsLast(k, i) == Inside(k, i) /\ ~ (i < N /\ Inside(k, i + 1))

(***************************************************************************)
(* Where the instructions of two blocks follow each other, the graph has   *)
(* an edge; the one exception is a conditional branch that has an arm      *)
(* outside the blocks, which loses both edges (cfg.rs:268).                *)
(***************************************************************************)
FlowKept ==
    pass = "done" =>
        \A k \in 1 .. Len(blocks), i \in 1 .. N :
            /\ IsLast(k, i)
            /\ In(i).kind = "jcc" => \A a \in Flow(i) : Present(a)
            => \A a \in Flow(i) : Present(a) =>
                    \E m \in 1 .. Len(blocks) : blocks[m].start = a /\ HasEdge(k, m)

\* Every edge is a flow from the last instruction of a block to the start of
\* a block; a block has two edges, added together, only if it ends in a branch.
EdgesAreFlow ==
    /\ \A e \in 1 .. Len(edges) :
        \E i \in 1 .. N :
            /\ IsLast(edges[e].from, i)
            /\ blocks[edges[e].to].start \in Flow(i)
    /\ \A d, e \in 1 .. Len(edges) :
        d < e /\ edges[d].from = edges[e].from
            => e = d + 1 /\ blocks[edges[d].from].term.kind = "Branch"
=============================================================================
