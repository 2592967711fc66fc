--------------------------- MODULE MCStructurer ---------------------------
(***************************************************************************)
(* All control-flow graphs of no, one and Size blocks that build_cfg can   *)
(* make; the ones between are those of Size blocks whose last blocks are   *)
(* returns nothing leads to.                                               *)
(***************************************************************************)
EXTENDS Emission

CONSTANT Size

\* The terminators of block n, by number: 0 return, 1 tail call, 2 branch out
\* of the function, then a jump or a branch to each block.
McTerm(n, size, c) ==
    CASE c = 0 -> Return
      [] c = 1 -> LostJump
      [] c = 2 -> LostBranch
      [] c \in 3 .. size + 2 -> Jump(c - 2)
      [] OTHER -> IF n < size THEN Branch(c - size - 2, n + 1) ELSE Return

McSized(size) ==
    {[n \in 1 .. size |-> McTerm(n, size, c[n])] : c \in [1 .. size -> 0 .. 2 * size + 2]}

McGraphs == {<<>>} \cup McSized(1) \cup McSized(Size)

\* The functions of Size blocks without loops and branches out of the function.
McForward(n) ==
    {Return} \cup {Jump(t) : t \in n + 1 .. Size}
    \cup {Branch(t, n + 1) : t \in n + 1 .. Size}

McAcyclic ==
    {g \in [1 .. Size -> UNION {McForward(n) : n \in 1 .. Size}] :
        \A n \in 1 .. Size : g[n] \in McForward(n)}
=============================================================================
