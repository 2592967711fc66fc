---------------------------- MODULE MCDominance ----------------------------
(***************************************************************************)
(* All control-flow graphs of Size blocks.  A block that ends without an   *)
(* edge is a Return: the other ends without edges make no difference here. *)
(***************************************************************************)
EXTENDS Dominance

CONSTANT Size

\* The terminators of block n, by number: 0 a return, then a jump or a branch
\* to each block.
McTerm(n, c) ==
    CASE c = 0 -> Return
      [] c \in 1 .. Size -> Jump(c)
      [] OTHER -> IF n < Size THEN Branch(c - Size, n + 1) ELSE Return

McGraphs ==
    {[n \in 1 .. Size |-> McTerm(n, c[n])] : c \in [1 .. Size -> 0 .. 2 * Size]}
=============================================================================
