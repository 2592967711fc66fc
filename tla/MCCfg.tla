------------------------------- MODULE MCCfg -------------------------------
(***************************************************************************)
(* The empty function, and all functions of Size instructions of two       *)
(* bytes, with at most one hole, whose jumps go to any instruction, into   *)
(* the middle of one or out of the function.                               *)
(***************************************************************************)
EXTENDS CfgProperties

CONSTANT Size

\* The addresses are 2, 4, ..., shifted by one from instruction hole on.
McAddr(i, hole) == 2 * i + (IF hole > 0 /\ i >= hole THEN 1 ELSE 0)

\* Target 0 is none, 1 .. Size an instruction, Size + 1 the second byte of
\* the second instruction, Size + 2 another function.
McTarget(t, hole) ==
    CASE t = 0 -> 0
      [] t \in 1 .. Size -> McAddr(t, hole)
      [] t = Size + 1 -> McAddr(2, hole) + 1
      [] t = Size + 2 -> 100

McOps == {<<"plain", 0>>, <<"ret", 0>>, <<"jmp", 0>>}
            \cup ({"jmp", "jcc"} \X (1 .. Size + 2))

McProgram(ops, hole) ==
    [insns |-> [i \in 1 .. Size |->
        [addr |-> McAddr(i, hole), size |-> 2,
         kind |-> ops[i][1], target |-> McTarget(ops[i][2], hole)]],
     end |-> McAddr(Size, hole) + 2]

McPrograms ==
    {[insns |-> <<>>, end |-> 4]}
        \cup {McProgram(ops, hole) : ops \in [1 .. Size -> McOps], hole \in 0 .. Size}
=============================================================================
