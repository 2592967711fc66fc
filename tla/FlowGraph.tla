----------------------------- MODULE FlowGraph -----------------------------
(***************************************************************************)
(* The control-flow graph that build_cfg hands to the dominance analysis   *)
(* and to the structurer.  Block k (id and NodeIndex k - 1) is graph[k];   *)
(* blocks are in address order, so block 1 is the entry.                   *)
(***************************************************************************)
EXTENDS Naturals, Sequences, FiniteSets

CONSTANT Graphs   \* the functions to be analysed

(***************************************************************************)
(* What ends a block: its kind, the ids its terminator names, and whether  *)
(* the edges were added.  Where build_cfg drops the edges (a tail call, a  *)
(* branch with an arm outside the function) the ids are the placeholder,   *)
(* the entry's.  The false arm of a branch is always the next block.       *)
(***************************************************************************)
Return == [kind |-> "Return", arms |-> <<>>, wired |-> FALSE]
Jump(t) == [kind |-> "Jump", arms |-> <<t>>, wired |-> TRUE]
Branch(t, f) == [kind |-> "Branch", arms |-> <<t, f>>, wired |-> TRUE]
LostJump == [kind |-> "Jump", arms |-> <<1>>, wired |-> FALSE]
LostBranch == [kind |-> "Branch", arms |-> <<1, 1>>, wired |-> FALSE]

Terminators(n, size) ==
    {Return, LostJump, LostBranch}
    \cup {Jump(t) : t \in 1 .. size}
    \cup {Branch(t, n + 1) : t \in IF n < size THEN 1 .. size ELSE {}}

WellWired(g) ==
    /\ g \in Seq([kind : {"Return", "Jump", "Branch"}, arms : Seq(Nat), wired : BOOLEAN])
    /\ \A n \in 1 .. Len(g) : g[n] \in Terminators(n, Len(g))

ASSUME GraphAssumption == \A g \in Graphs : WellWired(g)

Blocks(g) == 1 .. Len(g)

\* Graph::edges walks the outgoing edges from the last one added to the first.
Succ(g, n) ==
    IF ~g[n].wired THEN <<>>
    ELSE IF g[n].kind = "Branch" THEN <<g[n].arms[2], g[n].arms[1]>>
    ELSE g[n].arms

Targets(g, n) == {Succ(g, n)[k] : k \in 1 .. Len(Succ(g, n))}

-----------------------------------------------------------------------------
(* Reference definitions, for the properties.                              *)

\* The blocks on paths of at most k edges from set S, never into a block of B.
Spread(g, S, B) ==
    LET f[k \in Nat] ==
            IF k = 0 THEN S \ B
            ELSE f[k - 1] \cup ((UNION {Targets(g, n) : n \in f[k - 1]}) \ B)
    IN  f[Len(g)]

Reachable(g) == Spread(g, {1} \cap Blocks(g), {})

\* a dominates b: b can be reached, and not without going through a.
Dom(g, a, b) == b \in Reachable(g) /\ b \notin Spread(g, {1}, {a})
=============================================================================
