----------------------------- MODULE Dominance -----------------------------
(***************************************************************************)
(* crates/rustdec-analysis/src/dominance.rs as its callers use it: the     *)
(* dominator tree of a function, its natural loops, and then the point of  *)
(* convergence of any one block.                                           *)
(***************************************************************************)
EXTENDS NaturalLoops, Convergence

vars == <<graph, idom, loopVars, convergenceVars>>

Init == TreeInit /\ LoopsInit /\ ConvergenceInit

FindLoops == LoopsNext /\ UNCHANGED <<graph, idom, convergenceVars>>

FindConvergence ==
    phase = "done" /\ ConvergenceNext /\ UNCHANGED <<graph, idom, loopVars>>

\* Both calls have returned.
Returned == phase = "done" /\ stage = "answered" /\ UNCHANGED vars

Next == FindLoops \/ FindConvergence \/ Returned

Spec == Init /\ [][Next]_vars

-----------------------------------------------------------------------------

\* All predecessors of the blocks of S, but of block h, are in S.
ClosedBack(S, h) == \A n \in S : n # h => Preds(n) \subseteq S

\* S has the blocks that reach a latch without passing through the header.
Encloses(S, l) ==
    /\ l.header \in S
    /\ l.latches \subseteq S
    /\ ClosedBack(S, l.header)

NaturalBody(l) ==
    /\ Encloses(l.body, l)
    /\ \A S \in SUBSET Blocks(graph) : Encloses(S, l) => l.body \subseteq S

(***************************************************************************)
(* The body of a loop is the header and the blocks that reach a latch      *)
(* without passing through it, no block more and none less, whatever the   *)
(* order of the search and however many latches were merged.  When a block *)
(* jumps to itself the search starts at the header and takes in what comes *)
(* before the loop (dominance.rs:194): no claim is made about such a loop. *)
(***************************************************************************)
BodiesOfLatches ==
    \A i \in 1 .. Len(loops) :
        loops[i].header \notin loops[i].latches => NaturalBody(loops[i])

\* The walk up the tree answers "does target dominate node?" rightly, and
\* every back edge is a latch of the one loop of its header.
LatchesAreBackEdges ==
    /\ \A i, j \in 1 .. Len(loops) :
        i # j => loops[i].header # loops[j].header
    /\ phase = "done" =>
        \A n, h \in Blocks(graph) :
            (\E i \in 1 .. Len(loops) : loops[i].header = h /\ n \in loops[i].latches)
            <=> h \in Targets(graph, n) /\ (h = n \/ Dom(graph, h, n))

\* What control can reach of the body of a loop.
Live(i) == loops[i].body \cap Reachable(graph)

\* A loop whose header does not jump to itself.
Plain(i) == i \in 1 .. Len(loops) /\ loops[i].header \notin loops[i].latches

\* Two loops are disjoint, or one is inside the other.
LoopsNest ==
    phase = "done" =>
        \A i, j \in 1 .. Len(loops) :
            Plain(i) /\ Plain(j) =>
                \/ Live(i) \cap Live(j) = {}
                \/ Live(i) \subseteq Live(j)
                \/ Live(j) \subseteq Live(i)

-----------------------------------------------------------------------------
(* Convergence.                                                            *)

\* What the branch dominates, itself included.
Inside == {n \in Blocks(graph) : n = branch \/ Dom(graph, branch, n)}

\* The blocks both arms lead to without entering one of those.
Meetings ==
    IF Len(arms) < 2 THEN {}
    ELSE Spread(graph, {arms[1]}, Inside) \cap Spread(graph, {arms[2]}, Inside)

(***************************************************************************)
(* What find_convergence answers: the lowest of the blocks that both arms  *)
(* lead to around all the branch dominates, None only if there is no such  *)
(* block.  So it is never a block that only the branch leads to: an if     *)
(* whose join the branch dominates, as it does in code without a jump into *)
(* it, gets None.  The comment of the function (dominance.rs:212) promises *)
(* the immediate post-dominator; this is what a caller would really get.   *)
(***************************************************************************)
AnswersLieAround ==
    stage = "answered" =>
        /\ answer = 0 <=> Meetings = {}
        /\ answer # 0 =>
            /\ answer \in Meetings
            /\ \A n \in Meetings : answer <= n
            /\ branch \in Reachable(graph) =>
                    answer \in Spread(graph, {1}, {branch})
=============================================================================
