---------------------------- MODULE NaturalLoops ----------------------------
(***************************************************************************)
(* crates/rustdec-analysis/src/dominance.rs, find_natural_loops: for every *)
(* edge of the graph, does its target dominate its source?  If so, the     *)
(* loop's body is searched backwards from the source, and loops with one   *)
(* header are merged.                                                      *)
(***************************************************************************)
EXTENDS DomTree

(* A definition called a mutation models a bug the code does not have: the *)
(* checker must find a property violated when it takes the place of the    *)
(* definition that follows it.                                             *)

VARIABLES
    phase,   \* "edge", "walk", "body", "done"
    node,    \* the edge under question: its source
    edge,    \* and its index among the edges of the source
    cur,     \* dominates: where the walk up the tree has got to
    body,    \* compute_loop_body: the blocks found so far
    work,    \* and those whose predecessors were not looked at
    loops    \* the loops found: [header, body, latches]

loopVars == <<phase, node, edge, cur, body, work, loops>>

LoopsInit ==
    /\ phase = "edge"
    /\ node = 1
    /\ edge = 1
    /\ cur = 0
    /\ body = {}
    /\ work = {}
    /\ loops = <<>>

HasEdge == node <= Len(graph) /\ edge <= Len(Succ(graph, node))

target == Succ(graph, node)[edge]

Preds(n) == {m \in Blocks(graph) : n \in Targets(graph, m)}

-----------------------------------------------------------------------------

\* compute_loop_body is called: the worklist has the latch.
StartBody ==
    /\ phase' = "body"
    /\ body' = {target, node}
    /\ work' = {node}

\* A block dominates itself.
AskSelf ==
    /\ phase = "edge" /\ HasEdge /\ target = node
    /\ StartBody
    /\ UNCHANGED <<node, edge, cur, loops>>

Ask ==
    /\ phase = "edge" /\ HasEdge /\ target # node
    /\ phase' = "walk"
    /\ cur' = node
    /\ UNCHANGED <<node, edge, body, work, loops>>

\* The walk has reached the root of the tree: no back edge.
NotDominated ==
    /\ phase = "walk" /\ idom[cur] = 0
    /\ phase' = "edge"
    /\ edge' = edge + 1
    /\ UNCHANGED <<node, cur, body, work, loops>>

\* Mutation: the walk takes two steps at once.
ClimbedTwice == IF idom[idom[cur]] = 0 THEN idom[cur] ELSE idom[idom[cur]]

Climbed == idom[cur]

WalkUp ==
    /\ phase = "walk" /\ idom[cur] \notin {0, target}
    /\ cur' = Climbed
    /\ UNCHANGED <<phase, node, edge, body, work, loops>>

Dominated ==
    /\ phase = "walk" /\ idom[cur] = target
    /\ StartBody
    /\ UNCHANGED <<node, edge, cur, loops>>

\* What goes to the worklist.
Pushed(n) == (Preds(n) \ body) \ {target}

\* One block off the worklist.  The order is of no consequence, and none is
\* assumed.
Grow(n) ==
    /\ phase = "body"
    /\ body' = body \cup Preds(n)
    /\ work' = (work \ {n}) \cup Pushed(n)
    /\ UNCHANGED <<phase, node, edge, cur, loops>>

NewLoop == [header |-> target, body |-> body, latches |-> {node}]

\* Mutation: the second body of a header replaces the first.
LastBody(l) == [l EXCEPT !.body = body, !.latches = @ \cup {node}]

Merged(l) == [l EXCEPT !.body = @ \cup body, !.latches = @ \cup {node}]

\* Mutation: every back edge gives a loop of its own.
NeverKnown == FALSE

Known == \E i \in 1 .. Len(loops) : loops[i].header = target

\* latches is a set here: a branch with both arms on the header is listed
\* twice by the code.
Record ==
    /\ phase = "body" /\ work = {}
    /\ loops' = IF Known
                THEN [i \in 1 .. Len(loops) |->
                        IF loops[i].header = target THEN Merged(loops[i]) ELSE loops[i]]
                ELSE Append(loops, NewLoop)
    /\ phase' = "edge"
    /\ edge' = edge + 1
    /\ UNCHANGED <<node, cur, body, work>>

NextNode ==
    /\ phase = "edge" /\ node <= Len(graph) /\ ~HasEdge
    /\ node' = node + 1
    /\ edge' = 1
    /\ UNCHANGED <<phase, cur, body, work, loops>>

Finish ==
    /\ phase = "edge" /\ node > Len(graph)
    /\ phase' = "done"
    /\ UNCHANGED <<node, edge, cur, body, work, loops>>

LoopsNext ==
    \/ AskSelf \/ Ask \/ NotDominated \/ WalkUp \/ Dominated
    \/ \E n \in work : Grow(n)
    \/ Record \/ NextNode \/ Finish
=============================================================================
