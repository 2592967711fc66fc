----------------------------- MODULE Structurer -----------------------------
(***************************************************************************)
(* crates/rustdec-analysis/src/structure.rs, structure_function: back      *)
(* edges by depth-first search, Kahn's order of the graph without them,    *)
(* and one walk over that order that makes the tree the code generators    *)
(* print.                                                                  *)
(***************************************************************************)
EXTENDS FlowGraph

(* A definition called a mutation models a bug the code does not have: the *)
(* checker must find a property violated when it takes the place of the    *)
(* definition that follows it.                                             *)

VARIABLES
    graph,
    pass,      \* "dfs", "degrees", "kahn", "tree", "done"
    stack,     \* dfs_back's frames, innermost last: [node, next edge]
    visited,
    back,      \* the back edges <<source, header>>
    inDegree,
    queue,
    popped,    \* <<>> or <<the node whose edges are being relaxed>>
    edge,      \* index of its next edge
    free,      \* newly_free
    order,     \* the topological order
    at,        \* build_sequence's i
    tree       \* the nodes of the outermost sequence

vars == <<graph, pass, stack, visited, back, inDegree, queue, popped, edge,
          free, order, at, tree>>

dfsVars == <<stack, visited, back>>
kahnVars == <<inDegree, queue, popped, edge, free>>

Headers == {e[2] : e \in back}

\* Edge k of node n is not a back edge.
Forward(n, k) == <<n, Succ(graph, n)[k]>> \notin back

Init ==
    /\ graph \in Graphs
    /\ pass = "dfs"
    /\ stack = IF graph = <<>> THEN <<>> ELSE <<[node |-> 1, edge |-> 1]>>
    /\ visited = IF graph = <<>> THEN {} ELSE {1}
    /\ back = {}
    /\ inDegree = [n \in Blocks(graph) |-> 0]
    /\ queue = <<>>
    /\ popped = <<>>
    /\ edge = 1
    /\ free = <<>>
    /\ order = <<>>
    /\ at = 1
    /\ tree = <<>>

-----------------------------------------------------------------------------
(* find_back_edges.                                                        *)

Top == stack[Len(stack)]

\* The stack with the next edge of its top frame taken.
Advanced == [stack EXCEPT ![Len(stack)].edge = @ + 1]

\* Mutation: a node leaves on_stack when its successor is entered.
OnlyTop == {Top.node}

OnStack == {stack[i].node : i \in 1 .. Len(stack)}

\* Mutation: the last edge of a node is not looked at.
HasEdgeButLast == stack # <<>> /\ Top.edge < Len(Succ(graph, Top.node))

HasEdge == stack # <<>> /\ Top.edge <= Len(Succ(graph, Top.node))

Target == Succ(graph, Top.node)[Top.edge]

BackEdge ==
    /\ pass = "dfs" /\ HasEdge /\ Target \in OnStack
    /\ back' = back \cup {<<Top.node, Target>>}
    /\ stack' = Advanced
    /\ UNCHANGED <<graph, pass, visited, kahnVars, order, at, tree>>

Descend ==
    /\ pass = "dfs" /\ HasEdge /\ Target \notin visited
    /\ visited' = visited \cup {Target}
    /\ stack' = Append(Advanced, [node |-> Target, edge |-> 1])
    /\ UNCHANGED <<graph, pass, back, kahnVars, order, at, tree>>

PassBy ==
    /\ pass = "dfs" /\ HasEdge /\ Target \in visited \ OnStack
    /\ stack' = Advanced
    /\ UNCHANGED <<graph, pass, visited, back, kahnVars, order, at, tree>>

Ascend ==
    /\ pass = "dfs" /\ stack # <<>> /\ ~HasEdge
    /\ stack' = SubSeq(stack, 1, Len(stack) - 1)
    /\ UNCHANGED <<graph, pass, visited, back, kahnVars, order, at, tree>>

EndSearch ==
    /\ pass = "dfs" /\ stack = <<>>
    /\ pass' = "degrees"
    /\ UNCHANGED <<graph, dfsVars, kahnVars, order, at, tree>>

-----------------------------------------------------------------------------
(* topo_without_back_edges.                                                *)

\* q lists the members of a set of blocks, lowest address first.
Ascending(S, q) ==
    /\ \A n \in S : \E i \in 1 .. Len(q) : q[i] = n
    /\ \A i, j \in 1 .. Len(q) : i < j => q[i] < q[j]

\* Mutation: in-degrees count predecessors.
Predecessors(t) ==
    {n \in Blocks(graph) :
        \E k \in 1 .. Len(Succ(graph, n)) : Succ(graph, n)[k] = t /\ Forward(n, k)}

\* Every edge counts, two parallel ones twice.
InEdges(t) ==
    {e \in Blocks(graph) \X {1, 2} :
        /\ e[2] <= Len(Succ(graph, e[1]))
        /\ Succ(graph, e[1])[e[2]] = t
        /\ Forward(e[1], e[2])}

CountDegrees ==
    /\ pass = "degrees"
    /\ inDegree' = [t \in Blocks(graph) |-> Cardinality(InEdges(t))]
    /\ LET roots == {t \in Blocks(graph) : InEdges(t) = {}}
       IN  \E q \in [1 .. Cardinality(roots) -> roots] :
                Ascending(roots, q) /\ queue' = q
    /\ pass' = "kahn"
    /\ UNCHANGED <<graph, dfsVars, popped, edge, free, order, at, tree>>

PopFront ==
    /\ pass = "kahn" /\ popped = <<>> /\ queue # <<>>
    /\ popped' = <<Head(queue)>>
    /\ queue' = Tail(queue)
    /\ order' = Append(order, Head(queue))
    /\ edge' = 1
    /\ free' = <<>>
    /\ UNCHANGED <<graph, pass, dfsVars, inDegree, at, tree>>

Relaxing == pass = "kahn" /\ popped # <<>> /\ edge <= Len(Succ(graph, popped[1]))

Relax ==
    /\ Relaxing /\ Forward(popped[1], edge)
    /\ LET t == Succ(graph, popped[1])[edge]
           d == IF inDegree[t] = 0 THEN 0 ELSE inDegree[t] - 1
       IN  /\ inDegree' = [inDegree EXCEPT ![t] = d]
           /\ free' = IF d = 0 THEN Append(free, t) ELSE free
    /\ edge' = edge + 1
    /\ UNCHANGED <<graph, pass, dfsVars, queue, popped, order, at, tree>>

SkipBackEdge ==
    /\ Relaxing /\ ~Forward(popped[1], edge)
    /\ edge' = edge + 1
    /\ UNCHANGED <<graph, pass, dfsVars, inDegree, queue, popped, free, order, at, tree>>

\* A block has two successors at most, so newly_free has two nodes at most.
Sorted(s) == IF Len(s) = 2 /\ s[2] < s[1] THEN <<s[2], s[1]>> ELSE s

Enqueue ==
    /\ pass = "kahn" /\ popped # <<>> /\ ~Relaxing
    /\ queue' = queue \o Sorted(free)
    /\ popped' = <<>>
    /\ UNCHANGED <<graph, pass, dfsVars, inDegree, edge, free, order, at, tree>>

Ordered == {order[i] : i \in 1 .. Len(order)}

\* The safety net: what Kahn's algorithm left out, in index order.
AppendRest ==
    /\ pass = "kahn" /\ popped = <<>> /\ queue = <<>>
    /\ LET rest == Blocks(graph) \ Ordered
       IN  \E q \in [1 .. Cardinality(rest) -> rest] :
                Ascending(rest, q) /\ order' = order \o q
    /\ pass' = "tree"
    /\ UNCHANGED <<graph, dfsVars, kahnVars, at, tree>>

-----------------------------------------------------------------------------
(* build_sequence.                                                         *)

\* A node of the tree; body holds the plain blocks inside it.
BlockNode(n) == [kind |-> "Block", head |-> n, body |-> <<>>, other |-> <<>>, end |-> ""]

IfElse(n, then, else) ==
    [kind |-> "IfElse", head |-> n, body |-> then, other |-> else, end |-> ""]

Loop(n, body, end) ==
    [kind |-> "Loop", head |-> n, body |-> body, other |-> <<>>, end |-> end]

InTree == pass = "tree" /\ at <= Len(order)

Latch(h, n) == <<n, h>> \in back

\* An edge leaves the part of the order from the header to position j.
Exits(j) ==
    \E k \in 1 .. Len(Succ(graph, order[j])) :
        LET t == Succ(graph, order[j])[k]
        IN  /\ Forward(order[j], k)
            /\ \A i \in at .. j : order[i] # t

\* build_loop stops after the first latch or the first exit it meets.
LoopEnds ==
    {j \in at + 1 .. Len(order) : Latch(order[at], order[j]) \/ Exits(j)}

LoopLast ==
    IF LoopEnds = {} THEN Len(order)
    ELSE CHOOSE j \in LoopEnds : \A i \in LoopEnds : j <= i

\* Mutation: the header is not counted as consumed.
AfterLoopBody == LoopLast

AfterLoop == LoopLast + 1

BuildLoop ==
    /\ InTree /\ order[at] \in Headers
    /\ tree' = Append(tree,
                 Loop(order[at], SubSeq(order, at + 1, LoopLast),
                      IF LoopEnds = {} THEN ""
                      ELSE IF Latch(order[at], order[LoopLast]) THEN "Continue"
                      ELSE "Break"))
    /\ at' = AfterLoop
    /\ UNCHANGED <<graph, pass, dfsVars, kahnVars, order>>

\* collect_arm walks the rest of the order, but takes a node only when it is
\* the target or already taken: the arm is the target, if it is still to come.
Arm(t) == IF \E j \in at + 1 .. Len(order) : order[j] = t THEN <<t>> ELSE <<>>

\* The length of the longer arm; an arm has one block at most.
ArmLength(then, else) == IF then # <<>> \/ else # <<>> THEN 1 ELSE 0

BuildIf ==
    /\ InTree /\ order[at] \notin Headers
    /\ graph[order[at]].kind = "Branch"
    /\ LET then == Arm(graph[order[at]].arms[1])
           else == Arm(graph[order[at]].arms[2])
       IN  /\ tree' = Append(tree, IfElse(order[at], then, else))
           /\ at' = at + 1 + ArmLength(then, else)
    /\ UNCHANGED <<graph, pass, dfsVars, kahnVars, order>>

BuildBlock ==
    /\ InTree /\ order[at] \notin Headers
    /\ graph[order[at]].kind # "Branch"
    /\ tree' = Append(tree, BlockNode(order[at]))
    /\ at' = at + 1
    /\ UNCHANGED <<graph, pass, dfsVars, kahnVars, order>>

EndTree ==
    /\ pass = "tree" /\ at > Len(order)
    /\ pass' = "done"
    /\ UNCHANGED <<graph, dfsVars, kahnVars, order, at, tree>>

\* The call has returned.
Returned == pass = "done" /\ UNCHANGED vars

Next ==
    \/ BackEdge \/ Descend \/ PassBy \/ Ascend \/ EndSearch
    \/ CountDegrees \/ PopFront \/ Relax \/ SkipBackEdge \/ Enqueue \/ AppendRest
    \/ BuildLoop \/ BuildIf \/ BuildBlock \/ EndTree
    \/ Returned

Spec == Init /\ [][Next]_vars
=============================================================================
