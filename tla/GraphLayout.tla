---------------------------- MODULE GraphLayout ----------------------------
(***************************************************************************)
(* From the functions of a program to boxes on the canvas:                 *)
(* extract_call_graph (rustdec-gui/src/bridge.rs) and layout               *)
(* (rustdec-gui/src/ui/graph.rs).  A node is its slot; names are numbers,  *)
(* in the order of the names.                                              *)
(***************************************************************************)
EXTENDS Naturals, Sequences, FiniteSets

CONSTANTS
    Programs,  \* sequences of functions
    NodeW, NodeHMin, StmtPerPx, NodeHMax, HGap, VGap, Pad,
    Unit       \* the ranks of a layer are multiples of it, so that means are whole

\* A function: its statements, and the names its calls have after lifting.
Function == [name : Nat, stmts : Nat, calls : Seq(Nat)]

ASSUME LayoutAssumption ==
    /\ Programs \subseteq Seq(Function)
    /\ NodeW \in Nat /\ NodeHMin \in Nat /\ NodeHMax \in Nat
    /\ HGap \in Nat \ {0} /\ VGap \in Nat \ {0} /\ Pad \in Nat \ {0}
    /\ StmtPerPx \in Nat \ {0} /\ Unit \in Nat \ {0}

VARIABLES
    prog,    \* the functions of the module
    stage,   \* what layout is about to do
    names,   \* all_names: the functions, then the external callees
    edges,   \* layout_edges: the set of [from, to, sites]
    inDeg, queue, topo,
    level,   \* the layer of each node
    rank,    \* x_rank, times Unit
    place,   \* the position of each node in its layer
    layer,   \* the next layer of a loop over layers
    layerY   \* the top of each layer placed so far

layoutVars == <<prog, stage, names, edges, inDeg, queue, topo, level, rank, place, layer, layerY>>

Nodes == 1 .. Len(names)

Internal == 1 .. Len(prog)

LayoutInit ==
    /\ prog \in Programs
    /\ stage = "extract"
    /\ names = <<>> /\ edges = {}
    /\ inDeg = <<>> /\ queue = <<>> /\ topo = <<>>
    /\ level = <<>> /\ rank = <<>> /\ place = <<>>
    /\ layer = 1 /\ layerY = <<>>

-----------------------------------------------------------------------------
(* extract_call_graph, and steps 1 and 2 of layout.                        *)

Named(n) == {i \in Internal : prog[i].name = n}

\* name_to_idx: of two functions with one name the later stays.
LastNamed(n) == CHOOSE i \in Named(n) : \A j \in Named(n) : j <= i

CallsOf(i) == {prog[i].calls[k] : k \in 1 .. Len(prog[i].calls)}

\* Mutation: the counts are kept by callee only.
SitesOfAll(i, m) ==
    Cardinality(UNION {{<<j, k>> : k \in {x \in 1 .. Len(prog[j].calls) : prog[j].calls[x] = m}} :
                            j \in Internal})

\* site_map: the calls of m in all functions with the name of function i.
Sites(i, m) ==
    Cardinality(UNION {{<<j, k>> : k \in {x \in 1 .. Len(prog[j].calls) : prog[j].calls[x] = m}} :
                            j \in Named(prog[i].name)})

\* build_call_graph has the callees of the last function of each name; the
\* edges are sorted by caller and callee.
Callers == {LastNamed(prog[i].name) : i \in Internal}

External == UNION {{m \in CallsOf(i) : Named(m) = {}} : i \in Callers}

\* A callee without a slot gets the next when the first edge to it comes.
ComesBefore(m, n) ==
    \E i \in Callers : /\ m \in CallsOf(i)
                       /\ \A j \in Callers : n \in CallsOf(j) => i < j \/ (i = j /\ m < n)

SlotOf(m) ==
    IF Named(m) # {} THEN LastNamed(m)
    ELSE Len(prog) + 1 + Cardinality({n \in External : n # m /\ ComesBefore(n, m)})

Extract ==
    /\ stage = "extract"
    /\ names' = [s \in 1 .. Len(prog) + Cardinality(External) |->
                    IF s \in Internal THEN prog[s].name
                    ELSE CHOOSE m \in External : SlotOf(m) = s]
    /\ edges' = UNION {{[from |-> i, to |-> SlotOf(m), sites |-> Sites(i, m)] : m \in CallsOf(i)} :
                            i \in Callers}
    /\ stage' = "degrees"
    /\ UNCHANGED <<prog, inDeg, queue, topo, level, rank, place, layer, layerY>>

Preds(v) == {e.from : e \in {x \in edges : x.to = v}}
Succs(u) == {e.to : e \in {x \in edges : x.from = u}}

-----------------------------------------------------------------------------
(* Steps 3 and 4: Kahn's order and layers.                                 *)

\* s lists the members of S, those with the smaller key first.
Lists(s, S, key) ==
    /\ {s[i] : i \in 1 .. Len(s)} = S
    /\ \A i, j \in 1 .. Len(s) : i < j => key[s[i]] < key[s[j]]

Index == [i \in Nodes |-> i]

CountDegrees ==
    /\ stage = "degrees"
    /\ inDeg' = [v \in Nodes |-> Cardinality(Preds(v))]
    /\ LET roots == {v \in Nodes : Preds(v) = {}}
       IN  \E q \in [1 .. Cardinality(roots) -> roots] : Lists(q, roots, Index) /\ queue' = q
    /\ stage' = "kahn"
    /\ UNCHANGED <<prog, names, edges, topo, level, rank, place, layer, layerY>>

PopFront ==
    /\ stage = "kahn" /\ queue # <<>>
    /\ LET u == Head(queue)
           free == {v \in Succs(u) : inDeg[v] = 1}
       IN  /\ topo' = Append(topo, u)
           /\ inDeg' = [v \in Nodes |-> IF v \in Succs(u) THEN inDeg[v] - 1 ELSE inDeg[v]]
           \* the successors come in the order of their names
           /\ \E q \in [1 .. Cardinality(free) -> free] :
                Lists(q, free, names) /\ queue' = Tail(queue) \o q
    /\ UNCHANGED <<prog, stage, names, edges, level, rank, place, layer, layerY>>

Placed == {topo[i] : i \in 1 .. Len(topo)}

\* What no root leads to without a cycle on the way, in the order of the slots.
AppendRest ==
    /\ stage = "kahn" /\ queue = <<>>
    /\ \E q \in [1 .. Cardinality(Nodes \ Placed) -> Nodes \ Placed] :
            Lists(q, Nodes \ Placed, Index) /\ topo' = topo \o q
    /\ level' = [v \in Nodes |-> 0]
    /\ layer' = 1
    /\ stage' = "levels"
    /\ UNCHANGED <<prog, names, edges, inDeg, queue, rank, place, layerY>>

Greatest(S) == CHOOSE m \in S : \A n \in S : n <= m

\* Mutation: a node goes below the first of its callers.
BelowLowest(v) ==
    IF Preds(v) = {} THEN 0
    ELSE 1 + CHOOSE m \in {level[u] : u \in Preds(v)} : \A u \in Preds(v) : m <= level[u]

Below(v) == IF Preds(v) = {} THEN 0 ELSE 1 + Greatest({level[u] : u \in Preds(v)})

AssignLevel ==
    /\ stage = "levels" /\ layer <= Len(topo)
    /\ level' = [level EXCEPT ![topo[layer]] = Below(topo[layer])]
    /\ layer' = layer + 1
    /\ UNCHANGED <<prog, stage, names, edges, inDeg, queue, topo, rank, place, layerY>>

Isolated(v) == Preds(v) = {} /\ Succs(v) = {}

\* Steps 5 and 6 start: functions without edges share a layer of their own.
GroupLayers ==
    /\ stage = "levels" /\ layer > Len(topo)
    /\ LET bottom == Greatest({0} \cup {level[v] : v \in {u \in Nodes : ~Isolated(u)}})
       IN  level' = [v \in Nodes |-> IF Isolated(v) THEN bottom + 1 ELSE level[v]]
    /\ rank' = [v \in Nodes |-> (v - 1) * Unit]
    /\ place' = [v \in Nodes |-> 0]
    /\ layer' = 0
    /\ stage' = "ranks"
    /\ UNCHANGED <<prog, names, edges, inDeg, queue, topo, layerY>>

-----------------------------------------------------------------------------
(* Step 6: the order inside each layer.                                    *)

MaxLevel == Greatest({0} \cup {level[v] : v \in Nodes})

Row(l) == {v \in Nodes : level[v] = l}

Total(S) ==
    LET sum[T \in SUBSET S] ==
            IF T = {} THEN 0 ELSE LET u == CHOOSE x \in T : TRUE IN rank[u] + sum[T \ {u}]
    IN  sum[S]

\* The mean over the callers in layers above; the first layer is not sorted.
Barycenter(v) ==
    LET above == {u \in Preds(v) : level[u] < level[v]}
    IN  IF level[v] = 0 \/ above = {} THEN rank[v] ELSE Total(above) \div Cardinality(above)

\* Mutation: nodes with one barycenter share a place.
SharesPlace(u, v, at) == at[u] < at[v]

\* sort_by is stable.
SortsBefore(u, v, at) == at[u] < at[v] \/ (at[u] = at[v] /\ u < v)

RankLayer ==
    /\ stage = "ranks" /\ layer <= MaxLevel
    /\ LET at == [v \in Row(layer) |-> Barycenter(v)]
           position(v) == Cardinality({u \in Row(layer) : SortsBefore(u, v, at)})
       IN  /\ place' = [v \in Nodes |-> IF v \in Row(layer) THEN position(v) ELSE place[v]]
           /\ rank' = [v \in Nodes |-> IF v \in Row(layer) /\ layer > 0
                                       THEN position(v) * Unit ELSE rank[v]]
    /\ layer' = layer + 1
    /\ UNCHANGED <<prog, stage, names, edges, inDeg, queue, topo, level, layerY>>

RanksDone ==
    /\ stage = "ranks" /\ layer > MaxLevel
    /\ layerY' = <<Pad>>
    /\ layer' = 1
    /\ stage' = "place"
    /\ UNCHANGED <<prog, names, edges, inDeg, queue, topo, level, rank, place>>

-----------------------------------------------------------------------------
(* Step 7: boxes.  layerY[l + 1] is the top of layer l.                    *)

Lesser(x, y) == IF x < y THEN x ELSE y

Height(v) ==
    IF v \in Internal THEN NodeHMin + Lesser(prog[v].stmts \div StmtPerPx, NodeHMax - NodeHMin)
    ELSE NodeHMin

Tallest(l) == Greatest({NodeHMin} \cup {Height(v) : v \in Row(l)})

PlaceLayer ==
    /\ stage = "place" /\ layer <= MaxLevel
    /\ layerY' = Append(layerY, layerY[layer] + Tallest(layer - 1) + VGap)
    /\ layer' = layer + 1
    /\ UNCHANGED <<prog, stage, names, edges, inDeg, queue, topo, level, rank, place>>

LayoutDone ==
    /\ stage = "place" /\ layer > MaxLevel
    /\ stage' = "done"
    /\ UNCHANGED <<prog, names, edges, inDeg, queue, topo, level, rank, place, layer, layerY>>

\* The left and the top of a box.
X(v) == Pad + place[v] * (NodeW + HGap)
Y(v) == layerY[level[v] + 1]

LayoutNext ==
    \/ Extract \/ CountDegrees \/ PopFront \/ AppendRest \/ AssignLevel \/ GroupLayers
    \/ RankLayer \/ RanksDone \/ PlaceLayer \/ LayoutDone
=============================================================================
