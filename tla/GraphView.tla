----------------------------- MODULE GraphView -----------------------------
(***************************************************************************)
(* The canvas of the call-graph panel (rustdec-gui/src/ui/graph.rs): what  *)
(* the pointer, the drag gesture and the wheel do to the view of a layout. *)
(***************************************************************************)
EXTENDS GraphLayout, Integers

CONSTANTS
    Viewed,    \* the programs whose graph the user moves about in
    Points,    \* where the pointer goes, <<x, y>> on the widget
    Drags,     \* how far a drag goes
    ScaleOne,  \* scale is in fractions of it; the factor of a notch is 2
    ScaleMax,  \* the clamp is 1 to ScaleMax
    MaxEvents  \* how many events the user causes

ASSUME ViewAssumption ==
    /\ Viewed \subseteq Programs
    /\ Points \subseteq Int \X Int /\ Drags \subseteq Int \X Int
    /\ ScaleOne \in Nat /\ ScaleMax \in Nat /\ ScaleOne \in 1 .. ScaleMax

VARIABLES
    shown,     \* the graph is on the canvas
    offset, scale, base,
    parts, baseParts,  \* offset and base are in fractions of a pixel, these many
    mouse, hovered, selected,
    dragging,  \* the drag gesture is under way
    panned,    \* the canvas moved since the pointer was last seen
    events

vars == <<layoutVars, shown, offset, scale, base, parts, baseParts,
          mouse, hovered, selected, dragging, panned, events>>

\* GraphState::default.
ViewInit ==
    /\ offset = <<0, 0>> /\ scale = ScaleOne /\ base = <<0, 0>>
    /\ parts = 1 /\ baseParts = 1
    /\ mouse = <<0, 0>> /\ hovered = 0 /\ selected = 0

Init ==
    /\ LayoutInit /\ ViewInit
    /\ shown = FALSE /\ dragging = FALSE /\ panned = FALSE /\ events = 0

-----------------------------------------------------------------------------
\* The widget point p on the canvas, times scale and parts.
OnCanvas(p) ==
    <<(p[1] * parts - offset[1]) * ScaleOne, (p[2] * parts - offset[2]) * ScaleOne>>

Contains(v, c) ==
    LET unit == scale * parts
    IN  /\ X(v) * unit <= c[1] /\ c[1] <= (X(v) + NodeW) * unit
        /\ Y(v) * unit <= c[2] /\ c[2] <= (Y(v) + Height(v)) * unit

\* hit_test: the first node at a point, 0 for none.
Hit(p) ==
    LET at == IF shown THEN {v \in Nodes : Contains(v, OnCanvas(p))} ELSE {}
    IN  IF at = {} THEN 0 ELSE CHOOSE v \in at : \A u \in at : v <= u

-----------------------------------------------------------------------------
User == stage = "done" /\ prog \in Viewed /\ events < MaxEvents /\ events' = events + 1

\* AnalysisStarted and CallGraphReady replace the whole state of the view.
Replace(graph) ==
    /\ stage = "done" /\ events < MaxEvents /\ events' = events + 1
    /\ shown' = graph
    /\ offset' = <<0, 0>> /\ scale' = ScaleOne /\ base' = <<0, 0>>
    /\ parts' = 1 /\ baseParts' = 1
    /\ mouse' = <<0, 0>> /\ hovered' = 0 /\ selected' = 0
    /\ panned' = FALSE
    /\ UNCHANGED <<layoutVars, dragging>>

Motion(p) ==
    /\ User
    /\ mouse' = p
    /\ hovered' = Hit(p)
    /\ panned' = FALSE
    /\ UNCHANGED <<layoutVars, shown, offset, scale, base, parts, baseParts, selected, dragging>>

Click(p) ==
    /\ User
    /\ selected' = Hit(p)
    /\ UNCHANGED <<layoutVars, shown, offset, scale, base, parts, baseParts,
                   mouse, hovered, dragging, panned>>

DragBegin ==
    /\ User /\ ~dragging
    /\ base' = offset /\ baseParts' = parts
    /\ dragging' = TRUE
    /\ UNCHANGED <<layoutVars, shown, offset, scale, parts, mouse, hovered, selected, panned>>

DragUpdate(d) ==
    /\ User /\ dragging
    /\ offset' = <<base[1] + d[1] * baseParts, base[2] + d[2] * baseParts>>
    /\ parts' = baseParts
    /\ panned' = TRUE
    /\ UNCHANGED <<layoutVars, shown, scale, base, baseParts, mouse, hovered, selected, dragging>>

\* Nobody listens to drag-end.
DragEnd ==
    /\ User /\ dragging
    /\ dragging' = FALSE
    /\ UNCHANGED <<layoutVars, shown, offset, scale, base, parts, baseParts,
                   mouse, hovered, selected, panned>>

Clamped(s) == IF s < 1 THEN 1 ELSE Lesser(s, ScaleMax)

\* Mutation: the point under the pointer is computed without the clamp.
PivotUnclamped(i, to, from) ==
    mouse[i] * parts * from - IF to > from THEN (mouse[i] * parts - offset[i]) * 2 * from
                              ELSE ((mouse[i] * parts - offset[i]) * from) \div 2

\* The canvas point under the pointer stays there: the new offset, in 1 / from
\* of the parts it was in.
Pivot(i, to, from) == mouse[i] * parts * from - (mouse[i] * parts - offset[i]) * to

Scroll(in) ==
    /\ User
    /\ scale' = Clamped(IF in THEN scale * 2 ELSE scale \div 2)
    /\ offset' = <<Pivot(1, scale', scale), Pivot(2, scale', scale)>>
    /\ parts' = parts * scale
    /\ UNCHANGED <<layoutVars, shown, base, baseParts, mouse, hovered, selected, dragging, panned>>

Next ==
    \/ LayoutNext /\ UNCHANGED <<shown, offset, scale, base, parts, baseParts,
                                 mouse, hovered, selected, dragging, panned, events>>
    \/ \E graph \in BOOLEAN : Replace(graph)
    \/ \E p \in Points : Motion(p) \/ Click(p)
    \/ DragBegin \/ DragEnd
    \/ \E d \in Drags : DragUpdate(d)
    \/ \E in \in BOOLEAN : Scroll(in)

Spec == Init /\ [][Next]_vars

-----------------------------------------------------------------------------
(* What the user must be able to rely on in the call graph.                *)

\* No two boxes touch, whatever their heights and however many share a layer:
\* a click, or the pointer, is on one node at most (graph.rs:463-497).
NodesApart ==
    stage = "done" =>
        \A u, v \in Nodes : u # v =>
            \/ X(u) + NodeW < X(v) \/ X(v) + NodeW < X(u)
            \/ Y(u) + Height(u) < Y(v) \/ Y(v) + Height(v) < Y(u)

\* The nodes on paths of edges from S.
From(S) ==
    LET f[k \in Nat] ==
            IF k = 0 THEN S ELSE f[k - 1] \cup UNION {Succs(u) : u \in f[k - 1]}
    IN  f[Len(names)]

Recursive == {u \in Nodes : u \in From(Succs(u))}

\* graph.rs:23-25: callers appear above callees, the whole box, but for
\* functions in or behind a recursion, which Kahn's order does not reach.
CallsGoDown ==
    stage = "done" =>
        \A e \in edges : e.from \notin From(Recursive) => Y(e.from) + Height(e.from) < Y(e.to)

Occurrences(i, n) == Cardinality({k \in 1 .. Len(prog[i].calls) : prog[i].calls[k] = n})

\* A function whose name no other has: each name it calls has one edge, to a
\* node of that name, with the number of its calls; names are told apart by
\* index, by name and by slot on the way (bridge.rs:343-383, graph.rs:330-375).
SitesAreCalls ==
    stage = "done" =>
        \A i \in Internal : (\A j \in Internal : prog[j].name = prog[i].name => j = i) =>
            /\ \A e \in edges : e.from = i => e.sites = Occurrences(i, names[e.to])
            /\ \A m \in CallsOf(i) :
                Cardinality({e \in edges : e.from = i /\ names[e.to] = m}) = 1

\* The highlighted node is the one under the pointer, whatever was zoomed,
\* until a drag moves the canvas: the wheel does not look for the node again,
\* so the point under the pointer must stay where it is (graph.rs:218-240).
HoverIsThere == ~panned => hovered = Hit(mouse)
=============================================================================
