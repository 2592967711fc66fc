----------------------------- MODULE GraphPanel -----------------------------
(***************************************************************************)
(* The call-graph panel (rustdec-gui/src/ui/graph.rs) as far as the bridge *)
(* sees it: the nodes on the canvas and the selected one.  The layout of   *)
(* the nodes is not part of this module.                                   *)
(***************************************************************************)
EXTENDS BridgeEvents

VARIABLES
    nodes,      \* full names of the nodes drawn, by index
    selected    \* index of the selected node, 0 for none

graphVars == <<nodes, selected>>

GraphInit == nodes = <<>> /\ selected = 0

GraphStarted == nodes' = <<>> /\ selected' = 0

\* Both handlers replace the whole GraphState, its selection included.
GraphOn(ev) ==
    \/ ev.kind = "AnalysisStarted" /\ GraphStarted
    \/ ev.kind = "CallGraphReady" /\ nodes' = NodesOf[ev.file] /\ selected' = 0
    \/ /\ ev.kind \in {"SectionsLoaded", "AnalysisFunctionReady",
                       "AnalysisDone", "AnalysisError"}
       /\ UNCHANGED graphVars

\* A click on node i (0: on the background).
GraphClick(i) == selected' = i /\ UNCHANGED nodes

GraphTypeOK ==
    /\ nodes \in Seq(Names)
    /\ selected \in 0 .. Len(nodes)
=============================================================================
