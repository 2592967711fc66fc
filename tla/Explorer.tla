------------------------------ MODULE Explorer ------------------------------
(***************************************************************************)
(* The explorer panel (rustdec-gui/src/ui/explorer.rs): the section        *)
(* buttons, the function list with its counter, and the "full script"      *)
(* button.  Every handler is a synchronous callback on the GTK thread, so  *)
(* On(ev) is one step, taken inside the step that dispatches the event.    *)
(***************************************************************************)
EXTENDS BridgeEvents

VARIABLES
    rows,        \* labels of the function list, top to bottom
    buttons,     \* names on the section buttons, top to bottom
    fnCount,     \* the counter of the header "FUNCTIONS (n)"
    fullScript   \* is the "full script" button sensitive?

explorerVars == <<rows, buttons, fnCount, fullScript>>

ExplorerInit ==
    /\ rows = <<>>
    /\ buttons = <<>>
    /\ fnCount = 0
    /\ fullScript = FALSE

ExplorerStarted ==
    /\ rows' = <<>>
    /\ buttons' = <<>>
    /\ fnCount' = 0
    /\ fullScript' = FALSE

ExplorerSections(ev) ==
    /\ buttons' = SectionsOf[ev.file]
    /\ UNCHANGED <<rows, fnCount, fullScript>>

ExplorerFunction(ev) ==
    /\ rows' = Append(rows, FunctionsOf[ev.file][ev.fn])
    /\ fnCount' = fnCount + 1
    /\ UNCHANGED <<buttons, fullScript>>

ExplorerDone ==
    /\ fullScript' = TRUE
    /\ UNCHANGED <<rows, buttons, fnCount>>

ExplorerOn(ev) ==
    \/ ev.kind = "AnalysisStarted" /\ ExplorerStarted
    \/ ev.kind = "SectionsLoaded" /\ ExplorerSections(ev)
    \/ ev.kind = "AnalysisFunctionReady" /\ ExplorerFunction(ev)
    \/ ev.kind = "AnalysisDone" /\ ExplorerDone
    \/ /\ ev.kind \in {"AnalysisError", "CallGraphReady"}
       /\ UNCHANGED explorerVars

ExplorerTypeOK ==
    /\ rows \in Seq(Names)
    /\ buttons \in Seq(Names)
    /\ fnCount \in Nat
    /\ fullScript \in BOOLEAN
=============================================================================
