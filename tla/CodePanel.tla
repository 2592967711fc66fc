----------------------------- MODULE CodePanel -----------------------------
(***************************************************************************)
(* What the central code panel shows (rustdec-gui/src/ui/code.rs): which   *)
(* kind of text the buffer holds and, when it shows results, the pieces it *)
(* is made of.  The highlighter that walks over the buffer in idle time    *)
(* changes no text and is left out.                                        *)
(***************************************************************************)
EXTENDS BridgeEvents

VARIABLE text   \* the content of the TextBuffer

TextKinds == {"Welcome", "Analysing", "DonePrompt", "Error", "Code", "Section"}

Text == [kind : TextKinds, pieces : Seq(Piece)]

Plain(kind) == [kind |-> kind, pieces |-> <<>>]

CodeInit == text = Plain("Welcome")

\* AnalysisDone prompts the user only while the placeholder is still there.
CodeDone ==
    text' = IF text.kind = "Analysing" THEN Plain("DonePrompt") ELSE text

\* Mutation: an error is only logged.
CodeErrorLogged == UNCHANGED text

CodeError == text' = Plain("Error")

CodeOn(ev) ==
    \/ ev.kind = "AnalysisStarted" /\ text' = Plain("Analysing")
    \/ ev.kind = "AnalysisDone" /\ CodeDone
    \/ ev.kind = "AnalysisError" /\ CodeError
    \/ /\ ev.kind \in {"SectionsLoaded", "AnalysisFunctionReady", "CallGraphReady"}
       /\ UNCHANGED text

\* FunctionSelected and SectionSelected, emitted by the bridge's select_*.
ShowCode(pieces) == text' = [kind |-> "Code", pieces |-> pieces]

ShowSection(piece) == text' = [kind |-> "Section", pieces |-> <<piece>>]

CodeTypeOK == text \in Text
=============================================================================
