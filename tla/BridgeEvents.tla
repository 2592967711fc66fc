---------------------------- MODULE BridgeEvents ----------------------------
(***************************************************************************)
(* The vocabulary shared by the bridge and the panels of rustdec-gui: the  *)
(* files a user can open, what their analysis yields, and the BridgeEvents *)
(* a load emits.                                                           *)
(*                                                                         *)
(* The fields load and pos of an event are ghosts: the program's events    *)
(* carry only their kind and a payload, and no handler reads them.         *)
(***************************************************************************)
EXTENDS Naturals, Sequences

CONSTANTS
    Files,        \* binaries the user can open
    Names,        \* function, import and section names
    FunctionsOf,  \* [Files -> Seq(Names)]: what emit_module returns, in order
    SectionsOf,   \* [Files -> Seq(Names)]: the sections of the binary, in order
    NodesOf,      \* [Files -> Seq(Names)]: call-graph nodes, imports included
    Languages,    \* output languages of the drop-down
    MaxLoads      \* bound on the number of load_file calls

ASSUME CatalogAssumption ==
    /\ FunctionsOf \in [Files -> Seq(Names)]
    /\ SectionsOf \in [Files -> Seq(Names)]
    /\ NodesOf \in [Files -> Seq(Names)]
    /\ "C" \in Languages
    /\ MaxLoads \in Nat

Loads == 1 .. MaxLoads

Kinds == {"AnalysisStarted", "SectionsLoaded", "AnalysisFunctionReady",
          "AnalysisDone", "AnalysisError", "CallGraphReady"}

Event == [kind : Kinds, load : Loads, file : Files, fn : Nat, pos : Nat]

\* One piece of text the panels can show: the fn-th function (or section)
\* that the analysis started by the given load produced.
Piece == [load : Loads, fn : Nat]

-----------------------------------------------------------------------------
(* A definition called a mutation models a bug the code does not have: the *)
(* checker must find a property violated when it takes the place of the    *)
(* definition that follows it.                                             *)

(***************************************************************************)
(* The events a task sends once its analysis has ended: an error alone, or *)
(* the sections, the functions in order, AnalysisDone, CallGraphReady.     *)
(***************************************************************************)
\* Mutation: the call graph is not sent.
StreamLenNoGraph(f, outcome) ==
    IF outcome = "ok" THEN Len(FunctionsOf[f]) + 2 ELSE 1

StreamLen(f, outcome) ==
    IF outcome = "ok" THEN Len(FunctionsOf[f]) + 3 ELSE 1

StreamKind(f, outcome, n) ==
    IF outcome # "ok" THEN "AnalysisError"
    ELSE IF n = 1 THEN "SectionsLoaded"
    ELSE IF n <= Len(FunctionsOf[f]) + 1 THEN "AnalysisFunctionReady"
    ELSE IF n = Len(FunctionsOf[f]) + 2 THEN "AnalysisDone"
    ELSE "CallGraphReady"

StreamEvent(l, f, outcome, n) ==
    [kind |-> StreamKind(f, outcome, n),
     load |-> l, file |-> f,
     fn   |-> IF StreamKind(f, outcome, n) = "AnalysisFunctionReady"
              THEN n - 1 ELSE 0,
     pos  |-> n]

\* load_file tells the listeners itself; this event never enters the channel.
StartedEvent(l, f) ==
    [kind |-> "AnalysisStarted", load |-> l, file |-> f, fn |-> 0, pos |-> 0]
=============================================================================
