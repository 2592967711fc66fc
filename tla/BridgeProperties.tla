-------------------------- MODULE BridgeProperties --------------------------
(***************************************************************************)
(* What the bridge and its panels must guarantee.                          *)
(***************************************************************************)
EXTENDS Bridge

FileOf(l) == loads[l].file

\* Every value has its shape; fnMap and secMap are finite maps to pieces.
TypeOK ==
    /\ language \in Languages
    /\ loads \in Seq([file : Files, lang : Languages, alone : BOOLEAN])
    /\ Len(loads) <= MaxLoads
    /\ outcome \in [Loads -> Outcomes \cup {"pending"}]
    /\ sent \in [Loads -> Nat]
    /\ chan \in Seq(Event)
    /\ fnMap \in [DOMAIN fnMap -> Piece]
    /\ DOMAIN fnMap \subseteq Names
    /\ fnOrder \in Seq(Names)
    /\ secMap \in [DOMAIN secMap -> Piece]
    /\ DOMAIN secMap \subseteq Names
    /\ heard \in [Loads -> Seq([kind : Kinds, fn : Nat])]
    /\ ExplorerTypeOK
    /\ CodeTypeOK
    /\ GraphTypeOK

(***************************************************************************)
(* The channel between the tasks and the drain loop loses, duplicates and  *)
(* reorders nothing of a load, however the sends of several loads mix: of  *)
(* each load it holds exactly the events sent and not yet heard, in order. *)
(***************************************************************************)
ChannelInOrder ==
    /\ \A i \in 1 .. Len(chan) :
        /\ Len(heard[chan[i].load]) < chan[i].pos
        /\ chan[i].pos <= sent[chan[i].load]
    /\ \A i, j \in 1 .. Len(chan) :
        i < j /\ chan[i].load = chan[j].load => chan[i].pos < chan[j].pos
    /\ \A l \in Loads : \A p \in Len(heard[l]) + 1 .. sent[l] :
        \E i \in 1 .. Len(chan) : chan[i].load = l /\ chan[i].pos = p

(***************************************************************************)
(* A row of the function list and a section button always find something   *)
(* in the bridge's maps, so a click on them is never silently ignored      *)
(* (select_function and select_section do nothing for an unknown name).    *)
(***************************************************************************)
RowsAreSelectable ==
    /\ \A i \in 1 .. Len(rows) : rows[i] \in DOMAIN fnMap
    /\ \A i \in 1 .. Len(buttons) : buttons[i] \in DOMAIN secMap
    /\ \A i \in 1 .. Len(fnOrder) : fnOrder[i] \in DOMAIN fnMap

(***************************************************************************)
(* The explorer's list, cleared on AnalysisStarted, and the bridge's       *)
(* function_order, which is not, stay aligned: the rows are the last names *)
(* that were pushed, and the header counts them.                           *)
(***************************************************************************)
RowsEndTheOrder ==
    /\ fnCount = Len(rows)
    /\ Len(rows) <= Len(fnOrder)
    /\ \A i \in 1 .. Len(rows) :
        rows[i] = fnOrder[Len(fnOrder) - Len(rows) + i]

\* The listeners heard how the load ended.
Settled(l) ==
    \E i \in 1 .. Len(heard[l]) :
        heard[l][i].kind \in {"AnalysisDone", "AnalysisError"}

\* "Analysing binary" on the code panel means that a load has not settled.
PlaceholderMeansWaiting ==
    text.kind = "Analysing" => \E l \in 1 .. Len(loads) : ~Settled(l)

\* The placeholder does not stay for ever, whatever the user does meanwhile.
PlaceholderGoesAway == text.kind = "Analysing" ~> text.kind # "Analysing"

\* The listeners of the bridge get the feed promised by AnalysisFeed.
Feed == INSTANCE AnalysisFeed WITH
            started <- [l \in 1 .. Len(loads) |-> loads[l].file]

FeedSpec == Feed!FeedSpec

\* The part of it that says what may be heard, without the promise to finish.
FeedSafety == Feed!FeedSafety

-----------------------------------------------------------------------------
(* One load at a time: every load was made when all there is to hear of    *)
(* the earlier ones had been heard.                                        *)

OneAtATime == \A l \in 1 .. Len(loads) : loads[l].alone

PieceName(p) == FunctionsOf[FileOf(p.load)][p.fn]

(***************************************************************************)
(* When loads do not overlap, the panels follow the last file: sections as *)
(* soon as they are heard, all functions once the button is enabled, and   *)
(* the call graph, if any, is that of the file; rows and buttons lead to   *)
(* the file's own code and sections although the maps still hold those of  *)
(* earlier files; and the code panel shows a section of the file, or code  *)
(* in which every function that has a name of the file is the file's.      *)
(* Nothing is said of the other functions it shows: ScriptIsOfTheFile.     *)
(***************************************************************************)
SerialPanels ==
    LET l == Len(loads)
        own == FunctionsOf[FileOf(l)]
    IN  OneAtATime /\ l > 0 =>
        /\ buttons \in {<<>>, SectionsOf[FileOf(l)]}
        /\ IsPrefix(rows, own)
        /\ fullScript => rows = own
        /\ nodes # <<>> => nodes = NodesOf[FileOf(l)] /\ fullScript
        /\ Complete(l) /\ outcome[l] = "ok" => fullScript
        /\ \A i \in 1 .. Len(rows) : fnMap[rows[i]].load = l
        /\ \A i \in 1 .. Len(buttons) : secMap[buttons[i]].load = l
        /\ text.kind = "Section" => text.pieces[1].load = l
        /\ text.kind = "Code" =>
            \A i \in 1 .. Len(text.pieces) :
                \/ text.pieces[i].load = l
                \/ PieceName(text.pieces[i]) \notin ToSet(own)

(***************************************************************************)
(* What the enabled "full script" button would load is code of the file    *)
(* opened last.  The program does not keep this: function_order and the    *)
(* maps are cleared by an event that never enters the channel.             *)
(***************************************************************************)
ScriptIsOfTheFile ==
    OneAtATime /\ fullScript =>
        \A i \in 1 .. Len(fnOrder) : Script[i].load = Len(loads)
=============================================================================
