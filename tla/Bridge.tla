------------------------------- MODULE Bridge -------------------------------
(***************************************************************************)
(* rustdec-gui/src/bridge.rs: the analysis bridge between the GTK thread   *)
(* and the Tokio runtime.  One GTK thread runs the user's callbacks and    *)
(* the future that drains the channel, one callback or one event at a      *)
(* time; every load_file spawns a task of its own that runs the analysis   *)
(* on a blocking thread and then sends its events one by one.  Nothing     *)
(* ties the tasks together: there is no cancellation, no session number    *)
(* and no limit on how many run.                                           *)
(*                                                                         *)
(* Panels are subscribers: their On(ev) actions are conjoined with the     *)
(* step that dispatches the event.                                         *)
(***************************************************************************)
EXTENDS BridgeEvents, Explorer, CodePanel, GraphPanel, SequencesExt

VARIABLES
    language,   \* the language the next load_file will use
    loads,      \* the load_file calls made: the file and the language each
                \* task captured and, a ghost, whether it was made alone
    outcome,    \* how the blocking part of each task ended, or "pending"
    sent,       \* how many of its events each task has sent
    chan,       \* the unbounded async_channel
    fnMap,      \* function_map: name -> piece of code
    fnOrder,    \* function_order: names in the order they were pushed
    secMap,     \* section_map: name -> section
    heard       \* ghost: what the listeners heard of each load

taskVars == <<language, loads, outcome, sent>>
mapVars == <<fnMap, fnOrder, secMap>>
vars == <<language, loads, outcome, sent, chan, fnMap, fnOrder, secMap, heard,
          rows, buttons, fnCount, fullScript, text, nodes, selected>>

Outcomes == {"ok", "error", "panic"}

EmptyMap == [n \in {} |-> n]

MapInsert(map, name, piece) ==
    [n \in DOMAIN map \cup {name} |-> IF n = name THEN piece ELSE map[n]]

BridgeInit ==
    /\ language = "C"
    /\ loads = <<>>
    /\ outcome = [l \in Loads |-> "pending"]
    /\ sent = [l \in Loads |-> 0]
    /\ chan = <<>>
    /\ fnMap = EmptyMap
    /\ fnOrder = <<>>
    /\ secMap = EmptyMap
    /\ heard = [l \in Loads |-> <<>>]

Init == BridgeInit /\ ExplorerInit /\ CodeInit /\ GraphInit

Dispatch(ev) == ExplorerOn(ev) /\ CodeOn(ev) /\ GraphOn(ev)

-----------------------------------------------------------------------------
(* The user, on the GTK thread.                                            *)

SetLanguage(lang) ==
    /\ lang # language
    /\ language' = lang
    /\ UNCHANGED <<loads, outcome, sent, chan, mapVars, heard,
                   explorerVars, text, graphVars>>

\* The listeners heard all there is to hear of the load.
Complete(l) ==
    /\ outcome[l] # "pending"
    /\ Len(heard[l]) = StreamLen(loads[l].file, outcome[l])

AllComplete == \A l \in 1 .. Len(loads) : Complete(l)

\* load_file: capture the language, tell the listeners, spawn the task.
LoadFile(f) ==
    /\ Len(loads) < MaxLoads
    /\ loads' = Append(loads, [file  |-> f, lang |-> language,
                                   alone |-> AllComplete])
    /\ Dispatch(StartedEvent(Len(loads) + 1, f))
    /\ UNCHANGED <<language, outcome, sent, chan, mapVars, heard>>

SelectFunction(name) ==
    IF name \in DOMAIN fnMap THEN ShowCode(<<fnMap[name]>>) ELSE UNCHANGED text

ActivateRow(i) ==
    /\ SelectFunction(rows[i])
    /\ UNCHANGED <<taskVars, chan, mapVars, heard, explorerVars, graphVars>>

ClickNode(i) ==
    /\ GraphClick(i)
    /\ IF i = 0 THEN UNCHANGED text ELSE SelectFunction(nodes[i])
    /\ UNCHANGED <<taskVars, chan, mapVars, heard, explorerVars>>

\* select_all_functions: the pieces of the names in order.  The code skips a
\* name the map does not know; there is none (RowsAreSelectable).
Script == [i \in 1 .. Len(fnOrder) |-> fnMap[fnOrder[i]]]

ClickFullScript ==
    /\ fullScript
    /\ fnOrder # <<>>
    /\ ShowCode(Script)
    /\ UNCHANGED <<taskVars, chan, mapVars, heard, explorerVars, graphVars>>

ClickSection(i) ==
    /\ IF buttons[i] \in DOMAIN secMap THEN ShowSection(secMap[buttons[i]])
                                       ELSE UNCHANGED text
    /\ UNCHANGED <<taskVars, chan, mapVars, heard, explorerVars, graphVars>>

-----------------------------------------------------------------------------
(* The tasks, on Tokio threads.                                            *)

\* The blocking closure returns Ok or Err, or panics (a JoinError).
AnalysisEnds(l, o) ==
    /\ l \in 1 .. Len(loads)
    /\ outcome[l] = "pending"
    /\ outcome' = [outcome EXCEPT ![l] = o]
    /\ UNCHANGED <<language, loads, sent, chan, mapVars, heard,
                   explorerVars, text, graphVars>>

\* Mutation: a bounded channel that drops what does not fit.
QueuedIfRoom(ev) == IF Len(chan) < 2 THEN Append(chan, ev) ELSE chan

Queued(ev) == Append(chan, ev)

Send(l) ==
    /\ l \in 1 .. Len(loads)
    /\ outcome[l] # "pending"
    /\ sent[l] < StreamLen(loads[l].file, outcome[l])
    /\ sent' = [sent EXCEPT ![l] = @ + 1]
    /\ chan' = Queued(StreamEvent(l, loads[l].file, outcome[l], sent[l] + 1))
    /\ UNCHANGED <<language, loads, outcome, mapVars, heard,
                   explorerVars, text, graphVars>>

-----------------------------------------------------------------------------
(* The drain future, on the GTK thread: first the maps, then the listeners. *)

\* Inserting the sections one by one leaves the last one of each name.
LastIndexOf(names, n) == Max({i \in 1 .. Len(names) : names[i] = n})

PutSections(ev) ==
    LET names == SectionsOf[ev.file]
    IN  /\ secMap' = [n \in DOMAIN secMap \cup ToSet(names) |->
                        IF n \in ToSet(names)
                        THEN [load |-> ev.load,
                              fn   |-> LastIndexOf(names, n)]
                        ELSE secMap[n]]
        /\ UNCHANGED <<fnMap, fnOrder>>

\* Mutations: the maps start afresh with the first function of a load; a name
\* enters the order once; a name the map knows keeps its piece.
PutFunctionAfresh(ev) ==
    LET name == FunctionsOf[ev.file][ev.fn]
    IN  /\ fnMap' = MapInsert(IF ev.fn = 1 THEN EmptyMap ELSE fnMap, name,
                              [load |-> ev.load, fn |-> ev.fn])
        /\ fnOrder' = IF ev.fn = 1 THEN <<name>> ELSE Append(fnOrder, name)
        /\ UNCHANGED secMap

PutFunctionOnce(ev) ==
    LET name == FunctionsOf[ev.file][ev.fn]
    IN  /\ fnMap' = MapInsert(fnMap, name, [load |-> ev.load, fn |-> ev.fn])
        /\ fnOrder' = IF name \in DOMAIN fnMap THEN fnOrder ELSE Append(fnOrder, name)
        /\ UNCHANGED secMap

PutFunctionIfNew(ev) ==
    LET name == FunctionsOf[ev.file][ev.fn]
    IN  /\ fnMap' = IF name \in DOMAIN fnMap THEN fnMap
                    ELSE MapInsert(fnMap, name, [load |-> ev.load, fn |-> ev.fn])
        /\ fnOrder' = Append(fnOrder, name)
        /\ UNCHANGED secMap

PutFunction(ev) ==
    LET name == FunctionsOf[ev.file][ev.fn]
    IN  /\ fnMap' = MapInsert(fnMap, name, [load |-> ev.load, fn |-> ev.fn])
        /\ fnOrder' = Append(fnOrder, name)
        /\ UNCHANGED secMap

ClearMaps ==
    /\ fnMap' = EmptyMap
    /\ fnOrder' = <<>>
    /\ secMap' = EmptyMap

\* The first arm is in the code, but load_file never sends AnalysisStarted
\* through the channel.
UpdateMaps(ev) ==
    CASE ev.kind = "AnalysisStarted" -> ClearMaps
      [] ev.kind = "SectionsLoaded" -> PutSections(ev)
      [] ev.kind = "AnalysisFunctionReady" -> PutFunction(ev)
      [] OTHER -> UNCHANGED mapVars

Drain ==
    /\ chan # <<>>
    /\ LET ev == Head(chan)
       IN  /\ UpdateMaps(ev)
           /\ Dispatch(ev)
           /\ heard' = [heard EXCEPT ![ev.load] =
                            Append(@, [kind |-> ev.kind, fn |-> ev.fn])]
    /\ chan' = Tail(chan)
    /\ UNCHANGED taskVars

-----------------------------------------------------------------------------

Browse ==
    \/ \E lang \in Languages : SetLanguage(lang)
    \/ \E i \in 1 .. Len(rows) : ActivateRow(i)
    \/ \E i \in 0 .. Len(nodes) : ClickNode(i)
    \/ \E i \in 1 .. Len(buttons) : ClickSection(i)
    \/ ClickFullScript

UserStep == Browse \/ \E f \in Files : LoadFile(f)

SystemStep ==
    \/ \E l \in Loads, o \in Outcomes : AnalysisEnds(l, o)
    \/ \E l \in Loads : Send(l)
    \/ Drain

Next == UserStep \/ SystemStep

\* Tokio polls every runnable task and a blocking analysis returns; the GTK
\* main loop keeps polling the drain future.  The user owes nothing.
Fairness ==
    /\ \A l \in Loads : WF_vars(\E o \in Outcomes : AnalysisEnds(l, o))
    /\ \A l \in Loads : WF_vars(Send(l))
    /\ WF_vars(Drain)

Spec == Init /\ [][Next]_vars

FairSpec == Spec /\ Fairness
=============================================================================
