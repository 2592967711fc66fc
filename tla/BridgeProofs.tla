---------------------------- MODULE BridgeProofs ----------------------------
(***************************************************************************)
(* Theorems about the bridge, for every catalogue of files, every set of   *)
(* languages and every number of loads: rows and maps, the order of the    *)
(* channel, the step by step refinement of AnalysisFeed, and what the      *)
(* panels show when one load follows the other.                            *)
(***************************************************************************)
EXTENDS BridgeProperties, SequenceTheorems, WellFoundedInduction, TLAPS

(***************************************************************************)
(* The events a task sends are well formed.                                *)
(***************************************************************************)
LEMMA StreamLenType ==
    ASSUME NEW f \in Files, NEW o \in Outcomes
    PROVE  StreamLen(f, o) \in Nat \ {0}
<1>1. Len(FunctionsOf[f]) \in Nat
    BY CatalogAssumption
<1> QED BY <1>1 DEF StreamLen

LEMMA StreamKindType ==
    ASSUME NEW f \in Files, NEW o \in Outcomes, NEW n \in 1 .. StreamLen(f, o)
    PROVE  /\ StreamKind(f, o, n) \in Kinds \ {"AnalysisStarted"}
           /\ StreamKind(f, o, n) = "AnalysisFunctionReady" =>
                n - 1 \in 1 .. Len(FunctionsOf[f])
<1>1. Len(FunctionsOf[f]) \in Nat
    BY CatalogAssumption
<1> QED BY <1>1 DEF StreamKind, StreamLen, Kinds

LEMMA StreamEventType ==
    ASSUME NEW l \in Loads, NEW f \in Files, NEW o \in Outcomes,
           NEW n \in 1 .. StreamLen(f, o)
    PROVE  /\ StreamEvent(l, f, o, n) \in Event
           /\ StreamEvent(l, f, o, n).load = l
           /\ StreamEvent(l, f, o, n).file = f
           /\ StreamEvent(l, f, o, n).pos = n
           /\ StreamEvent(l, f, o, n).kind # "AnalysisStarted"
           /\ StreamEvent(l, f, o, n).kind = "AnalysisFunctionReady" =>
                StreamEvent(l, f, o, n).fn \in 1 .. Len(FunctionsOf[f])
<1>1. n \in Nat /\ StreamLen(f, o) \in Nat /\ n >= 1
    BY StreamLenType
<1>2. Len(FunctionsOf[f]) \in Nat
    BY CatalogAssumption
<1>3. /\ StreamKind(f, o, n) \in Kinds \ {"AnalysisStarted"}
      /\ StreamKind(f, o, n) = "AnalysisFunctionReady" =>
            n - 1 \in 1 .. Len(FunctionsOf[f])
    BY StreamKindType
<1> QED BY <1>1, <1>2, <1>3 DEF StreamEvent, Event

LEMMA StartedEventType ==
    ASSUME NEW l \in Loads, NEW f \in Files
    PROVE  /\ StartedEvent(l, f) \in Event
           /\ StartedEvent(l, f).kind = "AnalysisStarted"
           /\ StartedEvent(l, f).load = l
           /\ StartedEvent(l, f).file = f
BY DEF StartedEvent, Event, Kinds

(***************************************************************************)
(* The last index of a name that occurs in a sequence is one of its        *)
(* indices and holds the name: what secMap keeps for a section.            *)
(***************************************************************************)
LEMMA MaxOfIndices ==
    ASSUME NEW n \in Nat, NEW I \in SUBSET (1 .. n), I # {}
    PROVE  Max(I) \in I
<1> DEFINE T == {k \in Nat : n - k \in I}
<1>1. T \subseteq Nat /\ T # {}
    <2>1. PICK i \in I : TRUE
        OBVIOUS
    <2>2. n - i \in Nat /\ n - (n - i) = i
        OBVIOUS
    <2> QED BY <2>1, <2>2
<1>2. PICK x \in T : \A y \in T : ~ (<<y, x>> \in OpToRel(<, Nat))
    <2> HIDE DEF T
    <2> QED BY <1>1, NatLessThanWellFounded, WFMin
<1>3. \A y \in T : ~ (y < x)
    BY <1>1, <1>2 DEF OpToRel
<1>4. n - x \in I /\ \A j \in I : n - x >= j
    <2>1. n - x \in I
        OBVIOUS
    <2>2. ASSUME NEW j \in I
          PROVE  n - x >= j
        <3>1. n - j \in T
            BY DEF T
        <3> QED BY <1>3, <2>1, <3>1
    <2> QED BY <2>1, <2>2
<1> QED BY <1>4 DEF Max

LEMMA LastIndex ==
    ASSUME NEW s \in Seq(Names), NEW m \in ToSet(s)
    PROVE  /\ LastIndexOf(s, m) \in 1 .. Len(s)
           /\ s[LastIndexOf(s, m)] = m
<1> DEFINE I == {i \in 1 .. Len(s) : s[i] = m}
<1>1. Len(s) \in Nat /\ DOMAIN s = 1 .. Len(s)
    OBVIOUS
<1>2. I # {} /\ I \in SUBSET (1 .. Len(s))
    BY <1>1 DEF ToSet
<1>3. Max(I) \in I
    <2> HIDE DEF I
    <2> QED BY <1>1, <1>2, MaxOfIndices
<1> QED BY <1>3 DEF LastIndexOf

-----------------------------------------------------------------------------
(***************************************************************************)
(* Type correctness.  The channel holds well-formed events only: of loads  *)
(* that were made, with the file of the load, and never AnalysisStarted.   *)
(***************************************************************************)
ChannelOK ==
    \A i \in 1 .. Len(chan) :
        /\ chan[i].load \in 1 .. Len(loads)
        /\ outcome[chan[i].load] # "pending"
        /\ chan[i].pos \in 1 .. StreamLen(FileOf(chan[i].load), outcome[chan[i].load])
        /\ chan[i] = StreamEvent(chan[i].load, FileOf(chan[i].load),
                                 outcome[chan[i].load], chan[i].pos)

TInv == TypeOK /\ ChannelOK

LEMMA LoadRecordType ==
    ASSUME NEW f \in Files, language \in Languages
    PROVE  /\ [file |-> f, lang |-> language, alone |-> AllComplete]
                \in [file : Files, lang : Languages, alone : BOOLEAN]
           /\ [file |-> f, lang |-> language, alone |-> AllComplete].file = f
<1>1. AllComplete \in BOOLEAN
    BY DEF AllComplete
<1> QED BY <1>1

LEMMA FileOfLoad ==
    ASSUME loads \in Seq([file : Files, lang : Languages, alone : BOOLEAN]),
           NEW l \in 1 .. Len(loads)
    PROVE  loads[l].file \in Files
<1>1. loads[l] \in [file : Files, lang : Languages, alone : BOOLEAN]
    BY ElementOfSeq
<1> QED BY <1>1

LEMMA HeadOfChannel ==
    ASSUME TInv, chan # <<>>
    PROVE  /\ 1 \in 1 .. Len(chan)
           /\ Head(chan) = chan[1]
           /\ Head(chan) \in Event
           /\ Head(chan).kind # "AnalysisStarted"
           /\ Head(chan).load \in 1 .. Len(loads)
           /\ Head(chan).load \in Loads
           /\ Head(chan).file = FileOf(Head(chan).load)
           /\ Head(chan).kind = "AnalysisFunctionReady" =>
                Head(chan).fn \in 1 .. Len(FunctionsOf[Head(chan).file])
<1> USE DEF TInv, TypeOK
<1>1. chan \in Seq(Event) /\ Len(chan) \in Nat /\ 1 \in 1 .. Len(chan) /\ Head(chan) = chan[1]
    BY EmptySeq
<1> DEFINE l == chan[1].load
           p == chan[1].pos
<1>2. /\ l \in 1 .. Len(loads)
      /\ outcome[l] # "pending"
      /\ p \in 1 .. StreamLen(FileOf(l), outcome[l])
      /\ chan[1] = StreamEvent(l, FileOf(l), outcome[l], p)
    BY <1>1 DEF ChannelOK
<1>3. l \in Loads /\ Len(loads) \in Nat
    BY <1>2, CatalogAssumption DEF Loads
<1>4. FileOf(l) \in Files /\ outcome[l] \in Outcomes
    <2>1. loads \in Seq([file : Files, lang : Languages, alone : BOOLEAN])
        OBVIOUS
    <2>2. outcome \in [Loads -> Outcomes \cup {"pending"}]
        OBVIOUS
    <2>3. loads[l].file \in Files
        BY <1>2, <2>1, FileOfLoad
    <2> HIDE DEF TInv, TypeOK
    <2> QED BY <1>2, <1>3, <2>2, <2>3 DEF FileOf
<1>5. /\ chan[1] \in Event
      /\ chan[1].file = FileOf(l)
      /\ chan[1].kind # "AnalysisStarted"
      /\ chan[1].kind = "AnalysisFunctionReady" =>
            chan[1].fn \in 1 .. Len(FunctionsOf[FileOf(l)])
    <2> HIDE DEF l, p, TypeOK
    <2> QED BY <1>2, <1>3, <1>4, StreamEventType
<1> QED BY <1>1, <1>2, <1>3, <1>5

\* Dispatching any event to the three panels preserves their types.
LEMMA DispatchType ==
    ASSUME NEW ev \in Event, Dispatch(ev),
           ExplorerTypeOK, CodeTypeOK, GraphTypeOK,
           ev.kind = "AnalysisFunctionReady" =>
                ev.fn \in 1 .. Len(FunctionsOf[ev.file])
    PROVE  ExplorerTypeOK' /\ CodeTypeOK' /\ GraphTypeOK'
<1>1. ev.file \in Files
    BY DEF Event
<1>2. ExplorerTypeOK'
    <2> USE DEF ExplorerTypeOK
    <2>1. ExplorerOn(ev)
        BY DEF Dispatch
    <2>2. CASE ExplorerStarted
        <3>1. <<>> \in Seq(Names) /\ 0 \in Nat
            OBVIOUS
        <3> QED BY <2>2, <3>1, Zenon DEF ExplorerStarted
    <2>3. CASE ExplorerSections(ev)
        BY <1>1, <2>3, CatalogAssumption DEF ExplorerSections
    <2>4. CASE ev.kind = "AnalysisFunctionReady" /\ ExplorerFunction(ev)
        <3>1. FunctionsOf[ev.file][ev.fn] \in Names
            BY <1>1, <2>4, CatalogAssumption
        <3>2. rows' \in Seq(Names)
            BY <2>4, <3>1 DEF ExplorerFunction
        <3> QED BY <2>4, <3>2 DEF ExplorerFunction
    <2>5. CASE ExplorerDone
        BY <2>5 DEF ExplorerDone
    <2>6. CASE UNCHANGED explorerVars
        BY <2>6 DEF explorerVars
    <2> QED BY <2>1, <2>2, <2>3, <2>4, <2>5, <2>6, Zenon DEF ExplorerOn
<1>3. CodeTypeOK'
    <2>1. CodeOn(ev)
        BY DEF Dispatch
    <2>2. \A k \in TextKinds : Plain(k) \in Text
        BY DEF Plain, Text
    <2>3. {"Analysing", "DonePrompt", "Error"} \subseteq TextKinds
        BY DEF TextKinds
    <2> QED BY <2>1, <2>2, <2>3 DEF CodeOn, CodeTypeOK, CodeDone, CodeError
<1>4. GraphTypeOK'
    <2>1. GraphOn(ev)
        BY DEF Dispatch
    <2>2. NodesOf[ev.file] \in Seq(Names)
        BY <1>1, CatalogAssumption
    <2>3. \A s \in Seq(Names) : 0 \in 0 .. Len(s)
        OBVIOUS
    <2>4. <<>> \in Seq(Names)
        OBVIOUS
    <2>5. CASE nodes' = <<>> /\ selected' = 0
        BY <2>3, <2>4, <2>5 DEF GraphTypeOK
    <2>6. CASE nodes' = NodesOf[ev.file] /\ selected' = 0
        BY <2>2, <2>3, <2>6 DEF GraphTypeOK
    <2>7. CASE UNCHANGED graphVars
        BY <2>7 DEF GraphTypeOK, graphVars
    <2> QED BY <2>1, <2>5, <2>6, <2>7, Zenon DEF GraphOn, GraphStarted
<1> QED BY <1>2, <1>3, <1>4

(* The actions, one by one.                                                *)

LEMMA ChannelFrame ==
    ASSUME ChannelOK, chan' = chan, outcome' = outcome, loads' = loads
    PROVE  ChannelOK'
BY DEF ChannelOK, FileOf

LEMMA LoadFileType ==
    ASSUME TInv, NEW f \in Files, LoadFile(f)
    PROVE  TInv'
<1> DEFINE new == [file |-> f, lang |-> language, alone |-> AllComplete]
<1>1. /\ language \in Languages
      /\ loads \in Seq([file : Files, lang : Languages, alone : BOOLEAN])
      /\ Len(loads) \in Nat
      /\ MaxLoads \in Nat
    BY CatalogAssumption DEF TInv, TypeOK
<1>2. new \in [file : Files, lang : Languages, alone : BOOLEAN]
    BY <1>1, LoadRecordType
<1>3. loads' = Append(loads, new) /\ Len(loads) < MaxLoads
    BY DEF LoadFile
<1>4. /\ loads' \in Seq([file : Files, lang : Languages, alone : BOOLEAN])
      /\ Len(loads') = Len(loads) + 1
      /\ Len(loads') <= MaxLoads
      /\ \A i \in 1 .. Len(loads) : loads'[i] = loads[i]
    <2> HIDE DEF new
    <2> QED BY <1>1, <1>2, <1>3, AppendProperties
<1>5. ExplorerTypeOK' /\ CodeTypeOK' /\ GraphTypeOK'
    <2>1. Len(loads) + 1 \in Loads
        BY <1>1, <1>3 DEF Loads
    <2>2. Dispatch(StartedEvent(Len(loads) + 1, f))
        BY DEF LoadFile
    <2> QED BY <2>1, <2>2, StartedEventType, DispatchType DEF TInv, TypeOK
<1>6. UNCHANGED <<language, outcome, sent, chan, fnMap, fnOrder, secMap, heard>>
    BY DEF LoadFile, mapVars
<1>7. TypeOK'
    BY <1>4, <1>5, <1>6 DEF TInv, TypeOK
<1>8. ChannelOK'
    <2> SUFFICES ASSUME NEW i \in 1 .. Len(chan)
                 PROVE  /\ chan[i].load \in 1 .. Len(loads')
                        /\ outcome[chan[i].load] # "pending"
                        /\ FileOf(chan[i].load)' = FileOf(chan[i].load)
        BY <1>6 DEF ChannelOK, TInv, FileOf
    <2>1. chan[i].load \in 1 .. Len(loads) /\ outcome[chan[i].load] # "pending"
        BY DEF ChannelOK, TInv
    <2>2. loads'[chan[i].load] = loads[chan[i].load]
        BY <1>4, <2>1
    <2>3. chan[i].load \in 1 .. Len(loads')
        BY <1>1, <1>4, <2>1
    <2> QED BY <1>6, <2>1, <2>2, <2>3, Zenon DEF FileOf
<1> QED BY <1>7, <1>8 DEF TInv

LEMMA AnalysisEndsType ==
    ASSUME TInv, NEW l \in Loads, NEW o \in Outcomes, AnalysisEnds(l, o)
    PROVE  TInv'
<1> USE DEF AnalysisEnds, mapVars, explorerVars, graphVars
<1>1. outcome \in [Loads -> Outcomes \cup {"pending"}]
    BY DEF TInv, TypeOK
<1>2. outcome' \in [Loads -> Outcomes \cup {"pending"}]
    BY <1>1
<1>3. TypeOK'
    <2>1. ExplorerTypeOK' /\ CodeTypeOK' /\ GraphTypeOK'
        BY DEF TInv, TypeOK, ExplorerTypeOK, CodeTypeOK, GraphTypeOK
    <2> QED BY <1>2, <2>1 DEF TInv, TypeOK
<1>4. ChannelOK'
    <2>1. chan \in Seq(Event)
        BY DEF TInv, TypeOK
    <2>2. ASSUME NEW i \in 1 .. Len(chan)
          PROVE  outcome'[chan[i].load] = outcome[chan[i].load]
        <3>1. outcome[chan[i].load] # "pending"
            BY DEF ChannelOK, TInv
        <3>2. chan[i].load # l
            BY <3>1
        <3>3. chan[i].load \in Loads
            <4>1. chan[i] \in Event
                BY <2>1, ElementOfSeq
            <4> QED BY <4>1 DEF Event
        <3> QED BY <1>1, <3>2, <3>3
    <2> QED BY <2>2 DEF ChannelOK, FileOf, TInv
<1> QED BY <1>3, <1>4 DEF TInv

LEMMA SendType ==
    ASSUME TInv, NEW l \in Loads, Send(l)
    PROVE  TInv'
<1> DEFINE ev == StreamEvent(l, FileOf(l), outcome[l], sent[l] + 1)
<1>1. /\ l \in 1 .. Len(loads)
      /\ outcome[l] \in Outcomes
      /\ FileOf(l) \in Files
      /\ sent[l] + 1 \in 1 .. StreamLen(FileOf(l), outcome[l])
      /\ sent \in [Loads -> Nat]
      /\ chan \in Seq(Event)
    <2>1. /\ l \in 1 .. Len(loads)
          /\ outcome \in [Loads -> Outcomes \cup {"pending"}]
          /\ outcome[l] # "pending"
          /\ loads \in Seq([file : Files, lang : Languages, alone : BOOLEAN])
          /\ sent[l] < StreamLen(FileOf(l), outcome[l])
          /\ sent \in [Loads -> Nat]
          /\ chan \in Seq(Event)
        BY DEF TInv, TypeOK, Send, FileOf
    <2>2. FileOf(l) \in Files
        BY <2>1, FileOfLoad DEF FileOf
    <2>3. StreamLen(FileOf(l), outcome[l]) \in Nat
        BY <2>1, <2>2, StreamLenType
    <2> QED BY <2>1, <2>2, <2>3
<1>2. ev \in Event /\ ev.load = l /\ ev.pos = sent[l] + 1
    BY <1>1, StreamEventType
<1>3. chan' = Append(chan, ev)
    BY DEF Send, Queued, FileOf
<1>4. /\ chan' \in Seq(Event)
      /\ Len(chan') = Len(chan) + 1
      /\ Len(chan) \in Nat
      /\ \A i \in 1 .. Len(chan) : chan'[i] = chan[i]
      /\ chan'[Len(chan) + 1] = ev
    <2> HIDE DEF ev
    <2> QED BY <1>1, <1>2, <1>3, AppendProperties, LenProperties
<1>5. sent' \in [Loads -> Nat]
    BY <1>1 DEF Send
<1>6. UNCHANGED <<language, loads, outcome, fnMap, fnOrder, secMap, heard,
                  rows, buttons, fnCount, fullScript, text, nodes, selected>>
    BY DEF Send, mapVars, explorerVars, graphVars
<1>7. TypeOK'
    <2>1. ExplorerTypeOK' /\ CodeTypeOK' /\ GraphTypeOK'
        BY <1>6 DEF TInv, TypeOK, ExplorerTypeOK, CodeTypeOK, GraphTypeOK
    <2> QED BY <1>4, <1>5, <1>6, <2>1 DEF TInv, TypeOK
<1>8. ChannelOK'
    <2> SUFFICES ASSUME NEW i \in 1 .. Len(chan')
                 PROVE  /\ chan'[i].load \in 1 .. Len(loads)
                        /\ outcome[chan'[i].load] # "pending"
                        /\ chan'[i].pos \in 1 .. StreamLen(FileOf(chan'[i].load),
                                                           outcome[chan'[i].load])
                        /\ chan'[i] = StreamEvent(chan'[i].load, FileOf(chan'[i].load),
                                                  outcome[chan'[i].load], chan'[i].pos)
        BY <1>6 DEF ChannelOK, FileOf
    <2>1. CASE i = Len(chan) + 1
        <3>1. chan'[i] = ev /\ outcome[l] # "pending"
            BY <1>1, <1>4, <2>1 DEF Send
        <3>2. ev = StreamEvent(ev.load, FileOf(ev.load), outcome[ev.load], ev.pos)
            BY <1>2
        <3> HIDE DEF ev
        <3> QED BY <1>1, <1>2, <3>1, <3>2
    <2>2. CASE i \in 1 .. Len(chan)
        BY <1>4, <2>2 DEF ChannelOK, TInv
    <2> QED BY <1>4, <2>1, <2>2
<1> QED BY <1>7, <1>8 DEF TInv

\* Steps that change no more than the code panel and the selection.
PanelOnly ==
    UNCHANGED <<language, loads, outcome, sent, chan, fnMap, fnOrder, secMap,
                heard, rows, buttons, fnCount, fullScript, nodes>>

LEMMA PanelOnlyType ==
    ASSUME TInv, PanelOnly, text' \in Text, selected' \in 0 .. Len(nodes)
    PROVE  TInv'
<1>1. ChannelOK'
    BY ChannelFrame DEF TInv, PanelOnly
<1>2. ExplorerTypeOK' /\ CodeTypeOK' /\ GraphTypeOK'
    BY DEF TInv, TypeOK, PanelOnly, ExplorerTypeOK, CodeTypeOK, GraphTypeOK
<1> QED BY <1>1, <1>2 DEF TInv, TypeOK, PanelOnly

LEMMA TextType ==
    ASSUME NEW p \in Piece
    PROVE  /\ [kind |-> "Code", pieces |-> <<p>>] \in Text
           /\ [kind |-> "Section", pieces |-> <<p>>] \in Text
BY DEF Text, TextKinds

LEMMA SelectFunctionType ==
    ASSUME TypeOK, NEW n, SelectFunction(n)
    PROVE  text' \in Text
<1>1. CASE n \in DOMAIN fnMap
    <2>1. fnMap[n] \in Piece
        BY <1>1 DEF TypeOK
    <2>2. text' = [kind |-> "Code", pieces |-> <<fnMap[n]>>]
        BY <1>1 DEF SelectFunction, ShowCode
    <2> QED BY <2>1, <2>2, TextType
<1>2. CASE n \notin DOMAIN fnMap
    BY <1>2 DEF SelectFunction, TypeOK, CodeTypeOK
<1> QED BY <1>1, <1>2

\* The script is a text: every name of the order has a piece.
LEMMA ScriptType ==
    ASSUME TypeOK, RowsAreSelectable
    PROVE  Script \in Seq(Piece)
<1>1. fnOrder \in Seq(Names) /\ Len(fnOrder) \in Nat
    BY DEF TypeOK
<1>2. \A i \in 1 .. Len(fnOrder) : fnMap[fnOrder[i]] \in Piece
    BY DEF TypeOK, RowsAreSelectable
<1> QED BY <1>1, <1>2 DEF Script

LEMMA UserStepType ==
    ASSUME TInv, RowsAreSelectable, UserStep
    PROVE  TInv'
<1>1. CASE \E lang \in Languages : SetLanguage(lang)
    <2>1. PICK lang \in Languages : SetLanguage(lang)
        BY <1>1
    <2>2. ChannelOK'
        BY <2>1, ChannelFrame DEF SetLanguage, TInv
    <2>3. ExplorerTypeOK' /\ CodeTypeOK' /\ GraphTypeOK'
        BY <2>1 DEF SetLanguage, TInv, TypeOK, explorerVars, graphVars,
                    ExplorerTypeOK, CodeTypeOK, GraphTypeOK
    <2> QED BY <2>1, <2>2, <2>3 DEF SetLanguage, TInv, TypeOK, mapVars
<1>2. CASE \E f \in Files : LoadFile(f)
    BY <1>2, LoadFileType
<1>3. CASE \E i \in 1 .. Len(rows) : ActivateRow(i)
    <2>1. PICK i \in 1 .. Len(rows) : ActivateRow(i)
        BY <1>3
    <2>2. text' \in Text
        BY <2>1, SelectFunctionType DEF ActivateRow, TInv
    <2>3. PanelOnly /\ selected' \in 0 .. Len(nodes)
        BY <2>1 DEF ActivateRow, PanelOnly, taskVars, mapVars, explorerVars,
                    graphVars, TInv, TypeOK, GraphTypeOK
    <2> QED BY <2>2, <2>3, PanelOnlyType
<1>4. CASE \E i \in 0 .. Len(nodes) : ClickNode(i)
    <2>1. PICK i \in 0 .. Len(nodes) : ClickNode(i)
        BY <1>4
    <2>2. text' \in Text
        BY <2>1, SelectFunctionType DEF ClickNode, TInv, TypeOK, CodeTypeOK
    <2>3. PanelOnly /\ selected' \in 0 .. Len(nodes)
        BY <2>1 DEF ClickNode, GraphClick, PanelOnly, taskVars, mapVars,
                    explorerVars
    <2> QED BY <2>2, <2>3, PanelOnlyType
<1>5. CASE \E i \in 1 .. Len(buttons) : ClickSection(i)
    <2>1. PICK i \in 1 .. Len(buttons) : ClickSection(i)
        BY <1>5
    <2>2. secMap[buttons[i]] \in Piece
        BY DEF TInv, TypeOK, RowsAreSelectable
    <2>3. text' \in Text
        <3>1. [kind |-> "Section", pieces |-> <<secMap[buttons[i]]>>] \in Text
            BY <2>2, TextType
        <3> QED BY <2>1, <3>1 DEF ClickSection, ShowSection, TInv, TypeOK, CodeTypeOK
    <2>4. PanelOnly /\ selected' \in 0 .. Len(nodes)
        BY <2>1 DEF ClickSection, PanelOnly, taskVars, mapVars, explorerVars,
                    graphVars, TInv, TypeOK, GraphTypeOK
    <2> QED BY <2>3, <2>4, PanelOnlyType
<1>6. CASE ClickFullScript
    <2>1. text' \in Text
        BY <1>6, ScriptType DEF ClickFullScript, ShowCode, TInv, Text, TextKinds
    <2>2. PanelOnly /\ selected' \in 0 .. Len(nodes)
        BY <1>6 DEF ClickFullScript, PanelOnly, taskVars, mapVars, explorerVars,
                    graphVars, TInv, TypeOK, GraphTypeOK
    <2> QED BY <2>1, <2>2, PanelOnlyType
<1> QED BY <1>1, <1>2, <1>3, <1>4, <1>5, <1>6 DEF UserStep, Browse

\* The maps after an event: what they lose, keep and gain.
LEMMA MapsAfter ==
    ASSUME TInv, NEW ev \in Event, ev.kind # "AnalysisStarted", UpdateMaps(ev),
           ev.kind = "AnalysisFunctionReady" =>
                ev.fn \in 1 .. Len(FunctionsOf[ev.file])
    PROVE  \/ ev.kind = "SectionsLoaded" /\ PutSections(ev)
           \/ ev.kind = "AnalysisFunctionReady" /\ PutFunction(ev)
           \/ /\ ev.kind \notin {"SectionsLoaded", "AnalysisFunctionReady"}
              /\ UNCHANGED mapVars
BY DEF UpdateMaps

LEMMA MapsType ==
    ASSUME TInv, NEW ev \in Event, ev.kind # "AnalysisStarted", UpdateMaps(ev),
           ev.kind = "AnalysisFunctionReady" =>
                ev.fn \in 1 .. Len(FunctionsOf[ev.file])
    PROVE  /\ fnMap' \in [DOMAIN fnMap' -> Piece]
           /\ DOMAIN fnMap' \subseteq Names
           /\ fnOrder' \in Seq(Names)
           /\ secMap' \in [DOMAIN secMap' -> Piece]
           /\ DOMAIN secMap' \subseteq Names
<1>1. /\ fnMap \in [DOMAIN fnMap -> Piece]
      /\ DOMAIN fnMap \subseteq Names
      /\ fnOrder \in Seq(Names)
      /\ secMap \in [DOMAIN secMap -> Piece]
      /\ DOMAIN secMap \subseteq Names
    BY DEF TInv, TypeOK
<1>2. ev.file \in Files /\ ev.load \in Loads
    BY DEF Event
<1>3. CASE ev.kind = "SectionsLoaded" /\ PutSections(ev)
    <2> DEFINE names == SectionsOf[ev.file]
    <2>1. names \in Seq(Names)
        BY <1>2, CatalogAssumption
    <2>2. ToSet(names) \subseteq Names
        BY <2>1, ElementOfSeq DEF ToSet
    <2>3. \A n \in ToSet(names) : LastIndexOf(names, n) \in Nat
        <3> HIDE DEF names
        <3> QED BY <2>1, LastIndex
    <2>4. \A n \in ToSet(names) :
            [load |-> ev.load, fn |-> LastIndexOf(names, n)] \in Piece
        BY <1>2, <2>3 DEF Piece
    <2>5. /\ DOMAIN secMap' = DOMAIN secMap \cup ToSet(names)
          /\ \A n \in DOMAIN secMap' :
                secMap'[n] = IF n \in ToSet(names)
                             THEN [load |-> ev.load, fn |-> LastIndexOf(names, n)]
                             ELSE secMap[n]
          /\ secMap' = [n \in DOMAIN secMap' |-> secMap'[n]]
          /\ UNCHANGED <<fnMap, fnOrder>>
        BY <1>3 DEF PutSections
    <2> HIDE DEF names
    <2>6. secMap' \in [DOMAIN secMap' -> Piece]
        <3>1. \A n \in DOMAIN secMap' : secMap'[n] \in Piece
            BY <1>1, <2>4, <2>5
        <3> QED BY <2>5, <3>1
    <2> QED BY <1>1, <2>2, <2>5, <2>6
<1>4. CASE ev.kind = "AnalysisFunctionReady" /\ PutFunction(ev)
    <2> DEFINE name == FunctionsOf[ev.file][ev.fn]
               piece == [load |-> ev.load, fn |-> ev.fn]
    <2>1. name \in Names
        BY <1>2, <1>4, CatalogAssumption
    <2>2. piece \in Piece
        BY DEF Event, Piece
    <2>3. /\ fnMap' = MapInsert(fnMap, name, piece)
          /\ fnOrder' = Append(fnOrder, name)
          /\ secMap' = secMap
        BY <1>4 DEF PutFunction
    <2> HIDE DEF name, piece
    <2> QED BY <1>1, <2>1, <2>2, <2>3 DEF MapInsert
<1>5. CASE UNCHANGED mapVars
    BY <1>1, <1>5 DEF mapVars
<1> QED BY <1>3, <1>4, <1>5, MapsAfter

\* What Drain does to the channel and to the ghost.
LEMMA DrainFrame ==
    ASSUME TInv, Drain
    PROVE  /\ chan' \in Seq(Event)
           /\ Len(chan') = Len(chan) - 1
           /\ Len(chan) \in Nat \ {0}
           /\ \A i \in 1 .. Len(chan') : chan'[i] = chan[i + 1]
           /\ UNCHANGED <<language, loads, outcome, sent>>
           /\ heard' = [heard EXCEPT ![Head(chan).load] =
                Append(@, [kind |-> Head(chan).kind, fn |-> Head(chan).fn])]
<1>1. chan \in Seq(Event) /\ chan # <<>> /\ chan' = Tail(chan)
    BY DEF Drain, TInv, TypeOK
<1>2. UNCHANGED <<language, loads, outcome, sent>>
    BY DEF Drain, taskVars
<1> QED BY <1>1, <1>2, HeadTailProperties DEF Drain

LEMMA DrainType ==
    ASSUME TInv, Drain
    PROVE  TInv'
<1> DEFINE ev == Head(chan)
           said == [kind |-> ev.kind, fn |-> ev.fn]
<1>1. /\ ev \in Event
      /\ ev.kind # "AnalysisStarted"
      /\ ev.kind = "AnalysisFunctionReady" =>
            ev.fn \in 1 .. Len(FunctionsOf[ev.file])
      /\ ev.load \in Loads
    BY HeadOfChannel DEF Drain
<1>2. UpdateMaps(ev) /\ Dispatch(ev)
    BY DEF Drain
<1>3. /\ fnMap' \in [DOMAIN fnMap' -> Piece]
      /\ DOMAIN fnMap' \subseteq Names
      /\ fnOrder' \in Seq(Names)
      /\ secMap' \in [DOMAIN secMap' -> Piece]
      /\ DOMAIN secMap' \subseteq Names
    <2> HIDE DEF ev
    <2> QED BY <1>1, <1>2, MapsType
<1>4. ExplorerTypeOK' /\ CodeTypeOK' /\ GraphTypeOK'
    <2> HIDE DEF ev
    <2> QED BY <1>1, <1>2, DispatchType DEF TInv, TypeOK
<1>5. heard' \in [Loads -> Seq([kind : Kinds, fn : Nat])]
    <2>1. said \in [kind : Kinds, fn : Nat]
        BY <1>1 DEF Event
    <2>2. heard \in [Loads -> Seq([kind : Kinds, fn : Nat])]
        BY DEF TInv, TypeOK
    <2>3. heard' = [heard EXCEPT ![ev.load] = Append(@, said)]
        BY DrainFrame
    <2>4. Append(heard[ev.load], said) \in Seq([kind : Kinds, fn : Nat])
        <3>1. heard[ev.load] \in Seq([kind : Kinds, fn : Nat])
            BY <1>1, <2>2
        <3> HIDE DEF said
        <3> QED BY <2>1, <3>1, AppendProperties
    <2> HIDE DEF said, ev
    <2> QED BY <2>2, <2>3, <2>4
<1>6. TypeOK'
    BY <1>3, <1>4, <1>5, DrainFrame DEF TInv, TypeOK
<1>7. ChannelOK'
    <2> SUFFICES ASSUME NEW i \in 1 .. Len(chan')
                 PROVE  /\ chan'[i].load \in 1 .. Len(loads)
                        /\ outcome[chan'[i].load] # "pending"
                        /\ chan'[i].pos \in 1 .. StreamLen(FileOf(chan'[i].load),
                                                           outcome[chan'[i].load])
                        /\ chan'[i] = StreamEvent(chan'[i].load, FileOf(chan'[i].load),
                                                  outcome[chan'[i].load], chan'[i].pos)
        BY DrainFrame DEF ChannelOK, FileOf
    <2>1. i + 1 \in 1 .. Len(chan) /\ chan'[i] = chan[i + 1]
        BY DrainFrame
    <2> QED BY <2>1 DEF ChannelOK, TInv
<1> QED BY <1>6, <1>7 DEF TInv

-----------------------------------------------------------------------------
(***************************************************************************)
(* Only a new load and the drain loop touch the lists and the maps.        *)
(***************************************************************************)
LEMMA ListSteps ==
    ASSUME [Next]_vars
    PROVE  \/ UNCHANGED <<loads, fnMap, fnOrder, secMap, heard,
                         rows, buttons, fnCount, fullScript>>
           \/ \E f \in Files : LoadFile(f)
           \/ Drain
<1> DEFINE Same == UNCHANGED <<loads, fnMap, fnOrder, secMap, heard,
                               rows, buttons, fnCount, fullScript>>
<1> USE DEF mapVars, taskVars, explorerVars
<1>1. ASSUME NEW lang \in Languages, SetLanguage(lang) PROVE Same
    BY <1>1 DEF SetLanguage
<1>2. ASSUME NEW i, ActivateRow(i) PROVE Same
    BY <1>2 DEF ActivateRow
<1>3. ASSUME NEW i, ClickNode(i) PROVE Same
    BY <1>3 DEF ClickNode
<1>4. ASSUME NEW i, ClickSection(i) PROVE Same
    BY <1>4 DEF ClickSection
<1>5. ASSUME ClickFullScript PROVE Same
    BY <1>5 DEF ClickFullScript
<1>6. ASSUME NEW l, NEW o, AnalysisEnds(l, o) PROVE Same
    BY <1>6 DEF AnalysisEnds
<1>7. ASSUME NEW l, Send(l) PROVE Same
    BY <1>7 DEF Send
<1>8. ASSUME UNCHANGED vars PROVE Same
    BY <1>8 DEF vars
<1> HIDE DEF Same
<1>9. CASE UserStep
    BY <1>1, <1>2, <1>3, <1>4, <1>5, <1>9, Zenon DEF UserStep, Browse, Same
<1>10. CASE SystemStep
    BY <1>6, <1>7, <1>10, Zenon DEF SystemStep, Same
<1> QED BY <1>8, <1>9, <1>10 DEF Next, Same

\* The rows after an event, by its kind.
LEMMA RowsAfter ==
    ASSUME TInv, Drain
    PROVE  LET ev == Head(chan) IN
           \/ ev.kind = "SectionsLoaded" /\ PutSections(ev) /\ ExplorerSections(ev)
           \/ ev.kind = "AnalysisFunctionReady" /\ PutFunction(ev) /\ ExplorerFunction(ev)
           \/ UNCHANGED mapVars /\ ExplorerDone
           \/ UNCHANGED mapVars /\ UNCHANGED explorerVars
<1> DEFINE ev == Head(chan)
<1>1. /\ ev \in Event
      /\ ev.kind # "AnalysisStarted"
      /\ ev.kind = "AnalysisFunctionReady" =>
            ev.fn \in 1 .. Len(FunctionsOf[ev.file])
    BY HeadOfChannel DEF Drain
<1>2. UpdateMaps(ev) /\ ExplorerOn(ev)
    BY DEF Drain, Dispatch
<1> HIDE DEF ev
<1>3. \/ ev.kind = "SectionsLoaded" /\ PutSections(ev)
      \/ ev.kind = "AnalysisFunctionReady" /\ PutFunction(ev)
      \/ /\ ev.kind \notin {"SectionsLoaded", "AnalysisFunctionReady"}
         /\ UNCHANGED mapVars
    BY <1>1, <1>2, MapsAfter
<1>4. \/ ev.kind = "SectionsLoaded" /\ ExplorerSections(ev)
      \/ ev.kind = "AnalysisFunctionReady" /\ ExplorerFunction(ev)
      \/ ev.kind = "AnalysisDone" /\ ExplorerDone
      \/ ev.kind \in {"AnalysisError", "CallGraphReady"} /\ UNCHANGED explorerVars
    BY <1>1, <1>2 DEF ExplorerOn
<1>5. CASE ev.kind = "SectionsLoaded"
    BY <1>3, <1>4, <1>5 DEF ev
<1>6. CASE ev.kind = "AnalysisFunctionReady"
    BY <1>3, <1>4, <1>6 DEF ev
<1>7. CASE ev.kind \notin {"SectionsLoaded", "AnalysisFunctionReady"}
    BY <1>3, <1>4, <1>7 DEF ev
<1> QED BY <1>5, <1>6, <1>7

LEMMA InsertDomain ==
    ASSUME NEW m, NEW n, NEW p
    PROVE  DOMAIN MapInsert(m, n, p) = DOMAIN m \cup {n}
BY DEF MapInsert

LEMMA SelectableStep ==
    ASSUME TInv, RowsAreSelectable, [Next]_vars
    PROVE  RowsAreSelectable'
<1> USE DEF RowsAreSelectable
<1>1. CASE UNCHANGED <<loads, fnMap, fnOrder, secMap, heard,
                       rows, buttons, fnCount, fullScript>>
    BY <1>1
<1>2. CASE \E f \in Files : LoadFile(f)
    <2>1. UNCHANGED <<fnMap, fnOrder, secMap>> /\ rows' = <<>> /\ buttons' = <<>>
        BY <1>2 DEF LoadFile, mapVars, Dispatch, ExplorerOn, StartedEvent,
                    ExplorerStarted
    <2> QED BY <2>1
<1>3. CASE Drain
    <2> DEFINE ev == Head(chan)
               names == SectionsOf[ev.file]
               name == FunctionsOf[ev.file][ev.fn]
    <2>1. rows \in Seq(Names) /\ buttons \in Seq(Names) /\ fnOrder \in Seq(Names)
        BY DEF TInv, TypeOK, ExplorerTypeOK
    <2>2. CASE PutSections(ev) /\ ExplorerSections(ev)
        <3>1. names \in Seq(Names)
            BY <1>3, HeadOfChannel, CatalogAssumption DEF Drain, Event
        <3>2. \A i \in 1 .. Len(names) : names[i] \in ToSet(names)
            BY <3>1 DEF ToSet
        <3>3. DOMAIN secMap' = DOMAIN secMap \cup ToSet(names) /\ buttons' = names
              /\ UNCHANGED <<fnMap, fnOrder, rows>>
            BY <2>2 DEF PutSections, ExplorerSections
        <3> QED BY <3>2, <3>3
    <2>3. CASE PutFunction(ev) /\ ExplorerFunction(ev)
        <3>1. /\ DOMAIN fnMap' = DOMAIN fnMap \cup {name}
              /\ fnOrder' = Append(fnOrder, name)
              /\ rows' = Append(rows, name)
              /\ UNCHANGED <<secMap, buttons>>
            BY <2>3, InsertDomain DEF PutFunction, ExplorerFunction
        <3> HIDE DEF name
        <3> QED BY <2>1, <3>1
    <2>4. CASE UNCHANGED mapVars /\ UNCHANGED <<rows, buttons>>
        BY <2>4 DEF mapVars
    <2> QED BY <1>3, <2>2, <2>3, <2>4, RowsAfter DEF ExplorerDone, explorerVars
<1> QED BY <1>1, <1>2, <1>3, ListSteps

LEMMA TypeStep ==
    ASSUME TInv, RowsAreSelectable, [Next]_vars
    PROVE  TInv'
<1>1. CASE UserStep
    BY <1>1, UserStepType
<1>2. CASE SystemStep
    BY <1>2, AnalysisEndsType, SendType, DrainType DEF SystemStep
<1>3. CASE UNCHANGED vars
    <2>1. ChannelOK'
        BY <1>3, ChannelFrame DEF vars, TInv
    <2>2. ExplorerTypeOK' /\ CodeTypeOK' /\ GraphTypeOK'
        BY <1>3 DEF vars, TInv, TypeOK, ExplorerTypeOK, CodeTypeOK, GraphTypeOK
    <2> QED BY <1>3, <2>1, <2>2 DEF vars, TInv, TypeOK
<1> QED BY <1>1, <1>2, <1>3 DEF Next

LEMMA TypeInit ==
    ASSUME Init
    PROVE  TInv /\ RowsAreSelectable
<1> USE DEF Init, BridgeInit, ExplorerInit, CodeInit, GraphInit
<1>1. <<>> \in Seq(Names) /\ <<>> \in Seq(Event) /\ <<>> \in Seq(Piece)
      /\ <<>> \in Seq([kind : Kinds, fn : Nat])
      /\ <<>> \in Seq([file : Files, lang : Languages, alone : BOOLEAN])
    OBVIOUS
<1>2. ExplorerTypeOK /\ GraphTypeOK
    <2>1. 0 \in 0 .. Len(<<>>) /\ 0 \in Nat
        OBVIOUS
    <2> QED BY <1>1, <2>1, Zenon DEF ExplorerTypeOK, GraphTypeOK
<1>3. CodeTypeOK
    BY <1>1 DEF CodeTypeOK, Plain, Text, TextKinds
<1>4. TypeOK
    <2>1. fnMap \in [DOMAIN fnMap -> Piece] /\ DOMAIN fnMap \subseteq Names
        BY DEF EmptyMap
    <2>2. secMap \in [DOMAIN secMap -> Piece] /\ DOMAIN secMap \subseteq Names
        BY DEF EmptyMap
    <2>3. loads \in Seq([file : Files, lang : Languages, alone : BOOLEAN]) /\ Len(loads) <= MaxLoads
        BY CatalogAssumption
    <2> QED BY <1>1, <1>2, <1>3, <2>1, <2>2, <2>3, CatalogAssumption DEF TypeOK
<1>5. ChannelOK /\ RowsAreSelectable
    BY DEF ChannelOK, RowsAreSelectable
<1> QED BY <1>4, <1>5 DEF TInv

(***************************************************************************)
(* Type correctness and the click that always finds its target, for every  *)
(* catalogue of files, set of languages and number of loads.  The two are  *)
(* proved together: that the full script has a type needs every name of    *)
(* function_order to be in function_map.                                   *)
(***************************************************************************)
THEOREM TypeAndSelection == Spec => [](TInv /\ RowsAreSelectable)
<1>1. Init => TInv /\ RowsAreSelectable
    BY TypeInit
<1>2. TInv /\ RowsAreSelectable /\ [Next]_vars => TInv' /\ RowsAreSelectable'
    BY TypeStep, SelectableStep
<1> QED BY <1>1, <1>2, PTL DEF Spec

\* Every reachable state is well typed.
THEOREM TypeCorrect == Spec => []TypeOK
<1>1. TInv => TypeOK
    BY DEF TInv
<1> QED BY <1>1, TypeAndSelection, PTL

\* A click on a row or a section button is never silently ignored.
THEOREM ClicksFindTheirTarget == Spec => []RowsAreSelectable
BY TypeAndSelection, PTL

-----------------------------------------------------------------------------
(***************************************************************************)
(* The list of the explorer and the order of the bridge.                   *)
(***************************************************************************)
LEMMA RowsEndStep ==
    ASSUME TInv, RowsEndTheOrder, [Next]_vars
    PROVE  RowsEndTheOrder'
<1> USE DEF RowsEndTheOrder
<1>0. rows \in Seq(Names) /\ fnOrder \in Seq(Names)
    BY DEF TInv, TypeOK, ExplorerTypeOK
<1>1. CASE UNCHANGED <<loads, fnMap, fnOrder, secMap, heard,
                       rows, buttons, fnCount, fullScript>>
    BY <1>1
<1>2. CASE \E f \in Files : LoadFile(f)
    <2>1. fnOrder' = fnOrder /\ rows' = <<>> /\ fnCount' = 0
        BY <1>2 DEF LoadFile, mapVars, Dispatch, ExplorerOn, StartedEvent,
                    ExplorerStarted
    <2> QED BY <1>0, <2>1
<1>3. CASE Drain
    <2> DEFINE ev == Head(chan)
               name == FunctionsOf[ev.file][ev.fn]
    <2>1. CASE PutFunction(ev) /\ ExplorerFunction(ev)
        <3>1. /\ fnOrder' = Append(fnOrder, name)
              /\ rows' = Append(rows, name)
              /\ fnCount' = fnCount + 1
            BY <2>1 DEF PutFunction, ExplorerFunction
        <3> HIDE DEF name
        <3>2. /\ Len(rows') = Len(rows) + 1
              /\ Len(fnOrder') = Len(fnOrder) + 1
              /\ Len(rows) \in Nat /\ Len(fnOrder) \in Nat
            BY <1>0, <3>1
        <3>3. ASSUME NEW i \in 1 .. Len(rows')
              PROVE  rows'[i] = fnOrder'[Len(fnOrder') - Len(rows') + i]
            <4>1. CASE i = Len(rows) + 1
                BY <1>0, <3>1, <3>2, <4>1
            <4>2. CASE i \in 1 .. Len(rows)
                <5>1. rows'[i] = rows[i]
                    BY <1>0, <3>1, <4>2
                <5>2. Len(fnOrder) - Len(rows) + i \in 1 .. Len(fnOrder)
                    BY <3>2, <4>2
                <5>3. fnOrder'[Len(fnOrder) - Len(rows) + i]
                        = fnOrder[Len(fnOrder) - Len(rows) + i]
                    BY <1>0, <3>1, <5>2
                <5> QED BY <3>2, <4>2, <5>1, <5>3
            <4> QED BY <3>2, <4>1, <4>2
        <3>4. fnCount' = Len(rows') /\ Len(rows') <= Len(fnOrder')
            BY <3>1, <3>2
        <3> QED BY <3>3, <3>4
    <2>2. CASE UNCHANGED <<rows, fnOrder, fnCount>>
        BY <2>2
    <2> QED BY <1>3, <2>1, <2>2, RowsAfter
            DEF ExplorerDone, explorerVars, mapVars, PutSections, ExplorerSections
<1> QED BY <1>1, <1>2, <1>3, ListSteps

\* The rows are the last names pushed on function_order, and are counted.
THEOREM RowsAlign == Spec => []RowsEndTheOrder
<1>1. Init => RowsEndTheOrder
    BY DEF Init, BridgeInit, ExplorerInit, RowsEndTheOrder
<1>2. TInv /\ RowsEndTheOrder /\ [Next]_vars => RowsEndTheOrder'
    BY RowsEndStep
<1> QED BY <1>1, <1>2, TypeAndSelection, PTL DEF Spec

-----------------------------------------------------------------------------
(***************************************************************************)
(* A name in the function map leads to a function of that name.            *)
(***************************************************************************)
MapKeepsNames ==
    \A n \in DOMAIN fnMap :
        /\ fnMap[n].load \in 1 .. Len(loads)
        /\ fnMap[n].fn \in 1 .. Len(FunctionsOf[FileOf(fnMap[n].load)])
        /\ PieceName(fnMap[n]) = n

LoadsGrow ==
    /\ Len(loads') \in Nat
    /\ Len(loads) <= Len(loads')
    /\ \A l \in 1 .. Len(loads) : loads'[l] = loads[l]

LEMMA LoadFileGrows ==
    ASSUME TInv, NEW f \in Files, LoadFile(f)
    PROVE  LoadsGrow /\ Len(loads') = Len(loads) + 1
<1> DEFINE new == [file |-> f, lang |-> language, alone |-> AllComplete]
<1>1. loads \in Seq([file : Files, lang : Languages, alone : BOOLEAN]) /\ language \in Languages
    BY DEF TInv, TypeOK
<1>2. loads' = Append(loads, new)
    BY DEF LoadFile
<1>3. new \in [file : Files, lang : Languages, alone : BOOLEAN]
    BY <1>1, LoadRecordType
<1> HIDE DEF new
<1> QED BY <1>1, <1>2, <1>3, AppendProperties DEF LoadsGrow

LEMMA KeepNamesStep ==
    ASSUME TInv, MapKeepsNames, [Next]_vars
    PROVE  MapKeepsNames'
<1> USE DEF PieceName
<1>1. CASE UNCHANGED <<loads, fnMap, fnOrder, secMap, heard,
                       rows, buttons, fnCount, fullScript>>
    BY <1>1 DEF MapKeepsNames, FileOf
<1>2. CASE \E f \in Files : LoadFile(f)
    <2>1. LoadsGrow
        BY <1>2, LoadFileGrows
    <2>3. Len(loads) \in Nat
        BY DEF TInv, TypeOK
    <2>2. UNCHANGED fnMap
        BY <1>2 DEF LoadFile, mapVars
    <2> QED BY <2>1, <2>2, <2>3 DEF MapKeepsNames, FileOf, LoadsGrow
<1>3. CASE Drain
    <2> DEFINE ev == Head(chan)
               name == FunctionsOf[ev.file][ev.fn]
    <2>1. /\ ev.load \in 1 .. Len(loads)
          /\ ev.file = FileOf(ev.load)
          /\ loads' = loads
          /\ ev.kind = "AnalysisFunctionReady" =>
                ev.fn \in 1 .. Len(FunctionsOf[ev.file])
        BY <1>3, HeadOfChannel DEF Drain, taskVars, Event
    <2>2. CASE ev.kind = "AnalysisFunctionReady" /\ PutFunction(ev)
        <3>1. /\ DOMAIN fnMap' = DOMAIN fnMap \cup {name}
              /\ \A n \in DOMAIN fnMap' :
                    fnMap'[n] = IF n = name THEN [load |-> ev.load, fn |-> ev.fn]
                                            ELSE fnMap[n]
            BY <2>2 DEF PutFunction, MapInsert
        <3>2. /\ name = FunctionsOf[FileOf(ev.load)][ev.fn]
              /\ ev.fn \in 1 .. Len(FunctionsOf[FileOf(ev.load)])
              /\ ev.load \in 1 .. Len(loads)
            BY <2>1, <2>2
        <3> HIDE DEF ev, name
        <3>3. ASSUME NEW n \in DOMAIN fnMap'
              PROVE  /\ fnMap'[n].load \in 1 .. Len(loads)
                     /\ fnMap'[n].fn \in 1 .. Len(FunctionsOf[FileOf(fnMap'[n].load)])
                     /\ FunctionsOf[FileOf(fnMap'[n].load)][fnMap'[n].fn] = n
            <4>1. CASE n = name
                <5>1. fnMap'[n].load = ev.load /\ fnMap'[n].fn = ev.fn
                    BY <3>1, <4>1
                <5> QED BY <3>2, <4>1, <5>1
            <4>2. CASE n # name
                <5>1. n \in DOMAIN fnMap /\ fnMap'[n] = fnMap[n]
                    BY <3>1, <4>2
                <5> QED BY <5>1 DEF MapKeepsNames
            <4> QED BY <4>1, <4>2
        <3> QED BY <2>1, <3>1, <3>3 DEF MapKeepsNames, FileOf
    <2>3. CASE UNCHANGED fnMap
        BY <2>1, <2>3 DEF MapKeepsNames, FileOf
    <2> QED BY <1>3, <2>2, <2>3, RowsAfter DEF PutSections, mapVars
<1> QED BY <1>1, <1>2, <1>3, ListSteps

LEMMA KeepNames == Spec => []MapKeepsNames
<1>1. Init => MapKeepsNames
    BY DEF Init, BridgeInit, EmptyMap, MapKeepsNames
<1>2. TInv /\ MapKeepsNames /\ [Next]_vars => MapKeepsNames'
    BY KeepNamesStep
<1> QED BY <1>1, <1>2, TypeAndSelection, PTL DEF Spec
-----------------------------------------------------------------------------
(* The channel, the placeholder and the feed: what the listeners hear of   *)
(* each load is a growing prefix of its transcript, in order, for every    *)
(* catalogue of files and any number of overlapping loads.                 *)

(***************************************************************************)
(* The strengthening: the listeners heard no more than was sent and, event *)
(* by event, what the task of that load sends; nothing was heard of a load *)
(* that was not made or whose analysis has not ended.                      *)
(***************************************************************************)
SaidAt(l, i) ==
    LET ev == StreamEvent(l, FileOf(l), outcome[l], i)
    IN  [kind |-> ev.kind, fn |-> ev.fn]

HeardOK ==
    \A l \in Loads :
        /\ Len(heard[l]) <= sent[l]
        /\ heard[l] # <<>> => l \in 1 .. Len(loads) /\ outcome[l] # "pending"
        /\ \A i \in 1 .. Len(heard[l]) : heard[l][i] = SaidAt(l, i)

LEMMA HeardType ==
    ASSUME TInv, NEW l \in Loads
    PROVE  /\ heard[l] \in Seq([kind : Kinds, fn : Nat])
           /\ Len(heard[l]) \in Nat
           /\ sent[l] \in Nat
<1>1. /\ heard \in [Loads -> Seq([kind : Kinds, fn : Nat])]
      /\ sent \in [Loads -> Nat]
    BY DEF TInv, TypeOK
<1>2. heard[l] \in Seq([kind : Kinds, fn : Nat])
    BY <1>1
<1>3. Len(heard[l]) \in Nat
    BY <1>2, LenProperties
<1> QED BY <1>1, <1>2, <1>3

LEMMA EntryType ==
    ASSUME TInv, NEW i \in 1 .. Len(chan)
    PROVE  /\ chan[i] \in Event
           /\ chan[i].load \in Loads
           /\ chan[i].pos \in Nat
           /\ Len(chan) \in Nat
<1>1. chan \in Seq(Event)
    BY DEF TInv, TypeOK
<1>2. chan[i] \in Event
    BY <1>1, ElementOfSeq
<1> QED BY <1>1, <1>2 DEF Event

\* The next event to be heard of a load is the one after the last heard.
LEMMA HeadIsNext ==
    ASSUME TInv, ChannelInOrder, HeardOK, chan # <<>>
    PROVE  Head(chan).pos = Len(heard[Head(chan).load]) + 1
<1> DEFINE l == chan[1].load
           p == chan[1].pos
           n == Len(heard[l])
<1>1. 1 \in 1 .. Len(chan) /\ Head(chan) = chan[1]
    BY HeadOfChannel
<1>2. l \in Loads /\ p \in Nat /\ Len(chan) \in Nat
    BY <1>1, EntryType
<1>3. n \in Nat /\ sent[l] \in Nat
    BY <1>2, HeardType
<1>4. n < p /\ p <= sent[l]
    BY <1>1 DEF ChannelInOrder
<1>5. n + 1 \in n + 1 .. sent[l]
    BY <1>2, <1>3, <1>4
<1>6. PICK i \in 1 .. Len(chan) : chan[i].load = l /\ chan[i].pos = n + 1
    <2> HIDE DEF n
    <2>1. \A q \in n + 1 .. sent[l] :
            \E i \in 1 .. Len(chan) : chan[i].load = l /\ chan[i].pos = q
        BY <1>2 DEF ChannelInOrder, n
    <2> QED BY <1>5, <2>1
<1>7. i = 1 \/ p < n + 1
    <2>1. 1 < i => p < chan[i].pos
        BY <1>1, <1>6 DEF ChannelInOrder
    <2> QED BY <1>2, <1>6, <2>1
<1> QED BY <1>1, <1>2, <1>3, <1>4, <1>6, <1>7

-----------------------------------------------------------------------------
(* One step of the channel.                                                *)

LEMMA SendFrame ==
    ASSUME TInv, NEW l \in Loads, Send(l)
    PROVE  /\ l \in 1 .. Len(loads)
           /\ outcome[l] # "pending"
           /\ Len(chan) \in Nat
           /\ Len(chan') = Len(chan) + 1
           /\ \A i \in 1 .. Len(chan) : chan'[i] = chan[i]
           /\ chan'[Len(chan) + 1].load = l
           /\ chan'[Len(chan) + 1].pos = sent[l] + 1
           /\ sent' = [sent EXCEPT ![l] = @ + 1]
           /\ UNCHANGED <<loads, outcome, heard>>
<1> DEFINE ev == StreamEvent(l, loads[l].file, outcome[l], sent[l] + 1)
<1>1. chan \in Seq(Event) /\ chan' = Append(chan, ev)
    BY DEF Send, Queued, TInv, TypeOK
<1>2. ev.load = l /\ ev.pos = sent[l] + 1
    BY DEF StreamEvent
<1>3. /\ Len(chan') = Len(chan) + 1
      /\ \A i \in 1 .. Len(chan) : chan'[i] = chan[i]
      /\ chan'[Len(chan) + 1] = ev
    <2> HIDE DEF ev
    <2> QED BY <1>1
<1> QED BY <1>1, <1>2, <1>3 DEF Send

LEMMA ChannelSend ==
    ASSUME TInv, HeardOK, ChannelInOrder, NEW l \in Loads, Send(l)
    PROVE  ChannelInOrder' /\ HeardOK'
<1> DEFINE k == Len(chan) + 1
<1>0. /\ sent \in [Loads -> Nat]
      /\ sent'[l] = sent[l] + 1
      /\ \A m \in Loads \ {l} : sent'[m] = sent[m]
      /\ heard' = heard
      /\ loads' = loads
      /\ outcome' = outcome
    BY SendFrame DEF TInv, TypeOK
<1>1. /\ Len(chan) \in Nat
      /\ Len(chan') = k
      /\ chan'[k].load = l
      /\ chan'[k].pos = sent[l] + 1
      /\ \A i \in 1 .. Len(chan) : chan'[i] = chan[i]
    BY SendFrame
<1>2. \A i \in 1 .. Len(chan) : chan[i].load \in Loads /\ chan[i].pos \in Nat
    BY EntryType
<1>3. \A m \in Loads : Len(heard[m]) \in Nat /\ Len(heard[m]) <= sent[m]
    BY HeardType DEF HeardOK
<1>4. HeardOK'
    BY <1>0, <1>3 DEF HeardOK, SaidAt, FileOf
<1>5. ASSUME NEW i \in 1 .. Len(chan')
      PROVE  /\ Len(heard'[chan'[i].load]) < chan'[i].pos
             /\ chan'[i].pos <= sent'[chan'[i].load]
    <2>1. CASE i = k
        BY <1>0, <1>1, <1>3, <2>1
    <2>2. CASE i \in 1 .. Len(chan)
        <3>1. chan'[i] = chan[i] /\ chan[i].load \in Loads /\ chan[i].pos \in Nat
            BY <1>1, <1>2, <2>2
        <3>2. /\ Len(heard[chan[i].load]) < chan[i].pos
              /\ chan[i].pos <= sent[chan[i].load]
            BY <2>2 DEF ChannelInOrder
        <3>3. sent[chan[i].load] \in Nat
            BY <1>0, <3>1
        <3>4. sent'[chan[i].load] \in Nat /\ sent[chan[i].load] <= sent'[chan[i].load]
            BY <1>0, <3>1, <3>3
        <3> QED BY <1>0, <3>1, <3>2, <3>3, <3>4
    <2> QED BY <1>1, <2>1, <2>2
<1>6. ASSUME NEW i \in 1 .. Len(chan'), NEW j \in 1 .. Len(chan'),
             i < j, chan'[i].load = chan'[j].load
      PROVE  chan'[i].pos < chan'[j].pos
    <2>1. i \in 1 .. Len(chan)
        BY <1>1, <1>6
    <2>2. CASE j = k
        <3>1. chan[i].pos <= sent[chan[i].load]
            BY <2>1 DEF ChannelInOrder
        <3> QED BY <1>0, <1>1, <1>2, <1>6, <2>1, <2>2, <3>1
    <2>3. CASE j \in 1 .. Len(chan)
        BY <1>1, <1>6, <2>1, <2>3 DEF ChannelInOrder
    <2> QED BY <1>1, <2>2, <2>3
<1>7. ASSUME NEW m \in Loads, NEW p \in Len(heard'[m]) + 1 .. sent'[m]
      PROVE  \E i \in 1 .. Len(chan') : chan'[i].load = m /\ chan'[i].pos = p
    <2>1. CASE p \in Len(heard[m]) + 1 .. sent[m]
        <3>1. PICK i \in 1 .. Len(chan) : chan[i].load = m /\ chan[i].pos = p
            BY <2>1 DEF ChannelInOrder
        <3> QED BY <1>1, <3>1
    <2>2. CASE m = l /\ p = sent[l] + 1
        BY <1>1, <2>2
    <2>3. sent[m] \in Nat
        BY <1>0
    <2>4. CASE m = l
        BY <1>0, <1>3, <1>7, <2>1, <2>2, <2>3, <2>4
    <2>5. CASE m # l
        BY <1>0, <1>7, <2>1, <2>5
    <2> QED BY <2>4, <2>5
<1> QED BY <1>4, <1>5, <1>6, <1>7 DEF ChannelInOrder

LEMMA ChannelDrain ==
    ASSUME TInv, HeardOK, ChannelInOrder, Drain
    PROVE  ChannelInOrder' /\ HeardOK'
<1> DEFINE l == Head(chan).load
           n == Len(heard[l])
           said == [kind |-> Head(chan).kind, fn |-> Head(chan).fn]
<1>1. /\ chan # <<>>
      /\ 1 \in 1 .. Len(chan)
      /\ Head(chan) = chan[1]
      /\ l \in 1 .. Len(loads)
      /\ l \in Loads
      /\ Head(chan).pos = n + 1
    BY HeadOfChannel, HeadIsNext DEF Drain
<1>2. /\ Len(chan) \in Nat \ {0}
      /\ Len(chan') = Len(chan) - 1
      /\ \A i \in 1 .. Len(chan') : chan'[i] = chan[i + 1]
      /\ UNCHANGED <<loads, outcome, sent>>
    BY DrainFrame
<1>3. /\ Len(heard'[l]) = n + 1
      /\ heard'[l] # <<>>
      /\ heard'[l][n + 1] = said
      /\ \A i \in 1 .. n : heard'[l][i] = heard[l][i]
      /\ \A m \in Loads \ {l} : heard'[m] = heard[m]
      /\ n \in Nat
    <2>1. heard' = [heard EXCEPT ![l] = Append(@, said)]
        BY DrainFrame
    <2>2. heard \in [Loads -> Seq([kind : Kinds, fn : Nat])]
        BY DEF TInv, TypeOK
    <2>3. heard'[l] = Append(heard[l], said) /\ \A m \in Loads \ {l} : heard'[m] = heard[m]
        <3> HIDE DEF l, said
        <3> QED BY <1>1, <2>1, <2>2
    <2>4. heard[l] \in Seq([kind : Kinds, fn : Nat]) /\ n \in Nat
        BY <1>1, HeardType
    <2>5. Len(heard'[l]) = n + 1 /\ heard'[l][n + 1] = said
          /\ \A i \in 1 .. n : heard'[l][i] = heard[l][i]
        <3> HIDE DEF l, said
        <3> QED BY <2>3, <2>4
    <2>6. heard'[l] # <<>>
        <3> HIDE DEF l
        <3> QED BY <2>3, <2>4
    <2> QED BY <2>3, <2>4, <2>5, <2>6
<1>4. said = SaidAt(l, n + 1) /\ outcome[l] # "pending" /\ n + 1 <= sent[l]
    <2>1. /\ chan[1] = StreamEvent(l, FileOf(l), outcome[l], n + 1)
          /\ outcome[l] # "pending"
        BY <1>1 DEF TInv, ChannelOK
    <2>2. n + 1 <= sent[l]
        BY <1>1 DEF ChannelInOrder
    <2> QED BY <1>1, <2>1, <2>2 DEF SaidAt
<1> HIDE DEF l, n, said
<1>5. HeardOK'
    <2> SUFFICES ASSUME NEW m \in Loads
                 PROVE  /\ Len(heard'[m]) <= sent[m]
                        /\ heard'[m] # <<>> =>
                              m \in 1 .. Len(loads) /\ outcome[m] # "pending"
                        /\ \A i \in 1 .. Len(heard'[m]) :
                              heard'[m][i] = SaidAt(m, i)
        BY <1>2 DEF HeardOK, SaidAt, FileOf
    <2>1. CASE m = l
        <3>1. Len(heard'[m]) <= sent[m]
            BY <1>3, <1>4, <2>1
        <3>2. \A i \in 1 .. n : heard[m][i] = SaidAt(m, i)
            BY <2>1 DEF HeardOK, n
        <3>3. \A i \in 1 .. n + 1 : heard'[m][i] = SaidAt(m, i)
            BY <1>3, <1>4, <2>1, <3>2
        <3> QED BY <1>1, <1>3, <1>4, <2>1, <3>1, <3>3
    <2>2. CASE m # l
        BY <1>3, <2>2 DEF HeardOK
    <2> QED BY <2>1, <2>2
<1>6. \A i \in 1 .. Len(chan) : chan[i].load \in Loads /\ chan[i].pos \in Nat
    BY EntryType
<1>7. ASSUME NEW i \in 1 .. Len(chan')
      PROVE  /\ Len(heard'[chan'[i].load]) < chan'[i].pos
             /\ chan'[i].pos <= sent'[chan'[i].load]
    <2>1. i + 1 \in 1 .. Len(chan) /\ 1 < i + 1 /\ chan'[i] = chan[i + 1]
        BY <1>2
    <2>2. /\ Len(heard[chan[i + 1].load]) < chan[i + 1].pos
          /\ chan[i + 1].pos <= sent[chan[i + 1].load]
          /\ chan[i + 1].load \in Loads
          /\ chan[i + 1].pos \in Nat
        BY <1>6, <2>1 DEF ChannelInOrder
    <2>3. CASE chan[i + 1].load = l
        <3>1. n + 1 < chan[i + 1].pos
            BY <1>1, <2>1, <2>3 DEF ChannelInOrder, l
        <3> QED BY <1>2, <1>3, <2>1, <2>2, <2>3, <3>1
    <2>4. CASE chan[i + 1].load # l
        BY <1>2, <1>3, <2>1, <2>2, <2>4
    <2> QED BY <2>3, <2>4
<1>8. ASSUME NEW i \in 1 .. Len(chan'), NEW j \in 1 .. Len(chan'),
             i < j, chan'[i].load = chan'[j].load
      PROVE  chan'[i].pos < chan'[j].pos
    <2>1. /\ i + 1 \in 1 .. Len(chan) /\ chan'[i] = chan[i + 1]
          /\ j + 1 \in 1 .. Len(chan) /\ chan'[j] = chan[j + 1]
          /\ i + 1 < j + 1
        BY <1>2, <1>8
    <2> QED BY <1>8, <2>1 DEF ChannelInOrder
<1>9. ASSUME NEW m \in Loads, NEW p \in Len(heard'[m]) + 1 .. sent'[m]
      PROVE  \E i \in 1 .. Len(chan') : chan'[i].load = m /\ chan'[i].pos = p
    <2>1. p \in Len(heard[m]) + 1 .. sent[m]
        <3>1. sent'[m] = sent[m] /\ sent[m] \in Nat /\ Len(heard[m]) \in Nat
            BY <1>2, HeardType
        <3>2. CASE m = l
            BY <1>3, <1>9, <3>1, <3>2 DEF n
        <3>3. CASE m # l
            BY <1>3, <1>9, <3>1, <3>3
        <3> QED BY <3>2, <3>3
    <2>2. PICK i \in 1 .. Len(chan) : chan[i].load = m /\ chan[i].pos = p
        BY <2>1 DEF ChannelInOrder
    <2>3. i # 1
        <3>1. CASE m = l
            BY <1>1, <1>3, <1>9, <2>2, <3>1
        <3>2. CASE m # l
            BY <1>1, <2>2, <3>2 DEF l
        <3> QED BY <3>1, <3>2
    <2>4. i - 1 \in 1 .. Len(chan') /\ chan'[i - 1] = chan[i]
        <3>1. i - 1 \in 1 .. Len(chan')
            BY <1>2, <2>3
        <3>2. chan'[i - 1] = chan[(i - 1) + 1]
            BY <1>2, <3>1
        <3>3. (i - 1) + 1 = i
            BY <1>2
        <3> QED BY <3>1, <3>2, <3>3
    <2> QED BY <2>2, <2>4
<1> QED BY <1>5, <1>7, <1>8, <1>9 DEF ChannelInOrder

LEMMA ChannelStep ==
    ASSUME TInv, HeardOK, ChannelInOrder, [Next]_vars
    PROVE  ChannelInOrder' /\ HeardOK'
<1> USE DEF mapVars, taskVars, explorerVars, graphVars
<1>1. ASSUME UNCHANGED <<loads, outcome, sent, chan, heard>>
      PROVE  ChannelInOrder' /\ HeardOK'
    BY <1>1 DEF ChannelInOrder, HeardOK, SaidAt, FileOf
<1>2. ASSUME NEW lang \in Languages, SetLanguage(lang)
      PROVE  ChannelInOrder' /\ HeardOK'
    BY <1>1, <1>2 DEF SetLanguage
<1>3. ASSUME NEW f \in Files, LoadFile(f)
      PROVE  ChannelInOrder' /\ HeardOK'
    <2>1. LoadsGrow
        BY <1>3, LoadFileGrows
    <2>2. UNCHANGED <<outcome, sent, chan, heard>> /\ Len(loads) \in Nat
        BY <1>3 DEF LoadFile, TInv, TypeOK
    <2>3. ChannelInOrder'
        BY <2>2 DEF ChannelInOrder
    <2>4. HeardOK'
        <3> SUFFICES ASSUME NEW l \in Loads
                     PROVE  /\ Len(heard[l]) <= sent[l]
                            /\ heard[l] # <<>> =>
                                  l \in 1 .. Len(loads') /\ outcome[l] # "pending"
                            /\ \A i \in 1 .. Len(heard[l]) : heard[l][i] = SaidAt(l, i)'
            BY <2>2 DEF HeardOK
        <3>1. CASE heard[l] = <<>>
            <4>1. Len(heard[l]) = 0
                BY <3>1
            <4> QED BY <3>1, <4>1 DEF HeardOK
        <3>2. CASE heard[l] # <<>>
            <4>1. l \in 1 .. Len(loads) /\ loads'[l] = loads[l]
                BY <2>1, <3>2 DEF HeardOK, LoadsGrow
            <4>2. l \in 1 .. Len(loads')
                BY <2>1, <2>2, <4>1 DEF LoadsGrow
            <4>3. \A i : SaidAt(l, i)' = SaidAt(l, i)
                BY <2>2, <4>1 DEF SaidAt, FileOf
            <4> QED BY <3>2, <4>2, <4>3 DEF HeardOK
        <3> QED BY <3>1, <3>2
    <2> QED BY <2>3, <2>4
<1>4. ASSUME NEW i, ActivateRow(i) PROVE ChannelInOrder' /\ HeardOK'
    BY <1>1, <1>4 DEF ActivateRow
<1>5. ASSUME NEW i, ClickNode(i) PROVE ChannelInOrder' /\ HeardOK'
    BY <1>1, <1>5 DEF ClickNode
<1>6. ASSUME NEW i, ClickSection(i) PROVE ChannelInOrder' /\ HeardOK'
    BY <1>1, <1>6 DEF ClickSection
<1>7. ASSUME ClickFullScript PROVE ChannelInOrder' /\ HeardOK'
    BY <1>1, <1>7 DEF ClickFullScript
<1>8. ASSUME NEW l \in Loads, NEW o \in Outcomes, AnalysisEnds(l, o)
      PROVE  ChannelInOrder' /\ HeardOK'
    <2>1. /\ UNCHANGED <<loads, sent, chan, heard>>
          /\ outcome[l] = "pending"
          /\ outcome' = [outcome EXCEPT ![l] = o]
          /\ outcome \in [Loads -> Outcomes \cup {"pending"}]
        BY <1>8 DEF AnalysisEnds, TInv, TypeOK
    <2>2. ChannelInOrder'
        BY <2>1 DEF ChannelInOrder
    <2>3. HeardOK'
        <3> SUFFICES ASSUME NEW m \in Loads
                     PROVE  /\ Len(heard[m]) <= sent[m]
                            /\ heard[m] # <<>> =>
                                  m \in 1 .. Len(loads) /\ outcome'[m] # "pending"
                            /\ \A i \in 1 .. Len(heard[m]) : heard[m][i] = SaidAt(m, i)'
            BY <2>1 DEF HeardOK
        <3>1. CASE heard[m] = <<>>
            <4>1. Len(heard[m]) = 0
                BY <3>1
            <4> QED BY <3>1, <4>1 DEF HeardOK
        <3>2. CASE heard[m] # <<>>
            <4>1. m # l
                BY <2>1, <3>2 DEF HeardOK
            <4>2. outcome'[m] = outcome[m]
                BY <2>1, <4>1
            <4>3. \A i : SaidAt(m, i)' = SaidAt(m, i)
                BY <2>1, <4>2 DEF SaidAt, FileOf
            <4> QED BY <3>2, <4>2, <4>3 DEF HeardOK
        <3> QED BY <3>1, <3>2
    <2> QED BY <2>2, <2>3
<1>9. CASE UserStep
    BY <1>2, <1>3, <1>4, <1>5, <1>6, <1>7, <1>9, Zenon DEF UserStep, Browse
<1>10. CASE SystemStep
    BY <1>8, <1>10, ChannelSend, ChannelDrain DEF SystemStep
<1>11. CASE UNCHANGED vars
    BY <1>1, <1>11 DEF vars
<1> QED BY <1>9, <1>10, <1>11 DEF Next

LEMMA ChannelInit ==
    ASSUME Init
    PROVE  ChannelInOrder /\ HeardOK
<1>1. /\ chan = <<>>
      /\ \A l \in Loads : sent[l] = 0 /\ heard[l] = <<>>
    BY DEF Init, BridgeInit
<1>2. Len(chan) = 0 /\ \A l \in Loads : Len(heard[l]) = 0
    BY <1>1
<1> QED BY <1>1, <1>2 DEF ChannelInOrder, HeardOK

LEMMA FeedInvariant == Spec => [](TInv /\ HeardOK /\ ChannelInOrder)
<1>1. Init => HeardOK /\ ChannelInOrder
    BY ChannelInit
<1>2. TInv /\ HeardOK /\ ChannelInOrder /\ [Next]_vars => HeardOK' /\ ChannelInOrder'
    BY ChannelStep
<1> QED BY <1>1, <1>2, TypeAndSelection, PTL DEF Spec

(***************************************************************************)
(* However the sends of overlapping loads mix, the channel holds of each   *)
(* load exactly the events sent and not yet heard, in the order sent.      *)
(***************************************************************************)
THEOREM ChannelKeepsOrder == Spec => []ChannelInOrder
BY FeedInvariant, PTL

-----------------------------------------------------------------------------
(* The placeholder of the code panel.                                      *)

LEMMA PlaceholderStep ==
    ASSUME TInv, HeardOK, PlaceholderMeansWaiting, [Next]_vars
    PROVE  PlaceholderMeansWaiting'
<1> USE DEF PlaceholderMeansWaiting
<1>1. CASE text' = text /\ loads' = loads /\ heard' = heard
    BY <1>1 DEF Settled
<1>2. CASE text'.kind # "Analysing"
    BY <1>2
<1>3. CASE \E f \in Files : LoadFile(f)
    <2>1. /\ heard' = heard
          /\ Len(loads') = Len(loads) + 1
          /\ Len(loads) \in Nat
          /\ Len(loads) + 1 \in Loads
        BY <1>3, LoadFileGrows, CatalogAssumption DEF LoadFile, TInv, TypeOK, Loads
    <2>2. PICK l \in Loads : l = Len(loads) + 1
        BY <2>1
    <2>3. heard[l] = <<>>
        BY <2>1, <2>2 DEF HeardOK
    <2>4. ~ Settled(l)'
        BY <2>1, <2>3 DEF Settled
    <2>5. l \in 1 .. Len(loads')
        BY <2>1, <2>2
    <2> QED BY <2>4, <2>5
<1>4. CASE Drain /\ text'.kind = "Analysing"
    <2> DEFINE ev == Head(chan)
               said == [kind |-> ev.kind, fn |-> ev.fn]
    <2>1. /\ ev \in Event
          /\ ev.kind # "AnalysisStarted"
          /\ ev.load \in Loads
        BY <1>4, HeadOfChannel DEF Drain
    <2>2. CodeOn(ev)
        BY <1>4 DEF Drain, Dispatch
    <2>3. ev.kind \notin {"AnalysisDone", "AnalysisError"} /\ text' = text
        <3> HIDE DEF ev
        <3>1. "Analysing" # "Error" /\ "Analysing" # "DonePrompt"
            OBVIOUS
        <3> QED BY <1>4, <2>1, <2>2, <3>1 DEF CodeOn, CodeDone, CodeError, Plain
    <2>4. PICK l \in 1 .. Len(loads) : ~ Settled(l)
        BY <1>4, <2>3
    <2>5. l \in Loads /\ Len(heard[l]) \in Nat
        BY CatalogAssumption, HeardType DEF TInv, TypeOK, Loads
    <2>6. /\ heard' = [heard EXCEPT ![ev.load] = Append(@, said)]
          /\ loads' = loads
        BY <1>4, DrainFrame
    <2>7. /\ heard \in [Loads -> Seq([kind : Kinds, fn : Nat])]
          /\ heard[l] \in Seq([kind : Kinds, fn : Nat])
        BY <2>5, HeardType DEF TInv, TypeOK
    <2>8. said.kind \notin {"AnalysisDone", "AnalysisError"}
        BY <2>3
    <2> HIDE DEF ev, said
    <2>9. heard'[l] \in {heard[l], Append(heard[l], said)}
        BY <2>5, <2>6, <2>7
    <2>10. ~ Settled(l)'
        <3>1. CASE heard'[l] = heard[l]
            BY <2>4, <3>1 DEF Settled
        <3>2. CASE heard'[l] = Append(heard[l], said)
            <4>1. /\ Len(heard'[l]) = Len(heard[l]) + 1
                  /\ heard'[l][Len(heard[l]) + 1] = said
                  /\ \A i \in 1 .. Len(heard[l]) : heard'[l][i] = heard[l][i]
                BY <2>7, <3>2
            <4>2. ASSUME NEW i \in 1 .. Len(heard'[l])
                  PROVE  heard'[l][i].kind \notin {"AnalysisDone", "AnalysisError"}
                <5>1. CASE i = Len(heard[l]) + 1
                    BY <2>8, <4>1, <5>1
                <5>2. CASE i \in 1 .. Len(heard[l])
                    BY <2>4, <4>1, <5>2 DEF Settled
                <5> QED BY <2>5, <4>1, <5>1, <5>2
            <4> QED BY <4>2 DEF Settled
        <3> QED BY <2>9, <3>1, <3>2
    <2> QED BY <2>6, <2>10
<1>5. \/ text' = text /\ loads' = loads /\ heard' = heard
      \/ text'.kind # "Analysing"
      \/ \E f \in Files : LoadFile(f)
      \/ Drain
    <2> USE DEF taskVars, SelectFunction, ShowCode, ShowSection
    <2>1. ASSUME NEW n, SelectFunction(n)
          PROVE  text' = text \/ text'.kind # "Analysing"
        <3>1. text' = text \/ text' = [kind |-> "Code", pieces |-> <<fnMap[n]>>]
            BY <2>1
        <3> QED BY <3>1
    <2> DEFINE Calm == /\ text' = text \/ text'.kind # "Analysing"
                       /\ loads' = loads /\ heard' = heard
    <2>2. ASSUME NEW lang \in Languages, SetLanguage(lang) PROVE Calm
        BY <2>2 DEF SetLanguage
    <2>3. ASSUME NEW i, ActivateRow(i) PROVE Calm
        <3> HIDE DEF SelectFunction
        <3> QED BY <2>1, <2>3 DEF ActivateRow
    <2>4. ASSUME NEW i, ClickNode(i) PROVE Calm
        <3> HIDE DEF SelectFunction
        <3>1. text' = text \/ SelectFunction(nodes[i])
            BY <2>4 DEF ClickNode
        <3> QED BY <2>1, <2>4, <3>1 DEF ClickNode
    <2>5. ASSUME NEW i, ClickSection(i) PROVE Calm
        <3>1. text' = text \/ text' = [kind |-> "Section", pieces |-> <<secMap[buttons[i]]>>]
            BY <2>5 DEF ClickSection
        <3> QED BY <2>5, <3>1 DEF ClickSection
    <2>6. ASSUME ClickFullScript PROVE Calm
        BY <2>6 DEF ClickFullScript
    <2>7. ASSUME NEW l, NEW o, AnalysisEnds(l, o) PROVE Calm
        BY <2>7 DEF AnalysisEnds
    <2>8. ASSUME NEW l, Send(l) PROVE Calm
        BY <2>8 DEF Send
    <2>9. ASSUME UNCHANGED vars PROVE Calm
        BY <2>9 DEF vars
    <2> HIDE DEF Calm, SelectFunction, taskVars, ShowCode, ShowSection
    <2>10. UserStep => Calm \/ \E f \in Files : LoadFile(f)
        BY <2>2, <2>3, <2>4, <2>5, <2>6, Zenon DEF UserStep, Browse
    <2>11. SystemStep => Calm \/ Drain
        BY <2>7, <2>8, Zenon DEF SystemStep
    <2>12. Calm \/ (\E f \in Files : LoadFile(f)) \/ Drain
        BY <2>9, <2>10, <2>11, Zenon DEF Next
    <2> QED BY <2>12 DEF Calm
<1> QED BY <1>1, <1>2, <1>3, <1>4, <1>5

\* "Analysing binary" on the code panel means that a load has not settled.
THEOREM PlaceholderHasCause == Spec => []PlaceholderMeansWaiting
<1>1. Init => PlaceholderMeansWaiting
    BY DEF Init, CodeInit, Plain, PlaceholderMeansWaiting
<1>2. TInv /\ HeardOK /\ PlaceholderMeansWaiting /\ [Next]_vars
        => PlaceholderMeansWaiting'
    BY PlaceholderStep
<1> QED BY <1>1, <1>2, FeedInvariant, PTL DEF Spec

-----------------------------------------------------------------------------
(* The bridge implements the feed: every step of the program is a Start, a *)
(* Hear or a stuttering step of AnalysisFeed.                              *)

\* What a task sends is one of the two transcripts.
LEMMA TaskSendsTranscript ==
    ASSUME NEW l \in Loads, FileOf(l) \in Files, outcome[l] \in Outcomes
    PROVE  \E t \in Feed!Transcripts(FileOf(l)) :
              /\ t \in Seq([kind : Kinds, fn : Nat])
              /\ Len(t) = StreamLen(FileOf(l), outcome[l])
              /\ \A i \in 1 .. Len(t) : t[i] = SaidAt(l, i)
<1> DEFINE f == FileOf(l)
           n == Len(FunctionsOf[f])
           A == [kind : Kinds, fn : Nat]
           first == <<Feed!Said("SectionsLoaded", 0)>>
           fns == [i \in 1 .. n |-> Feed!Said("AnalysisFunctionReady", i)]
           last == <<Feed!Said("AnalysisDone", 0), Feed!Said("CallGraphReady", 0)>>
<1>1. n \in Nat
    BY CatalogAssumption
<1>2. CASE outcome[l] = "ok"
    <2>0. \A k \in Kinds, i \in Nat : Feed!Said(k, i) \in A /\ Feed!Said(k, i) = [kind |-> k, fn |-> i]
        BY DEF Feed!Said
    <2>k. {"SectionsLoaded", "AnalysisFunctionReady", "AnalysisDone",
           "CallGraphReady"} \subseteq Kinds
        BY DEF Kinds
    <2>1. first \in Seq(A) /\ Len(first) = 1 /\ first[1] = Feed!Said("SectionsLoaded", 0)
        <3> HIDE DEF A
        <3> QED BY <2>0, <2>k
    <2>2. /\ last \in Seq(A) /\ Len(last) = 2
          /\ last[1] = Feed!Said("AnalysisDone", 0)
          /\ last[2] = Feed!Said("CallGraphReady", 0)
        <3> HIDE DEF A
        <3> QED BY <2>0, <2>k
    <2>3. /\ fns \in Seq(A) /\ Len(fns) = n
          /\ \A i \in 1 .. n : fns[i] = Feed!Said("AnalysisFunctionReady", i)
        <3> HIDE DEF A
        <3> QED BY <1>1, <2>0, <2>k
    <2> DEFINE t == (first \o fns) \o last
    <2>4. t \in Feed!Transcripts(f)
        BY DEF Feed!Transcripts, Feed!Success
    <2> HIDE DEF first, fns, last, A
    <2>5. /\ first \o fns \in Seq(A) /\ Len(first \o fns) = n + 1
          /\ (first \o fns)[1] = first[1]
          /\ \A i \in 2 .. n + 1 : (first \o fns)[i] = fns[i - 1]
        BY <1>1, <2>1, <2>3, ConcatProperties
    <2>6. /\ t \in Seq(A) /\ Len(t) = n + 3
          /\ \A i \in 1 .. n + 1 : t[i] = (first \o fns)[i]
          /\ t[n + 2] = last[1]
          /\ t[n + 3] = last[2]
        <3> DEFINE u == first \o fns
        <3>1. t = u \o last /\ u \in Seq(A) /\ Len(u) = n + 1
            BY <2>5
        <3> HIDE DEF t, u
        <3>2. /\ t \in Seq(A) /\ Len(t) = Len(u) + Len(last)
              /\ \A i \in 1 .. Len(u) + Len(last) :
                    t[i] = IF i <= Len(u) THEN u[i] ELSE last[i - Len(u)]
            BY <2>2, <3>1, ConcatProperties
        <3>3. t[n + 2] = last[1] /\ t[n + 3] = last[2]
            BY <1>1, <2>2, <3>1, <3>2
        <3>4. \A i \in 1 .. n + 1 : t[i] = u[i]
            BY <1>1, <2>2, <3>1, <3>2
        <3>5. t \in Seq(A) /\ Len(t) = n + 3
            BY <1>1, <2>2, <3>1, <3>2
        <3> QED BY <3>3, <3>4, <3>5 DEF u
    <2>7. StreamLen(f, outcome[l]) = n + 3
        BY <1>2 DEF StreamLen
    <2> HIDE DEF t
    <2>8. ASSUME NEW i \in 1 .. n + 3
          PROVE  t[i] = SaidAt(l, i)
        <3>1. SaidAt(l, i) = [kind |-> StreamKind(f, "ok", i),
                              fn |-> IF StreamKind(f, "ok", i) = "AnalysisFunctionReady"
                                     THEN i - 1 ELSE 0]
            BY <1>2 DEF SaidAt, StreamEvent
        <3>2. CASE i = 1
            BY <1>1, <2>1, <2>5, <2>6, <3>1, <3>2 DEF StreamKind, Feed!Said
        <3>3. CASE i \in 2 .. n + 1
            <4>1. StreamKind(f, "ok", i) = "AnalysisFunctionReady"
                BY <1>1, <3>3 DEF StreamKind
            <4>2. i \in Nat /\ i >= 2 /\ i <= n + 1 /\ i - 1 \in 1 .. n
                BY <1>1, <3>3
            <4>3. i \in 2 .. n + 1 /\ i \in 1 .. n + 1
                BY <1>1, <4>2
            <4>4. t[i] = (first \o fns)[i] /\ (first \o fns)[i] = fns[i - 1]
                BY <2>5, <2>6, <4>3, Zenon
            <4> QED BY <2>3, <3>1, <4>1, <4>2, <4>4 DEF Feed!Said
        <3>4. CASE i = n + 2
            <4>1. StreamKind(f, "ok", i) = "AnalysisDone"
                BY <1>1, <3>4 DEF StreamKind
            <4> QED BY <2>2, <2>6, <3>1, <3>4, <4>1 DEF Feed!Said
        <3>5. CASE i = n + 3
            <4>1. StreamKind(f, "ok", i) = "CallGraphReady"
                BY <1>1, <3>5 DEF StreamKind
            <4> QED BY <2>2, <2>6, <3>1, <3>5, <4>1 DEF Feed!Said
        <3> QED BY <1>1, <3>2, <3>3, <3>4, <3>5
    <2> QED BY <2>4, <2>6, <2>7, <2>8 DEF A
<1>3. CASE outcome[l] # "ok"
    <2> DEFINE t == <<Feed!Said("AnalysisError", 0)>>
    <2>1. t \in Feed!Transcripts(f)
        BY DEF Feed!Transcripts, Feed!Failure
    <2>2. t \in Seq(A) /\ Len(t) = 1 /\ t[1] = [kind |-> "AnalysisError", fn |-> 0]
        <3>1. [kind |-> "AnalysisError", fn |-> 0] \in A
            BY DEF Kinds
        <3>2. t = <<[kind |-> "AnalysisError", fn |-> 0]>>
            BY DEF Feed!Said
        <3> HIDE DEF A, t
        <3> QED BY <3>1, <3>2
    <2>3. StreamLen(f, outcome[l]) = 1
        BY <1>3 DEF StreamLen
    <2>4. SaidAt(l, 1) = [kind |-> "AnalysisError", fn |-> 0]
        BY <1>3 DEF SaidAt, StreamEvent, StreamKind
    <2> HIDE DEF t
    <2> QED BY <2>1, <2>2, <2>3, <2>4
<1> QED BY <1>2, <1>3

LEMMA HearStep ==
    ASSUME TInv, HeardOK, ChannelInOrder, Drain
    PROVE  \E l \in 1 .. MaxLoads : Feed!Hear(l)
<1> DEFINE l == Head(chan).load
           n == Len(heard[l])
           said == [kind |-> Head(chan).kind, fn |-> Head(chan).fn]
           files == [i \in 1 .. Len(loads) |-> loads[i].file]
<1>1. /\ chan # <<>>
      /\ 1 \in 1 .. Len(chan)
      /\ Head(chan) = chan[1]
      /\ l \in 1 .. Len(loads)
      /\ l \in Loads
      /\ Head(chan).pos = n + 1
    BY HeadOfChannel, HeadIsNext DEF Drain
<1>2. /\ chan[1] = StreamEvent(l, FileOf(l), outcome[l], n + 1)
      /\ outcome[l] \in Outcomes
      /\ n + 1 \in 1 .. StreamLen(FileOf(l), outcome[l])
    BY <1>1 DEF TInv, TypeOK, ChannelOK
<1>3. said = SaidAt(l, n + 1)
    BY <1>1, <1>2 DEF SaidAt
<1>4. FileOf(l) \in Files /\ heard[l] \in Seq([kind : Kinds, fn : Nat]) /\ n \in Nat
    BY <1>1, FileOfLoad, HeardType DEF TInv, TypeOK, FileOf
<1>5. PICK t \in Feed!Transcripts(FileOf(l)) :
              /\ t \in Seq([kind : Kinds, fn : Nat])
              /\ Len(t) = StreamLen(FileOf(l), outcome[l])
              /\ \A i \in 1 .. Len(t) : t[i] = SaidAt(l, i)
    <2> HIDE DEF l
    <2> QED BY <1>1, <1>2, <1>4, TaskSendsTranscript
<1>6. /\ heard' = [heard EXCEPT ![l] = Append(@, said)]
      /\ loads' = loads
    BY DrainFrame
<1>7. Len(files) = Len(loads) /\ files[l] = FileOf(l)
    BY <1>1 DEF FileOf, TInv, TypeOK
<1> HIDE DEF l, n, said
<1>8. n < Len(t) /\ t[n + 1] = said /\ n + 1 \in 1 .. Len(t)
    BY <1>2, <1>3, <1>4, <1>5
<1>9. heard[l] = SubSeq(t, 1, n)
    <2>1. \A i \in 1 .. n : heard[l][i] = SaidAt(l, i) /\ t[i] = SaidAt(l, i)
        BY <1>1, <1>4, <1>5, <1>8 DEF HeardOK, n
    <2>2. /\ SubSeq(t, 1, n) \in Seq([kind : Kinds, fn : Nat])
          /\ Len(SubSeq(t, 1, n)) = n
          /\ \A i \in 1 .. n : SubSeq(t, 1, n)[i] = t[i]
        <3>1. n <= Len(t) /\ Len(t) \in Nat
            BY <1>4, <1>5, <1>8
        <3>2. \A i \in 1 .. n : t[i] \in [kind : Kinds, fn : Nat]
            <4>1. \A i \in 1 .. n : i \in 1 .. Len(t)
                BY <1>4, <3>1
            <4> QED BY <1>5, <4>1, ElementOfSeq
        <3>3. /\ SubSeq(t, 1, n) \in Seq([kind : Kinds, fn : Nat])
              /\ Len(SubSeq(t, 1, n)) = IF 1 <= n THEN n - 1 + 1 ELSE 0
              /\ \A i \in 1 .. n - 1 + 1 : SubSeq(t, 1, n)[i] = t[1 + i - 1]
            BY <1>4, <3>2, SubSeqProperties
        <3>4. n - 1 + 1 = n /\ \A i \in 1 .. n : 1 + i - 1 = i
            BY <1>4
        <3> QED BY <1>4, <3>3, <3>4
    <2> QED BY <1>4, <2>1, <2>2, SeqEqual DEF n
<1>10. Feed!Hear(l)
    <2>1. l <= Len(files)
        BY <1>1, <1>7
    <2>2. heard' = [heard EXCEPT ![l] = Append(@, t[Len(@) + 1])]
        BY <1>6, <1>8 DEF n
    <2>3. files' = files
        BY <1>6
    <2>4. t \in Feed!Transcripts(files[l])
        BY <1>5, <1>7
    <2>5. Len(heard[l]) < Len(t) /\ heard[l] = SubSeq(t, 1, Len(heard[l]))
        BY <1>8, <1>9 DEF n
    <2> HIDE DEF files
    <2> QED BY <2>1, <2>2, <2>3, <2>4, <2>5, Zenon DEF Feed!Hear, files
<1> QED BY <1>1, <1>10 DEF Loads

LEMMA StartStep ==
    ASSUME TInv, NEW f \in Files, LoadFile(f)
    PROVE  Feed!Start(f)
<1> DEFINE files == [i \in 1 .. Len(loads) |-> loads[i].file]
           new == [file |-> f, lang |-> language, alone |-> AllComplete]
<1>1. /\ loads \in Seq([file : Files, lang : Languages, alone : BOOLEAN])
      /\ Len(loads) \in Nat
      /\ Len(loads) < MaxLoads
      /\ loads' = Append(loads, new)
      /\ heard' = heard
    BY DEF TInv, TypeOK, LoadFile
<1>2. new \in [file : Files, lang : Languages, alone : BOOLEAN] /\ new.file = f
    BY LoadRecordType DEF TInv, TypeOK
<1> HIDE DEF new
<1>3. files \in Seq(Files) /\ Len(files) = Len(loads)
    <2>1. \A i \in 1 .. Len(loads) : loads[i].file \in Files
        BY <1>1, FileOfLoad
    <2> QED BY <1>1, <2>1
<1>4. /\ Len(loads') = Len(loads) + 1
      /\ loads'[Len(loads) + 1] = new
      /\ \A i \in 1 .. Len(loads) : loads'[i] = loads[i]
    BY <1>1, <1>2
<1>5. files' = Append(files, f)
    <2>1. /\ Append(files, f) \in Seq(Files)
          /\ Len(Append(files, f)) = Len(loads) + 1
          /\ Append(files, f)[Len(loads) + 1] = f
          /\ \A i \in 1 .. Len(loads) : Append(files, f)[i] = loads[i].file
        BY <1>1, <1>3
    <2>2. files' \in Seq(Files) /\ Len(files') = Len(loads) + 1
        <3>1. \A i \in 1 .. Len(loads') : loads'[i].file \in Files
            BY <1>1, <1>2, <1>4, FileOfLoad
        <3> QED BY <1>1, <1>4, <3>1
    <2>3. \A i \in 1 .. Len(loads) + 1 : files'[i] = Append(files, f)[i]
        BY <1>1, <1>2, <1>4, <2>1
    <2> HIDE DEF files
    <2> QED BY <2>1, <2>2, <2>3, SeqEqual
<1> QED BY <1>1, <1>3, <1>5 DEF Feed!Start

LEMMA FeedStep ==
    ASSUME TInv, HeardOK, ChannelInOrder, [Next]_vars
    PROVE  [Feed!FeedNext]_(Feed!feedVars)
<1>1. CASE \E f \in Files : LoadFile(f)
    BY <1>1, StartStep DEF Feed!FeedNext
<1>2. CASE Drain
    BY <1>2, HearStep DEF Feed!FeedNext
<1>3. CASE UNCHANGED <<loads, heard>>
    BY <1>3 DEF Feed!feedVars
<1> QED BY <1>1, <1>2, <1>3, ListSteps

(***************************************************************************)
(* Whatever loads overlap and however they end, what the listeners hear of *)
(* each is a growing prefix of its transcript: sections, the functions in  *)
(* analysis order, AnalysisDone, CallGraphReady, or the error alone.       *)
(***************************************************************************)
THEOREM BridgeImplementsFeed == Spec => FeedSafety
<1>1. Init => Feed!FeedInit
    <2>1. ASSUME Init
          PROVE  [i \in 1 .. Len(loads) |-> loads[i].file] = <<>>
        <3>1. Len(loads) = 0
            BY <2>1 DEF Init, BridgeInit
        <3> QED BY <3>1
    <2> QED BY <2>1 DEF Init, BridgeInit, Feed!FeedInit, Loads
<1>2. TInv /\ HeardOK /\ ChannelInOrder /\ [Next]_vars
        => [Feed!FeedNext]_(Feed!feedVars)
    BY FeedStep
<1> QED BY <1>1, <1>2, FeedInvariant, PTL DEF Spec, FeedSafety, Feed!FeedSafety
-----------------------------------------------------------------------------
(* One load at a time.                                                     *)

(***************************************************************************)
(* The panels after n events of a load of f that ended as o: everything    *)
(* they show comes from that load, and says how far it has got.            *)
(***************************************************************************)
PanelsAfter(f, o, n) ==
    LET size == Len(FunctionsOf[f])
    IN  /\ buttons = IF o = "ok" /\ n >= 1 THEN SectionsOf[f] ELSE <<>>
        /\ Len(rows) = IF o # "ok" \/ n = 0 THEN 0
                       ELSE IF n <= size + 1 THEN n - 1 ELSE size
        /\ \A i \in 1 .. Len(rows) : rows[i] = FunctionsOf[f][i]
        /\ fullScript <=> o = "ok" /\ n >= size + 2
        /\ nodes = IF o = "ok" /\ n = size + 3 THEN NodesOf[f] ELSE <<>>

\* All loads but the last are complete, and the panels follow the last.
PanelsFollow ==
    LET l == Len(loads)
    IN  l > 0 => /\ \A m \in 1 .. l - 1 : Complete(m)
                 /\ PanelsAfter(FileOf(l), outcome[l], Len(heard[l]))

\* What a step changes of what SerialInv speaks of.
LEMMA SerialSteps ==
    ASSUME [Next]_vars
    PROVE  \/ UNCHANGED <<loads, outcome, heard, fnMap, fnOrder, secMap,
                        rows, buttons, fullScript, nodes>>
           \/ \E f \in Files : LoadFile(f)
           \/ \E l \in Loads, o \in Outcomes : AnalysisEnds(l, o)
           \/ Drain
<1> DEFINE Same == UNCHANGED <<loads, outcome, heard, fnMap, fnOrder, secMap,
                               rows, buttons, fullScript, nodes>>
<1> USE DEF mapVars, taskVars, explorerVars, graphVars
<1>1. ASSUME NEW lang \in Languages, SetLanguage(lang) PROVE Same
    BY <1>1 DEF SetLanguage
<1>2. ASSUME NEW i, ActivateRow(i) PROVE Same
    BY <1>2 DEF ActivateRow
<1>3. ASSUME NEW i, ClickNode(i) PROVE Same
    BY <1>3 DEF ClickNode, GraphClick
<1>4. ASSUME NEW i, ClickSection(i) PROVE Same
    BY <1>4 DEF ClickSection
<1>5. ASSUME ClickFullScript PROVE Same
    BY <1>5 DEF ClickFullScript
<1>6. ASSUME NEW l, Send(l) PROVE Same
    BY <1>6 DEF Send
<1>7. ASSUME UNCHANGED vars PROVE Same
    BY <1>7 DEF vars
<1> HIDE DEF Same
<1>8. CASE Browse
    BY <1>1, <1>2, <1>3, <1>4, <1>5, <1>8, Zenon DEF Browse, Same
<1>9. CASE SystemStep
    BY <1>6, <1>9, Zenon DEF SystemStep, Same
<1> QED BY <1>7, <1>8, <1>9 DEF Next, UserStep, Same

\* A new load clears the panels.
LEMMA PanelsLoad ==
    ASSUME TInv, HeardOK, AllComplete, NEW f \in Files, LoadFile(f)
    PROVE  PanelsFollow'
<1>0. PICK l \in Loads : l = Len(loads) + 1
    BY CatalogAssumption DEF LoadFile, TInv, TypeOK, Loads
<1>1. /\ Len(loads) \in Nat
      /\ Len(loads) = l - 1
      /\ Len(loads') = l
      /\ \A m \in 1 .. Len(loads) : loads'[m] = loads[m]
      /\ UNCHANGED <<outcome, heard>>
    BY <1>0, LoadFileGrows DEF LoadsGrow, LoadFile, TInv, TypeOK
<1>2. \A m \in 1 .. l - 1 : Complete(m)'
    <2>1. ASSUME NEW m \in 1 .. l - 1
          PROVE  Complete(m)'
        <3>1. m \in 1 .. Len(loads) /\ Complete(m)
            BY <1>1 DEF AllComplete
        <3> QED BY <1>1, <3>1 DEF Complete, FileOf
    <2> QED BY <2>1
<1>3. Len(heard[l]) = 0
    BY <1>0, <1>1 DEF HeardOK
<1>4. rows' = <<>> /\ buttons' = <<>> /\ fullScript' = FALSE /\ nodes' = <<>>
    <2>1. StartedEvent(l, f).kind = "AnalysisStarted"
        BY DEF StartedEvent
    <2>2. ExplorerOn(StartedEvent(l, f)) /\ GraphOn(StartedEvent(l, f))
        BY <1>0 DEF LoadFile, Dispatch
    <2> QED BY <2>1, <2>2 DEF ExplorerOn, GraphOn, ExplorerStarted, GraphStarted
<1>5. ASSUME NEW g \in Files, NEW o
      PROVE  PanelsAfter(g, o, 0)'
    <2>1. Len(FunctionsOf[g]) \in Nat
        BY CatalogAssumption
    <2> QED BY <1>4, <2>1 DEF PanelsAfter
<1>6. FileOf(l)' \in Files
    <2>1. loads' \in Seq([file : Files, lang : Languages, alone : BOOLEAN])
        BY LoadFileType DEF TInv, TypeOK
    <2>2. l \in 1 .. Len(loads')
        BY <1>0, <1>1
    <2>3. loads'[l] \in [file : Files, lang : Languages, alone : BOOLEAN]
        BY <2>1, <2>2, ElementOfSeq
    <2> QED BY <2>3 DEF FileOf
<1>7. PanelsAfter(FileOf(l), outcome[l], Len(heard[l]))'
    <2>1. PICK g \in Files, o \in {outcome'[l]} : g = FileOf(l)'
        BY <1>6
    <2>2. Len(heard'[l]) = 0
        BY <1>1, <1>3
    <2>3. PanelsAfter(g, o, 0)'
        BY <1>5
    <2> QED BY <2>1, <2>2, <2>3 DEF PanelsAfter
<1> QED BY <1>1, <1>2, <1>7 DEF PanelsFollow

\* How an analysis ends is heard later.
LEMMA PanelsEnds ==
    ASSUME TInv, HeardOK, PanelsFollow,
           NEW k \in Loads, NEW o \in Outcomes, AnalysisEnds(k, o)
    PROVE  PanelsFollow'
<1> DEFINE l == Len(loads)
<1>1. /\ k \in 1 .. l
      /\ outcome[k] = "pending"
      /\ outcome' = [outcome EXCEPT ![k] = o]
      /\ UNCHANGED <<loads, heard, rows, buttons, fullScript, nodes>>
      /\ l \in Nat
      /\ outcome \in [Loads -> Outcomes \cup {"pending"}]
    BY DEF AnalysisEnds, explorerVars, graphVars, TInv, TypeOK
<1>2. \A m \in 1 .. l - 1 : Complete(m)
    BY <1>1 DEF PanelsFollow
<1>3. k = l
    BY <1>1, <1>2 DEF Complete
<1>4. Len(heard[l]) = 0
    BY <1>1, <1>3 DEF HeardOK
<1>5. \A m \in 1 .. l - 1 : Complete(m)'
    BY <1>1, <1>2, <1>3 DEF Complete, FileOf
<1>6. PanelsAfter(FileOf(l), outcome[l], 0)
    BY <1>1, <1>4 DEF PanelsFollow
<1>7. FileOf(l) \in Files
    <2>1. loads \in Seq([file : Files, lang : Languages, alone : BOOLEAN]) /\ l \in 1 .. Len(loads)
        BY <1>1, <1>3 DEF TInv, TypeOK
    <2> HIDE DEF l
    <2> QED BY <2>1, FileOfLoad DEF FileOf
<1>8. Len(FunctionsOf[FileOf(l)]) \in Nat
    BY <1>7, CatalogAssumption
<1>9. PanelsAfter(FileOf(l), outcome[l], 0)'
    BY <1>1, <1>6, <1>8 DEF PanelsAfter, FileOf
<1> QED BY <1>1, <1>4, <1>5, <1>9 DEF PanelsFollow

\* The panels after one more event of a load.
LEMMA PanelsHear ==
    ASSUME TInv, NEW l \in Loads, NEW f \in Files, NEW o \in Outcomes, NEW n \in Nat,
           PanelsAfter(f, o, n), n + 1 \in 1 .. StreamLen(f, o),
           Dispatch(StreamEvent(l, f, o, n + 1))
    PROVE  PanelsAfter(f, o, n + 1)'
<1> DEFINE ev == StreamEvent(l, f, o, n + 1)
           size == Len(FunctionsOf[f])
<1>1. /\ size \in Nat
      /\ FunctionsOf[f] \in Seq(Names)
      /\ rows \in Seq(Names)
      /\ Len(rows) \in Nat
    BY CatalogAssumption, LenProperties DEF TInv, TypeOK, ExplorerTypeOK
<1>2. /\ ev.kind = StreamKind(f, o, n + 1)
      /\ ev.file = f
      /\ ev.kind = "AnalysisFunctionReady" => ev.fn = n
    BY DEF StreamEvent
<1>3. ExplorerOn(ev) /\ GraphOn(ev)
    BY DEF Dispatch
<1> HIDE DEF ev
<1>4. CASE o # "ok"
    <2>1. ev.kind = "AnalysisError"
        BY <1>2, <1>4 DEF StreamKind
    <2>2. UNCHANGED <<rows, buttons, fullScript, nodes>>
        BY <1>3, <2>1 DEF ExplorerOn, GraphOn, explorerVars, graphVars
    <2> QED BY <1>1, <1>4, <2>2 DEF PanelsAfter
<1>5. CASE o = "ok" /\ n = 0
    <2>1. ev.kind = "SectionsLoaded"
        BY <1>2, <1>5 DEF StreamKind
    <2>2. buttons' = SectionsOf[f] /\ UNCHANGED <<rows, fullScript, nodes>>
        BY <1>2, <1>3, <2>1 DEF ExplorerOn, GraphOn, ExplorerSections, graphVars
    <2> QED BY <1>1, <1>5, <2>2 DEF PanelsAfter
<1>6. CASE o = "ok" /\ n \in 1 .. size
    <2>1. ev.kind = "AnalysisFunctionReady"
        BY <1>1, <1>2, <1>6 DEF StreamKind
    <2>2. /\ rows' = Append(rows, FunctionsOf[f][n])
          /\ UNCHANGED <<buttons, fullScript, nodes>>
        BY <1>2, <1>3, <2>1 DEF ExplorerOn, GraphOn, ExplorerFunction, graphVars
    <2>3. /\ Len(rows') = n
          /\ \A i \in 1 .. n : rows'[i] = FunctionsOf[f][i]
        <3>1. Len(rows) = n - 1 /\ \A i \in 1 .. Len(rows) : rows[i] = FunctionsOf[f][i]
            BY <1>1, <1>6 DEF PanelsAfter
        <3>2. FunctionsOf[f][n] \in Names
            BY <1>1, <1>6, ElementOfSeq
        <3>3. /\ Len(rows') = Len(rows) + 1
              /\ rows'[Len(rows) + 1] = FunctionsOf[f][n]
              /\ \A i \in 1 .. Len(rows) : rows'[i] = rows[i]
            BY <1>1, <2>2, <3>2, AppendProperties
        <3> QED BY <1>6, <3>1, <3>3
    <2>4. buttons' = SectionsOf[f] /\ ~ fullScript' /\ nodes' = <<>>
        BY <1>1, <1>6, <2>2 DEF PanelsAfter
    <2> QED BY <1>1, <1>6, <2>3, <2>4 DEF PanelsAfter
<1>7. CASE o = "ok" /\ n = size + 1
    <2>1. ev.kind = "AnalysisDone"
        BY <1>1, <1>2, <1>7 DEF StreamKind
    <2>2. fullScript' = TRUE /\ UNCHANGED <<rows, buttons, nodes>>
        BY <1>3, <2>1 DEF ExplorerOn, GraphOn, ExplorerDone, graphVars
    <2> QED BY <1>1, <1>7, <2>2 DEF PanelsAfter
<1>8. CASE o = "ok" /\ n = size + 2
    <2>1. ev.kind = "CallGraphReady"
        BY <1>1, <1>2, <1>8 DEF StreamKind
    <2>2. nodes' = NodesOf[f] /\ UNCHANGED <<rows, buttons, fullScript>>
        BY <1>2, <1>3, <2>1 DEF ExplorerOn, GraphOn, explorerVars
    <2> QED BY <1>1, <1>8, <2>2 DEF PanelsAfter
<1>9. o = "ok" => n \in 0 .. size + 2
    BY <1>1 DEF StreamLen
<1> QED BY <1>1, <1>4, <1>5, <1>6, <1>7, <1>8, <1>9

\* What is heard comes from the last load.
LEMMA HeardIsLast ==
    ASSUME TInv, HeardOK, ChannelInOrder, PanelsFollow, Drain
    PROVE  Head(chan).load = Len(loads)
<1> DEFINE k == Head(chan).load
           l == Len(loads)
<1>1. /\ k \in 1 .. l
      /\ k \in Loads
      /\ Head(chan) = chan[1]
      /\ 1 \in 1 .. Len(chan)
      /\ Head(chan).pos = Len(heard[k]) + 1
      /\ l \in Nat
    <2>1. chan # <<>>
        BY DEF Drain
    <2>2. l \in Nat
        BY DEF TInv, TypeOK
    <2> QED BY <2>1, <2>2, HeadOfChannel, HeadIsNext
<1>2. /\ outcome[k] \in Outcomes
      /\ Len(heard[k]) + 1 \in 1 .. StreamLen(FileOf(k), outcome[k])
    BY <1>1 DEF TInv, TypeOK, ChannelOK
<1>3. \A m \in 1 .. l - 1 : Complete(m)
    BY <1>1 DEF PanelsFollow
<1>4. Len(heard[k]) \in Nat /\ FileOf(k) \in Files
    BY <1>1, HeardType, FileOfLoad DEF FileOf, TInv, TypeOK
<1>5. StreamLen(FileOf(k), outcome[k]) \in Nat
    BY <1>2, <1>4, StreamLenType
<1> HIDE DEF k
<1>6. ~ Complete(k)
    BY <1>2, <1>4, <1>5 DEF Complete, FileOf
<1> QED BY <1>1, <1>3, <1>6 DEF k

\* What is heard is the next event of the last load.
LEMMA PanelsDrain ==
    ASSUME TInv, HeardOK, ChannelInOrder, PanelsFollow, Drain
    PROVE  PanelsFollow'
<1> DEFINE k == Head(chan).load
           l == Len(loads)
           said == [kind |-> Head(chan).kind, fn |-> Head(chan).fn]
<1>1. /\ chan # <<>>
      /\ 1 \in 1 .. Len(chan)
      /\ Head(chan) = chan[1]
      /\ k \in 1 .. l
      /\ k \in Loads
      /\ Head(chan).pos = Len(heard[k]) + 1
      /\ l \in Nat
    <2>1. chan # <<>>
        BY DEF Drain
    <2>2. l \in Nat
        BY DEF TInv, TypeOK
    <2> QED BY <2>1, <2>2, HeadOfChannel, HeadIsNext
<1>2. /\ Head(chan) = StreamEvent(k, FileOf(k), outcome[k], Len(heard[k]) + 1)
      /\ outcome[k] \in Outcomes
      /\ Len(heard[k]) + 1 \in 1 .. StreamLen(FileOf(k), outcome[k])
    BY <1>1 DEF TInv, TypeOK, ChannelOK
<1>3. /\ \A m \in 1 .. l - 1 : Complete(m)
      /\ PanelsAfter(FileOf(l), outcome[l], Len(heard[l]))
    BY <1>1 DEF PanelsFollow
<1>4. Len(heard[k]) \in Nat /\ FileOf(k) \in Files
    BY <1>1, HeardType, FileOfLoad DEF FileOf, TInv, TypeOK
<1>5. k = l
    BY HeardIsLast
<1>6. UNCHANGED <<loads, outcome>> /\ heard' = [heard EXCEPT ![k] = Append(@, said)]
    BY DrainFrame
<1>7. Len(heard'[l]) = Len(heard[l]) + 1 /\ \A m \in 1 .. l - 1 : heard'[m] = heard[m]
    <2>1. heard \in [Loads -> Seq([kind : Kinds, fn : Nat])]
        BY DEF TInv, TypeOK
    <2>2. heard[k] \in Seq([kind : Kinds, fn : Nat])
        BY <1>1, <2>1
    <2> HIDE DEF k, said
    <2>3. heard'[k] = Append(heard[k], said) /\ \A m \in Loads \ {k} : heard'[m] = heard[m]
        BY <1>1, <1>6, <2>1
    <2>4. \A m \in 1 .. l - 1 : m \in Loads \ {k}
        BY <1>1, <1>5, CatalogAssumption DEF Loads
    <2>5. Len(Append(heard[k], said)) = Len(heard[k]) + 1
        BY <2>2
    <2> QED BY <1>5, <2>3, <2>4, <2>5
<1>8. \E g \in Files, p \in Outcomes, q \in Nat :
        /\ g = FileOf(l) /\ p = outcome[l] /\ q = Len(heard[l])
        /\ PanelsAfter(g, p, q + 1)'
    <2>1. Dispatch(StreamEvent(k, FileOf(k), outcome[k], Len(heard[k]) + 1))
        BY <1>2 DEF Drain
    <2> DEFINE f == FileOf(l)
               o == outcome[l]
               n == Len(heard[l])
    <2>2. f \in Files /\ o \in Outcomes /\ n \in Nat /\ l \in Loads
        BY <1>1, <1>2, <1>4, <1>5
    <2>3. PanelsAfter(f, o, n) /\ n + 1 \in 1 .. StreamLen(f, o)
        BY <1>2, <1>3, <1>5
    <2>4. Dispatch(StreamEvent(l, f, o, n + 1))
        BY <1>5, <2>1
    <2>5. PICK g \in Files, p \in Outcomes, q \in Nat, j \in Loads :
                g = f /\ p = o /\ q = n /\ j = l
        BY <2>2
    <2>6. PanelsAfter(g, p, q + 1)'
        <3> HIDE DEF f, o, n, l
        <3> QED BY <2>3, <2>4, <2>5, PanelsHear
    <2> QED BY <2>5, <2>6
<1>9. \A m \in 1 .. l - 1 : Complete(m)'
    <2>1. ASSUME NEW m \in 1 .. l - 1
          PROVE  Complete(m)'
        BY <1>3, <1>6, <1>7 DEF Complete, FileOf
    <2> QED BY <2>1
<1>10. PanelsAfter(FileOf(l), outcome[l], Len(heard[l]))'
    <2>1. PICK g \in Files, p \in Outcomes, q \in Nat :
            /\ g = FileOf(l) /\ p = outcome[l] /\ q = Len(heard[l])
            /\ PanelsAfter(g, p, q + 1)'
        BY <1>8
    <2>2. FileOf(l)' = g /\ outcome'[l] = p /\ Len(heard'[l]) = q + 1 /\ l' = l
        BY <1>6, <1>7, <2>1 DEF FileOf
    <2> HIDE DEF k, said, l
    <2> QED BY <2>1, <2>2 DEF PanelsAfter
<1>11. l' = l
    BY <1>6
<1> QED BY <1>9, <1>10, <1>11 DEF PanelsFollow

\* What that says of the panels.
PanelFacts ==
    LET l == Len(loads)
        own == FunctionsOf[FileOf(l)]
    IN  /\ buttons \in {<<>>, SectionsOf[FileOf(l)]}
        /\ IsPrefix(rows, own)
        /\ fullScript => rows = own
        /\ nodes # <<>> => nodes = NodesOf[FileOf(l)] /\ fullScript
        /\ Complete(l) /\ outcome[l] = "ok" => fullScript

LEMMA SerialShows ==
    ASSUME TInv, PanelsFollow, Len(loads) > 0
    PROVE  PanelFacts
<1> DEFINE l == Len(loads)
           f == FileOf(l)
           n == Len(heard[l])
           F == FunctionsOf[f]
<1>1. l \in 1 .. Len(loads) /\ l \in Loads
    BY CatalogAssumption DEF TInv, TypeOK, Loads
<1>2. PanelsAfter(f, outcome[l], n)
    BY DEF PanelsFollow
<1>3. n \in Nat /\ f \in Files
    BY <1>1, HeardType, FileOfLoad DEF FileOf, TInv, TypeOK
<1>4. F \in Seq(Names) /\ Len(F) \in Nat /\ rows \in Seq(Names) /\ Len(rows) \in Nat
    BY <1>3, CatalogAssumption DEF TInv, TypeOK, ExplorerTypeOK
<1> HIDE DEF l, f, n
<1>5. Len(rows) <= Len(F) /\ \A i \in 1 .. Len(rows) : rows[i] = F[i]
    BY <1>2, <1>3, <1>4 DEF PanelsAfter
<1>6. fullScript => Len(rows) = Len(F)
    BY <1>2, <1>3, <1>4 DEF PanelsAfter
<1>7. buttons \in {<<>>, SectionsOf[f]}
    BY <1>2 DEF PanelsAfter
<1>8. nodes # <<>> => nodes = NodesOf[f] /\ fullScript
    BY <1>2, <1>3, <1>4 DEF PanelsAfter
<1>9. Complete(l) /\ outcome[l] = "ok" => fullScript
    BY <1>2, <1>3, <1>4 DEF PanelsAfter, Complete, StreamLen, FileOf, f, n
<1> HIDE DEF F
<1>10. fullScript => rows = F
    BY <1>4, <1>5, <1>6, SeqEqual
<1>11. IsPrefix(rows, F)
    <2>1. \A i \in 1 .. Len(rows) : rows[i] \in Names /\ F[i] \in Names
        <3>1. \A i \in 1 .. Len(rows) : i \in 1 .. Len(F)
            BY <1>4, <1>5
        <3> QED BY <1>4, <3>1, ElementOfSeq
    <2>2. /\ SubSeq(rows, 1, Len(rows)) \in Seq(Names)
          /\ Len(SubSeq(rows, 1, Len(rows))) = Len(rows)
          /\ \A i \in 1 .. Len(rows) : SubSeq(rows, 1, Len(rows))[i] = rows[i]
        BY <1>4, <2>1, SubSeqProperties
    <2>3. /\ SubSeq(F, 1, Len(rows)) \in Seq(Names)
          /\ Len(SubSeq(F, 1, Len(rows))) = Len(rows)
          /\ \A i \in 1 .. Len(rows) : SubSeq(F, 1, Len(rows))[i] = F[i]
        BY <1>4, <1>5, <2>1, SubSeqProperties
    <2>4. SubSeq(rows, 1, Len(rows)) = SubSeq(F, 1, Len(rows))
        BY <1>5, <2>2, <2>3, SeqEqual
    <2> QED BY <1>5, <2>4 DEF IsPrefix
<1> QED BY <1>7, <1>8, <1>9, <1>10, <1>11 DEF PanelFacts, f, F, l

(***************************************************************************)
(* The maps and the text: rows and buttons lead to the last load, and the  *)
(* code panel shows nothing else under a name of its file.                 *)
(***************************************************************************)
MapsFollow ==
    Len(loads) > 0 =>
        /\ \A i \in 1 .. Len(rows) : fnMap[rows[i]].load = Len(loads)
        /\ \A i \in 1 .. Len(buttons) : secMap[buttons[i]].load = Len(loads)

OwnCode(p) ==
    \/ p.load = Len(loads)
    \/ PieceName(p) \notin ToSet(FunctionsOf[FileOf(Len(loads))])

TextFollows ==
    Len(loads) > 0 =>
        /\ text.kind = "Section" => text.pieces[1].load = Len(loads)
        /\ text.kind = "Code" => \A i \in 1 .. Len(text.pieces) : OwnCode(text.pieces[i])

SerialInv == OneAtATime => PanelsFollow /\ MapsFollow /\ TextFollows

\* A load made alone follows loads made alone that are complete.
LEMMA AloneLoad ==
    ASSUME TInv, NEW f \in Files, LoadFile(f), OneAtATime'
    PROVE  OneAtATime /\ AllComplete
<1> DEFINE new == [file |-> f, lang |-> language, alone |-> AllComplete]
<1>1. /\ new \in [file : Files, lang : Languages, alone : BOOLEAN]
      /\ loads \in Seq([file : Files, lang : Languages, alone : BOOLEAN])
      /\ loads' = Append(loads, new)
    BY LoadRecordType DEF LoadFile, TInv, TypeOK
<1>2. new.alone = AllComplete
    OBVIOUS
<1> HIDE DEF new
<1>3. /\ Len(loads') = Len(loads) + 1
      /\ loads'[Len(loads) + 1] = new
      /\ \A i \in 1 .. Len(loads) : loads'[i] = loads[i]
      /\ Len(loads) \in Nat
    BY <1>1, AppendProperties
<1>4. new.alone
    BY <1>3 DEF OneAtATime
<1>5. OneAtATime
    BY <1>3 DEF OneAtATime
<1> QED BY <1>2, <1>4, <1>5

\* A new load empties the lists and the text.
LEMMA MapsLoad ==
    ASSUME TInv, NEW f \in Files, LoadFile(f)
    PROVE  MapsFollow' /\ TextFollows'
<1> DEFINE ev == StartedEvent(Len(loads) + 1, f)
<1>1. ev.kind = "AnalysisStarted"
    BY DEF StartedEvent
<1>2. ExplorerOn(ev) /\ CodeOn(ev)
    BY DEF LoadFile, Dispatch
<1> HIDE DEF ev
<1>3. rows' = <<>> /\ buttons' = <<>> /\ text' = Plain("Analysing")
    BY <1>1, <1>2 DEF ExplorerOn, ExplorerStarted, CodeOn
<1>4. text'.kind = "Analysing"
    BY <1>3 DEF Plain
<1> QED BY <1>3, <1>4 DEF MapsFollow, TextFollows

\* What the last load adds to a list, the maps lead to.
LEMMA MapsDrain ==
    ASSUME TInv, RowsAreSelectable, MapsFollow, Drain, Head(chan).load = Len(loads)
    PROVE  MapsFollow'
<1> DEFINE ev == Head(chan)
           names == SectionsOf[ev.file]
           name == FunctionsOf[ev.file][ev.fn]
           l == Len(loads)
<1>1. /\ ev.load = l
      /\ ev.file \in Files
      /\ l > 0
      /\ loads' = loads
      /\ ev.kind = "AnalysisFunctionReady" =>
            ev.fn \in 1 .. Len(FunctionsOf[ev.file])
    BY HeadOfChannel DEF Drain, taskVars, Event, Loads
<1>2. /\ \A i \in 1 .. Len(rows) : fnMap[rows[i]].load = l
      /\ \A i \in 1 .. Len(buttons) : secMap[buttons[i]].load = l
    BY <1>1 DEF MapsFollow
<1>3. CASE PutSections(ev) /\ ExplorerSections(ev)
    <2>1. /\ buttons' = names /\ rows' = rows /\ fnMap' = fnMap
          /\ \A n \in ToSet(names) :
                secMap'[n] = [load |-> ev.load, fn |-> LastIndexOf(names, n)]
        BY <1>3 DEF PutSections, ExplorerSections
    <2>2. \A i \in 1 .. Len(names) : names[i] \in ToSet(names)
        BY <1>1, CatalogAssumption DEF ToSet
    <2>3. \A n \in ToSet(names) : secMap'[n].load = l
        <3> HIDE DEF names
        <3>1. ASSUME NEW n \in ToSet(names)
              PROVE  secMap'[n].load = l
            <4>1. secMap'[n] = [load |-> ev.load, fn |-> LastIndexOf(names, n)]
                BY <2>1, <3>1
            <4> QED BY <1>1, <4>1
        <3> QED BY <3>1
    <2> HIDE DEF names, ev
    <2>4. \A i \in 1 .. Len(buttons') : secMap'[buttons'[i]].load = l
        BY <2>1, <2>2, <2>3
    <2> QED BY <1>1, <1>2, <2>1, <2>4 DEF MapsFollow
<1>4. CASE ev.kind = "AnalysisFunctionReady" /\ PutFunction(ev) /\ ExplorerFunction(ev)
    <2>1. /\ buttons' = buttons /\ secMap' = secMap
          /\ rows' = Append(rows, name)
          /\ \A n \in DOMAIN fnMap \cup {name} :
                fnMap'[n] = IF n = name THEN [load |-> ev.load, fn |-> ev.fn]
                                        ELSE fnMap[n]
        BY <1>4 DEF PutFunction, ExplorerFunction, MapInsert
    <2>2. name \in Names /\ rows \in Seq(Names)
        BY <1>1, <1>4, CatalogAssumption, ElementOfSeq DEF TInv, TypeOK, ExplorerTypeOK
    <2>3. fnMap'[name].load = l
        BY <1>1, <2>1
    <2>4. \A n \in DOMAIN fnMap : fnMap'[n].load \in {fnMap[n].load, l}
        BY <2>1, <2>3
    <2> HIDE DEF name, ev
    <2>5. /\ Len(rows') = Len(rows) + 1
          /\ rows'[Len(rows) + 1] = name
          /\ \A i \in 1 .. Len(rows) : rows'[i] = rows[i]
          /\ Len(rows) \in Nat
        BY <2>1, <2>2, AppendProperties
    <2>6. \A i \in 1 .. Len(rows') : fnMap'[rows'[i]].load = l
        <3>1. ASSUME NEW i \in 1 .. Len(rows')
              PROVE  fnMap'[rows'[i]].load = l
            <4>1. CASE i = Len(rows) + 1
                BY <2>3, <2>5, <4>1
            <4>2. CASE i \in 1 .. Len(rows)
                <5>1. rows[i] \in DOMAIN fnMap /\ fnMap[rows[i]].load = l
                    BY <1>2, <4>2 DEF RowsAreSelectable
                <5> QED BY <2>4, <2>5, <4>2, <5>1
            <4> QED BY <2>5, <4>1, <4>2
        <3> QED BY <3>1
    <2> QED BY <1>1, <1>2, <2>1, <2>6 DEF MapsFollow
<1>5. CASE UNCHANGED mapVars /\ UNCHANGED <<rows, buttons>>
    BY <1>1, <1>2, <1>5 DEF MapsFollow, mapVars
<1> QED BY <1>3, <1>4, <1>5, RowsAfter DEF ExplorerDone, explorerVars

\* An event leaves code and sections on the panel or takes them away.
LEMMA TextDrain ==
    ASSUME TInv, TextFollows, Drain
    PROVE  TextFollows'
<1> DEFINE ev == Head(chan)
<1>1. CodeOn(ev) /\ ev.kind # "AnalysisStarted" /\ loads' = loads
    BY HeadOfChannel DEF Drain, Dispatch, taskVars
<1> HIDE DEF ev
<1>2. text' = text \/ text'.kind \in {"DonePrompt", "Error"}
    BY <1>1 DEF CodeOn, CodeDone, CodeError, Plain
<1> QED BY <1>1, <1>2 DEF TextFollows, OwnCode, PieceName, FileOf

\* Where the code panel gets new text from.
LEMMA TextSteps ==
    ASSUME [Next]_vars,
           UNCHANGED <<loads, outcome, heard, fnMap, fnOrder, secMap,
                       rows, buttons, fullScript, nodes>>
    PROVE  \/ UNCHANGED text
           \/ \E i \in 1 .. Len(rows) : SelectFunction(rows[i])
           \/ \E i \in 1 .. Len(nodes) : SelectFunction(nodes[i])
           \/ \E i \in 1 .. Len(buttons) : ShowSection(secMap[buttons[i]])
           \/ fullScript /\ ShowCode(Script)
           \/ (\E f \in Files : LoadFile(f)) \/ Drain
<1>1. ASSUME NEW i \in 0 .. Len(nodes), ClickNode(i), i # 0
      PROVE  i \in 1 .. Len(nodes) /\ SelectFunction(nodes[i])
    BY <1>1 DEF ClickNode
<1>2. CASE Browse
    BY <1>1, <1>2, Zenon DEF Browse, SetLanguage, ActivateRow, ClickNode, ClickSection,
                             ClickFullScript
<1>3. CASE SystemStep
    BY <1>3 DEF SystemStep, AnalysisEnds, Send
<1>4. CASE UNCHANGED vars
    BY <1>4 DEF vars
<1> QED BY <1>2, <1>3, <1>4 DEF Next, UserStep

\* A piece of the function map has a name of the file only if it is the file's.
LEMMA PieceOfMap ==
    ASSUME TInv, MapKeepsNames, MapsFollow, PanelsFollow, Len(loads) > 0, fullScript,
           NEW n \in DOMAIN fnMap
    PROVE  OwnCode(fnMap[n])
<1>1. rows = FunctionsOf[FileOf(Len(loads))]
    BY SerialShows DEF PanelFacts
<1>2. CASE n \in ToSet(rows)
    <2>1. DOMAIN rows = 1 .. Len(rows)
        BY DEF TInv, TypeOK, ExplorerTypeOK
    <2>2. PICK i \in 1 .. Len(rows) : n = rows[i]
        BY <1>2, <2>1, Zenon DEF ToSet
    <2> QED BY <2>2 DEF MapsFollow, OwnCode
<1>3. PieceName(fnMap[n]) = n
    BY DEF MapKeepsNames
<1> QED BY <1>1, <1>2, <1>3 DEF OwnCode

\* One piece on the panel.
LEMMA OnePiece ==
    ASSUME NEW p, TInv, Len(loads) > 0, OwnCode(p), ShowCode(<<p>>), loads' = loads
    PROVE  TextFollows'
<1>1. text'.kind = "Code" /\ text'.pieces = <<p>>
    BY DEF ShowCode
<1>2. \A i \in 1 .. Len(text'.pieces) : text'.pieces[i] = p
    BY <1>1
<1>3. \A i \in 1 .. Len(text'.pieces) : OwnCode(text.pieces[i])'
    BY <1>2 DEF OwnCode, PieceName, FileOf
<1> QED BY <1>1, <1>3 DEF TextFollows

LEMMA TextSame ==
    ASSUME TInv, RowsAreSelectable, MapKeepsNames, PanelsFollow, MapsFollow, TextFollows,
           [Next]_vars,
           UNCHANGED <<loads, outcome, heard, fnMap, fnOrder, secMap,
                       rows, buttons, fullScript, nodes>>,
           ~ (\E f \in Files : LoadFile(f)), ~ Drain
    PROVE  TextFollows'
<1> SUFFICES ASSUME Len(loads) > 0
             PROVE  TextFollows'
    BY DEF TextFollows
<1>1. CASE UNCHANGED text
    BY <1>1 DEF TextFollows, OwnCode, PieceName, FileOf
<1>2. CASE \E i \in 1 .. Len(rows) : SelectFunction(rows[i])
    <2>1. PICK i \in 1 .. Len(rows) : SelectFunction(rows[i])
        BY <1>2
    <2>2. rows[i] \in DOMAIN fnMap /\ OwnCode(fnMap[rows[i]])
        BY DEF RowsAreSelectable, MapsFollow, OwnCode
    <2> QED BY <2>1, <2>2, OnePiece DEF SelectFunction
<1>3. CASE \E i \in 1 .. Len(nodes) : SelectFunction(nodes[i])
    <2>1. PICK i \in 1 .. Len(nodes) : SelectFunction(nodes[i])
        BY <1>3
    <2>2. nodes # <<>>
        BY <2>1
    <2>3. fullScript
        BY <2>2, SerialShows DEF PanelFacts
    <2>4. CASE nodes[i] \in DOMAIN fnMap
        BY <2>1, <2>3, <2>4, PieceOfMap, OnePiece DEF SelectFunction
    <2> QED BY <1>1, <2>1, <2>4 DEF SelectFunction
<1>4. CASE \E i \in 1 .. Len(buttons) : ShowSection(secMap[buttons[i]])
    BY <1>4 DEF ShowSection, TextFollows, MapsFollow
<1>5. CASE fullScript /\ ShowCode(Script)
    <2>1. text'.kind = "Code" /\ text'.pieces = Script
        BY <1>5 DEF ShowCode
    <2>2. Len(fnOrder) \in Nat
        BY DEF TInv, TypeOK
    <2>3. /\ Len(Script) = Len(fnOrder)
          /\ \A i \in 1 .. Len(fnOrder) : Script[i] = fnMap[fnOrder[i]]
        BY <2>2 DEF Script
    <2>4. \A i \in 1 .. Len(fnOrder) : OwnCode(fnMap[fnOrder[i]])
        BY <1>5, PieceOfMap DEF RowsAreSelectable
    <2>5. \A i \in 1 .. Len(text'.pieces) : OwnCode(text'.pieces[i])
        BY <2>1, <2>3, <2>4
    <2>6. \A i \in 1 .. Len(text'.pieces) : OwnCode(text.pieces[i])'
        BY <2>5 DEF OwnCode, PieceName, FileOf
    <2> QED BY <2>1, <2>6 DEF TextFollows
<1> QED BY <1>1, <1>2, <1>3, <1>4, <1>5, TextSteps

LEMMA SerialStep ==
    ASSUME TInv, RowsAreSelectable, HeardOK, ChannelInOrder, MapKeepsNames, SerialInv,
           [Next]_vars
    PROVE  SerialInv'
<1> SUFFICES ASSUME OneAtATime'
             PROVE  PanelsFollow' /\ MapsFollow' /\ TextFollows'
    BY DEF SerialInv
<1>1. CASE \E f \in Files : LoadFile(f)
    <2>1. PICK f \in Files : LoadFile(f)
        BY <1>1
    <2> QED BY <2>1, AloneLoad, PanelsLoad, MapsLoad
<1>2. CASE Drain
    <2>1. loads' = loads
        BY <1>2 DEF Drain, taskVars
    <2>2. PanelsFollow /\ MapsFollow /\ TextFollows
        BY <2>1 DEF SerialInv, OneAtATime
    <2> QED BY <1>2, <2>2, PanelsDrain, HeardIsLast, MapsDrain, TextDrain
<1>3. CASE \E l \in Loads, o \in Outcomes : AnalysisEnds(l, o)
    <2>1. UNCHANGED <<loads, fnMap, secMap, rows, buttons, text>>
        BY <1>3 DEF AnalysisEnds, mapVars, explorerVars
    <2>2. PanelsFollow /\ MapsFollow /\ TextFollows
        BY <2>1 DEF SerialInv, OneAtATime
    <2>3. PanelsFollow'
        BY <1>3, <2>2, PanelsEnds
    <2> QED BY <2>1, <2>2, <2>3 DEF MapsFollow, TextFollows, OwnCode, PieceName, FileOf
<1>4. CASE /\ UNCHANGED <<loads, outcome, heard, fnMap, fnOrder, secMap,
                          rows, buttons, fullScript, nodes>>
           /\ ~ (\E f \in Files : LoadFile(f)) /\ ~ Drain
    <2>1. PanelsFollow /\ MapsFollow /\ TextFollows
        BY <1>4 DEF SerialInv, OneAtATime
    <2>2. PanelsFollow' /\ MapsFollow'
        BY <1>4, <2>1 DEF PanelsFollow, PanelsAfter, Complete, FileOf, MapsFollow
    <2> QED BY <1>4, <2>1, <2>2, TextSame
<1> QED BY <1>1, <1>2, <1>3, <1>4, SerialSteps

(***************************************************************************)
(* When loads do not overlap, the panels follow the last file, for any     *)
(* files and any number of loads one after the other: lists, buttons and   *)
(* graph are its, rows and buttons lead to its code and sections, and what *)
(* the code panel shows under one of its names is its own.                 *)
(***************************************************************************)
THEOREM SerialLoadsShowTheirFile == Spec => []SerialPanels
<1>1. Init => SerialInv
    BY DEF Init, BridgeInit, SerialInv, PanelsFollow, MapsFollow, TextFollows
<1>2. TInv /\ RowsAreSelectable /\ HeardOK /\ ChannelInOrder /\ MapKeepsNames /\ SerialInv
        /\ [Next]_vars => SerialInv'
    BY SerialStep
<1>3. TInv /\ SerialInv => SerialPanels
    BY SerialShows DEF SerialInv, PanelFacts, MapsFollow, TextFollows, OwnCode, SerialPanels
<1> QED BY <1>1, <1>2, <1>3, TypeAndSelection, FeedInvariant, KeepNames, PTL DEF Spec
=============================================================================
